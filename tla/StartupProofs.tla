--------------------------- MODULE StartupProofs ----------------------------
(***************************************************************************)
(* What grind has defined once it is up, for any scripts, directories and  *)
(* ports.                                                                  *)
(***************************************************************************)
EXTENDS Startup, SequenceTheorems, TLAPS

(***************************************************************************)
(* Calls                                                                   *)
(***************************************************************************)
LEMMA CallFields ==
  ASSUME NEW c \in Call
  PROVE  /\ c.g \in Groups
         /\ c.op \in {"group", "signature", "format", "extractor", "klass", "view"}
         /\ c.op = "group" => c.port \in Ports
         /\ c.op \in {"format", "extractor"} => c.f \in Formats
         /\ c.op \in {"klass", "view"} => c.k \in Klasses
         /\ c.op = "klass" => c.fs \in SUBSET Formats
         /\ c.op = "view" => c.v \in Views
BY DEF Call, GroupCall, SignatureCall, FormatCall, ExtractorCall, KlassCall, ViewCall

LEMMA NextCall ==
  ASSUME NEW s \in Seq(Call), s # <<>>
  PROVE  Head(s) \in Call /\ Tail(s) \in Seq(Call)
BY HeadTailProperties

(***************************************************************************)
(* Types                                                                   *)
(***************************************************************************)
LEMMA PathsType ==
  ASSUME NEW s \in Layouts \cup {<<>>}
  PROVE  s \in Seq(SUBSET Files) /\ Len(s) \in Nat
<1>1. s \in Seq(SUBSET Files)
  <2>1. <<>> \in Seq(SUBSET Files)
    BY EmptySeq
  <2> QED
    BY <2>1, LayoutAssumption, Zenon
<1> QED
  BY <1>1, LenProperties

(* The walk has not begun before there are directories.                    *)
Types == TypeOK /\ (phase = "config" => at = 1)

LEMMA TypeInit == Init => Types
<1>1. Init => at \in 1..(Len(paths) + 1)
  <2>1. Len(<<>>) = 0
    OBVIOUS
  <2>2. Init => Len(paths) = 0 /\ at = 1
    BY <2>1, Zenon DEF Init
  <2> QED
    BY <2>2
<1> QED
  BY <1>1 DEF Init, TypeOK, Types

LEMMA DefineType ==
  ASSUME TypeOK, Define
  PROVE  TypeOK'
<1> DEFINE c == Head(script)
<1>1. script # <<>> /\ UNCHANGED <<phase, paths, at, found, removing>> /\ script' = Tail(script)
  BY DEF Define, DefineGroup, DefineSignature, DefineFormat, DefineExtractor,
         DefineKlass, DefineView, Calling, walk
<1>2. c \in Call /\ script' \in Seq(Call)
  BY <1>1, NextCall DEF TypeOK
<1>3. /\ c.g \in Groups
      /\ c.op = "group" => c.port \in Ports
      /\ c.op \in {"format", "extractor"} => c.f \in Formats
      /\ c.op \in {"klass", "view"} => c.k \in Klasses
      /\ c.op = "klass" => c.fs \in SUBSET Formats
      /\ c.op = "view" => c.v \in Views
  BY <1>2, CallFields
<1> HIDE DEF c
<1>4. CASE DefineGroup
  BY <1>1, <1>2, <1>3, <1>4 DEF DefineGroup, Calling, Registers, TypeOK, c
<1>5. CASE DefineSignature
  BY <1>1, <1>2, <1>3, <1>5 DEF DefineSignature, Calling, TypeOK, c
<1>6. CASE DefineFormat
  BY <1>1, <1>2, <1>3, <1>6 DEF DefineFormat, Calling, TypeOK, c
<1>7. CASE DefineExtractor
  BY <1>1, <1>2, <1>3, <1>7 DEF DefineExtractor, Calling, TypeOK, c
<1>8. CASE DefineKlass
  BY <1>1, <1>2, <1>3, <1>8 DEF DefineKlass, Calling, TypeOK, c
<1>9. CASE DefineView
  BY <1>1, <1>2, <1>3, <1>9 DEF DefineView, Calling, TypeOK, c
<1> QED
  BY <1>4, <1>5, <1>6, <1>7, <1>8, <1>9 DEF Define

LEMMA TypeNext == Types /\ [Next]_vars => Types'
<1> SUFFICES ASSUME TypeOK, phase = "config" => at = 1, [Next]_vars
             PROVE  TypeOK' /\ (phase' = "config" => at' = 1)
  BY DEF Types
<1>0. phase' = "config" => at' = 1
  <2>1. Define => phase' = "loading"
    BY DEF Define, DefineGroup, DefineSignature, DefineFormat, DefineExtractor,
           DefineKlass, DefineView, Calling
  <2>2. ConfigRefused \/ ConfigAccepted \/ NextDirectory \/ AllLoaded \/ ScriptRaises
        \/ Cleanup \/ StopAndCleanup \/ CleanupEarly => phase' # "config"
    BY DEF ConfigRefused, ConfigAccepted, NextDirectory, AllLoaded, Idle, ScriptRaises,
           Cleanup, StopAndCleanup, CleanupEarly
  <2>3. ASSUME NEW f \in Files, LoadScript(f) PROVE phase' # "config"
    BY <2>3 DEF LoadScript, Idle
  <2>4. ASSUME NEW g \in Groups, AcceptFails(g) \/ RemoveFeeder(g) PROVE phase' # "config"
    BY <2>4 DEF AcceptFails, RemoveFeeder, Uses
  <2> QED
    BY <2>1, <2>2, <2>3, <2>4 DEF Next, vars
<1>1. CASE Define
  BY <1>0, <1>1, DefineType
<1>2. ASSUME NEW f \in Files, LoadScript(f) PROVE TypeOK'
  <2>1. Script[f] \in Seq(Call)
    BY ScriptAssumption
  <2> QED
    BY <1>2, <2>1 DEF LoadScript, Idle, TypeOK, entities, net
<1>3. CASE ConfigRefused \/ AllLoaded
  BY <1>3 DEF ConfigRefused, AllLoaded, Idle, TypeOK, entities, net, walk
<1>4. CASE ConfigAccepted
  <2>1. PICK s : s = paths'
    OBVIOUS
  <2>2. Len(s) \in Nat
    BY <1>4, <2>1, PathsType DEF ConfigAccepted
  <2>3. at' = 1 /\ Len(paths') \in Nat
    BY <1>4, <2>1, <2>2 DEF ConfigAccepted
  <2>4. at' \in 1..(Len(paths') + 1)
    BY <2>3
  <2> QED
    BY <1>4, <2>4 DEF ConfigAccepted, TypeOK, entities, net
<1>5. CASE NextDirectory
  <2>1. at' \in 1..(Len(paths') + 1)
    BY <1>5, PathsType DEF NextDirectory, TypeOK
  <2> QED
    BY <1>5, <2>1 DEF NextDirectory, Idle, TypeOK, entities, net
<1>6. CASE ScriptRaises
  BY <1>6 DEF ScriptRaises, TypeOK, entities, net, walk
<1>7. CASE Cleanup \/ CleanupEarly
  BY <1>7 DEF Cleanup, CleanupEarly, TypeOK, entities, walk
<1>8. CASE StopAndCleanup
  BY <1>8 DEF StopAndCleanup, TypeOK, walk
<1>9. ASSUME NEW g \in Groups, AcceptFails(g) PROVE TypeOK'
  BY <1>9 DEF AcceptFails, Uses, TypeOK, entities, walk
<1>10. ASSUME NEW g \in Groups, RemoveFeeder(g) PROVE TypeOK'
  BY <1>10 DEF RemoveFeeder, Uses, TypeOK, entities, walk
<1>11. CASE UNCHANGED vars
  BY <1>11 DEF vars, TypeOK
<1> QED
  BY <1>0, <1>1, <1>2, <1>3, <1>4, <1>5, <1>6, <1>7, <1>8, <1>9, <1>10, <1>11 DEF Next

(* Groups, formats, klasses, views and feeders are of their kind in every  *)
(* reachable state.                                                        *)
THEOREM TypeCorrect == Spec => []TypeOK
<1>1. Types => TypeOK
  BY DEF Types
<1> QED
  BY <1>1, TypeInit, TypeNext, PTL DEF Spec

(***************************************************************************)
(* The topology                                                            *)
(***************************************************************************)
LEMMA TopologyInit == Init => Topology
BY DEF Init, Topology

(* Everything that is defined refers to what is there when it is; groups,  *)
(* signatures, formats and klasses stay, and a klass that is defined again *)
(* loses the formats and views of the old one.                             *)
LEMMA TopologyNext == Topology /\ [Next]_vars => Topology'
<1> SUFFICES ASSUME Topology, [Next]_vars PROVE Topology'
  OBVIOUS
<1> DEFINE c == Head(script)
<1>1. CASE UNCHANGED <<groups, signed, formats, extractors, klasses, binds, views>>
  BY <1>1 DEF Topology
<1>2. CASE DefineGroup
  BY <1>2 DEF DefineGroup, Topology
<1>3. CASE DefineSignature
  BY <1>3 DEF DefineSignature, Topology
<1>4. CASE DefineFormat
  <2>1. c.g \in groups /\ c.g \in signed
    BY <1>4 DEF DefineFormat, Calling, Holds
  <2>2. /\ formats' = formats \cup {<<c.g, c.f>>}
        /\ extractors' = extractors \ {<<c.g, c.f>>}
        /\ UNCHANGED <<groups, signed, klasses, binds, views>>
    BY <1>4 DEF DefineFormat
  <2> HIDE DEF c
  <2> QED
    BY <2>1, <2>2 DEF Topology
<1>5. CASE DefineExtractor
  <2>1. <<c.g, c.f>> \in formats
    BY <1>5 DEF DefineExtractor, Calling, Holds
  <2>2. /\ extractors' = extractors \cup {<<c.g, c.f>>}
        /\ UNCHANGED <<groups, signed, formats, klasses, binds, views>>
    BY <1>5 DEF DefineExtractor
  <2> HIDE DEF c
  <2> QED
    BY <2>1, <2>2 DEF Topology
<1>6. CASE DefineKlass
  <2>1. c.g \in groups /\ \A f \in c.fs : <<c.g, f>> \in formats
    BY <1>6 DEF DefineKlass, Calling, Holds
  <2>2. /\ klasses' = klasses \cup {<<c.g, c.k>>}
        /\ UNCHANGED <<groups, signed, formats, extractors>>
        /\ \A r \in views' : r \in views
        /\ \A r \in binds' : r \in binds \/ \E f \in c.fs : r = <<c.g, c.k, f>>
    BY <1>6 DEF DefineKlass
  <2> HIDE DEF c
  <2> QED
    BY <2>1, <2>2 DEF Topology
<1>7. CASE DefineView
  <2>1. <<c.g, c.k>> \in klasses
    BY <1>7 DEF DefineView, Calling, Holds
  <2>2. /\ views' = views \cup {<<c.g, c.k, c.v>>}
        /\ UNCHANGED <<groups, signed, formats, extractors, klasses, binds>>
    BY <1>7 DEF DefineView
  <2> HIDE DEF c
  <2> QED
    BY <2>1, <2>2 DEF Topology
<1>8. CASE StopAndCleanup
  BY <1>8 DEF StopAndCleanup, Topology
<1> QED
  BY <1>1, <1>2, <1>3, <1>4, <1>5, <1>6, <1>7, <1>8
  DEF Next, Define, ConfigRefused, ConfigAccepted, LoadScript, NextDirectory,
      ScriptRaises, AllLoaded, Cleanup, CleanupEarly, AcceptFails, RemoveFeeder,
      entities, vars

(* No script, whether it defines something twice or stops half way, leaves *)
(* a klass, view or format that refers to what is not there.               *)
THEOREM TopologySound == Spec => []Topology
BY TopologyInit, TopologyNext, PTL DEF Spec

(***************************************************************************)
(* Feeders                                                                 *)
(***************************************************************************)
Feeds(g) == \E r \in feeders : r[1] = g

(* Until the kernel is up every group has its feeder, which accepts; only  *)
(* then may an accept fail, and the feeder it takes with it is one that no *)
(* longer accepts.                                                         *)
Feeding ==
  /\ \A r, s \in feeders : r[1] = s[1] \/ r[2] = s[2] => r = s
  /\ \A r \in feeders : r[1] \in groups
  /\ phase \notin {"exited", "cleaned", "crashed"} =>
       \A g \in accepting \cup removing : Feeds(g)
  /\ phase \in {"config", "loading", "refused", "raised"} =>
       groups = accepting /\ removing = {}
  /\ accepting \cap removing = {}

LEMMA FeedingInit == Init => Feeding
BY DEF Init, Feeding

LEMMA DefineGroupFeeding ==
  ASSUME Feeding, DefineGroup
  PROVE  Feeding'
<1> DEFINE c == Head(script)
<1>1. /\ phase = "loading" /\ phase' = phase /\ removing' = removing
      /\ groups' = groups \cup {c.g}
      /\ c.g \in groups \/ Available(c.port)
  BY DEF DefineGroup, Calling, Holds
<1>2. CASE c.g \in groups
  BY <1>1, <1>2 DEF DefineGroup, Feeding, Feeds
<1>3. CASE c.g \notin groups
  <2>1. /\ feeders' = feeders \cup {<<c.g, c.port>>}
        /\ accepting' = accepting \cup {c.g}
    BY <1>3 DEF DefineGroup, Registers
  <2>2. \A r \in feeders : r[1] # c.g /\ r[2] # c.port
    BY <1>1, <1>3 DEF Available, Feeding
  <2> HIDE DEF c
  <2>3. \A r \in feeders' : r \in feeders \/ r = <<c.g, c.port>>
    BY <2>1
  <2>4. \A r, s \in feeders' : r[1] = s[1] \/ r[2] = s[2] => r = s
    BY <2>2, <2>3 DEF Feeding
  <2>5. \A r \in feeders' : r[1] \in groups'
    BY <1>1, <2>3 DEF Feeding
  <2>6. \E r \in feeders' : r[1] = c.g
    <3>1. <<c.g, c.port>> \in feeders' /\ <<c.g, c.port>>[1] = c.g
      BY <2>1
    <3> QED
      BY <3>1
  <2>7. \A g \in accepting : \E r \in feeders' : r[1] = g
    BY <1>1, <2>1 DEF Feeding, Feeds
  <2> QED
    BY <1>1, <2>1, <2>4, <2>5, <2>6, <2>7 DEF Feeding, Feeds
<1> QED
  BY <1>2, <1>3

LEMMA FeedingNext == TypeOK /\ Feeding /\ [Next]_vars => Feeding'
<1> SUFFICES ASSUME TypeOK, Feeding, [Next]_vars PROVE Feeding'
  OBVIOUS
<1>1. CASE UNCHANGED <<phase, groups, feeders, accepting, removing>>
  BY <1>1 DEF Feeding, Feeds
<1>2. CASE DefineGroup
  BY <1>2, DefineGroupFeeding
<1>3. CASE ConfigRefused \/ ConfigAccepted \/ AllLoaded \/ ScriptRaises
  BY <1>3
  DEF ConfigRefused, ConfigAccepted, AllLoaded, ScriptRaises, Idle, entities, net,
      Feeding, Feeds
<1>4. CASE Cleanup \/ CleanupEarly
  BY <1>4 DEF Cleanup, CleanupEarly, entities, Feeding, Feeds
<1>5. CASE StopAndCleanup
  BY <1>5 DEF StopAndCleanup, Feeding, Feeds
<1>6. ASSUME NEW g \in Groups, AcceptFails(g) PROVE Feeding'
  <2>1. phase' \in {phase, "crashed"} /\ phase \in {"up", "cleaned"}
    BY <1>6 DEF AcceptFails, Uses
  <2> QED
    BY <1>6, <2>1 DEF AcceptFails, entities, Feeding, Feeds
<1>7. ASSUME NEW g \in Groups, RemoveFeeder(g) PROVE Feeding'
  <2>1. phase' \in {phase, "crashed"} /\ phase \in {"up", "cleaned"}
    BY <1>7 DEF RemoveFeeder, Uses
  <2> QED
    BY <1>7, <2>1 DEF RemoveFeeder, entities, Feeding, Feeds
<1>8. CASE UNCHANGED vars
  BY <1>1, <1>8 DEF vars
<1> QED
  BY <1>1, <1>2, <1>3, <1>4, <1>5, <1>6, <1>7, <1>8
  DEF Next, Define, DefineSignature, DefineFormat, DefineExtractor, DefineKlass,
      DefineView, Calling, LoadScript, NextDirectory, entities, net

LEMMA FeedingInvariant == Spec => []Feeding
BY TypeCorrect, FeedingInit, FeedingNext, PTL DEF Spec

(* Each group has exactly one feeder, on a port of its own, until an       *)
(* accept fails.                                                           *)
THEOREM GroupsFed == Spec => []Fed
<1>1. Feeding => Fed
  BY DEF Feeding, Feeds, Fed
<1> QED
  BY <1>1, FeedingInvariant, PTL

(* do_remove_feeder finds what it looks up until cleanup has deleted it.   *)
THEOREM RemovalsFound == Spec => []RemovesRegistered
<1>1. Feeding => RemovesRegistered
  BY DEF Feeding, Feeds, RemovesRegistered
<1> QED
  BY <1>1, FeedingInvariant, PTL

(***************************************************************************)
(* Places                                                                  *)
(***************************************************************************)
LEMMA ScriptType ==
  ASSUME NEW f \in Files
  PROVE  /\ Script[f] \in Seq(Call) /\ Len(Script[f]) \in Nat
         /\ \A n \in 1..Len(Script[f]) : Script[f][n] \in Call
<1>1. Script[f] \in Seq(Call)
  BY ScriptAssumption
<1> QED
  BY <1>1, LenProperties, ElementOfSeq

LEMMA InPlaces ==
  ASSUME NEW i \in 1..Len(paths), NEW f \in Files, f \in paths[i],
         NEW n \in 1..Len(Script[f])
  PROVE  <<i, f, n>> \in Places /\ CallAt(<<i, f, n>>) = Script[f][n]
<1> DEFINE U == UNION {1..Len(Script[h]) : h \in Files}
<1>1. n \in U
  OBVIOUS
<1> HIDE DEF U
<1>2. <<i, f, n>> \in (1..Len(paths)) \X Files \X U
  BY <1>1
<1>3. <<i, f, n>>[1] = i /\ <<i, f, n>>[2] = f /\ <<i, f, n>>[3] = n
  OBVIOUS
<1> QED
  BY <1>2, <1>3 DEF Places, CallAt, U

LEMMA PlaceParts ==
  ASSUME NEW p \in Places
  PROVE  /\ p = <<p[1], p[2], p[3]>>
         /\ p[1] \in 1..Len(paths) /\ p[2] \in Files /\ p[2] \in paths[p[1]]
         /\ p[3] \in 1..Len(Script[p[2]])
BY DEF Places

LEMMA InCalls ==
  ASSUME NEW F
  PROVE  \A c : c \in CallsOf(F) <=> \E f \in F : \E n \in 1..Len(Script[f]) : c = Script[f][n]
BY DEF CallsOf

(* A script in a directory is one of the files.                            *)
LEMMA Listed ==
  ASSUME TypeOK, NEW i \in 1..Len(paths), NEW f \in paths[i]
  PROVE  f \in Files
<1>1. paths \in Seq(SUBSET Files)
  BY PathsType DEF TypeOK
<1>2. paths[i] \in SUBSET Files
  BY <1>1, ElementOfSeq
<1> QED
  BY <1>2

LEMMA InstalledCalls ==
  ASSUME TypeOK
  PROVE  \A c : c \in CallsOf(Installed) <=> \E p \in Places : c = CallAt(p)
<1>1. ASSUME NEW c \in CallsOf(Installed) PROVE \E p \in Places : c = CallAt(p)
  <2>1. PICK f \in Installed : \E n \in 1..Len(Script[f]) : c = Script[f][n]
    BY InCalls
  <2>2. PICK n \in 1..Len(Script[f]) : c = Script[f][n]
    BY <2>1
  <2>3. PICK i \in 1..Len(paths) : f \in paths[i]
    BY DEF Installed
  <2>4. f \in Files
    BY <2>3, Listed
  <2> QED
    BY <2>2, <2>3, <2>4, InPlaces
<1>2. ASSUME NEW p \in Places PROVE CallAt(p) \in CallsOf(Installed)
  <2>1. p[2] \in Installed /\ p[3] \in 1..Len(Script[p[2]])
    BY PlaceParts DEF Installed
  <2> QED
    BY <2>1, InCalls DEF CallAt
<1> QED
  BY <1>1, <1>2

LEMMA CallType ==
  ASSUME NEW p \in Places
  PROVE  CallAt(p) \in Call
BY PlaceParts, ScriptType DEF CallAt

(***************************************************************************)
(* What the calls made so far have defined                                 *)
(***************************************************************************)
(* What only grows: G, S, F, K and E are groups, signed, formats, klasses  *)
(* and feeders after the calls at the places D.                            *)
Grown(D, G, S, F, K, E) ==
  /\ \A x : x \in G <=> \E p \in D : CallAt(p).op = "group" /\ x = CallAt(p).g
  /\ \A x : x \in S <=> \E p \in D : CallAt(p).op = "signature" /\ x = CallAt(p).g
  /\ \A x : x \in F <=> \E p \in D : CallAt(p).op = "format"
                                       /\ x = <<CallAt(p).g, CallAt(p).f>>
  /\ \A x : x \in K <=> \E p \in D : CallAt(p).op = "klass"
                                       /\ x = <<CallAt(p).g, CallAt(p).k>>
  /\ \A x \in E : \E p \in D : /\ CallAt(p).op = "group"
                               /\ x[1] = CallAt(p).g /\ x[2] = CallAt(p).port

KeptIn(p, P) == \A q \in P : Renews(CallAt(q), CallAt(p)) => Precedes(q, p)
LostIn(p, D) == \E q \in D : Renews(CallAt(q), CallAt(p)) /\ Precedes(p, q)

Lists(p, r, B) ==
  LET c == CallAt(p) IN
  /\ c.op = "klass" /\ r = <<c.g, c.k>>
  /\ {b \in B : b[1] = c.g /\ b[2] = c.k} = {<<c.g, c.k, f>> : f \in c.fs}
Extracts(p, r) == CallAt(p).op = "extractor" /\ r = <<CallAt(p).g, CallAt(p).f>>
Shows(p, r) == CallAt(p).op = "view" /\ r = <<CallAt(p).g, CallAt(p).k, CallAt(p).v>>

(* What a definition made again takes away: X, B and V are extractors,     *)
(* binds and views after the calls at D, of all that are at P.             *)
Added(D, P, K, X, B, V) ==
  /\ \A r \in K : \E p \in D : Lists(p, r, B) /\ ~LostIn(p, D)
  /\ \A p \in D : \A r : Extracts(p, r) /\ KeptIn(p, P) => r \in X
  /\ \A p \in D : \A r : Shows(p, r) /\ KeptIn(p, P) => r \in V
  /\ \A r \in X : \E p \in D : Extracts(p, r) /\ ~LostIn(p, D)
  /\ \A r \in V : \E p \in D : Shows(p, r) /\ ~LostIn(p, D)

LEMMA DefineCalls ==
  ASSUME Define
  PROVE  /\ phase = "loading" /\ script # <<>> /\ Holds(Head(script))
         /\ script' = Tail(script)
         /\ UNCHANGED <<phase, paths, at, found, removing>>
BY DEF Define, DefineGroup, DefineSignature, DefineFormat, DefineExtractor,
       DefineKlass, DefineView, Calling, walk

LEMMA GrownDefine ==
  ASSUME NEW D, NEW z, CallAt(z) = Head(script),
         Grown(D, groups, signed, formats, klasses, feeders), Define
  PROVE  Grown(D \cup {z}, groups', signed', formats', klasses', feeders')
<1> DEFINE c == CallAt(z)
<1>1. CASE DefineGroup
  <2>1. /\ c.op = "group"
        /\ groups' = groups \cup {c.g}
        /\ \A r \in feeders' : r \in feeders \/ r = <<c.g, c.port>>
        /\ UNCHANGED <<signed, formats, klasses>>
    BY <1>1 DEF DefineGroup, Calling, Registers
  <2> QED
    BY <2>1 DEF Grown
<1>2. CASE DefineSignature
  <2>1. c.op = "signature" /\ signed' = signed \cup {c.g}
        /\ UNCHANGED <<groups, formats, klasses, feeders>>
    BY <1>2 DEF DefineSignature, Calling
  <2> QED
    BY <2>1 DEF Grown
<1>3. CASE DefineFormat
  <2>1. c.op = "format" /\ formats' = formats \cup {<<c.g, c.f>>}
        /\ UNCHANGED <<groups, signed, klasses, feeders>>
    BY <1>3 DEF DefineFormat, Calling
  <2> QED
    BY <2>1 DEF Grown
<1>4. CASE DefineKlass
  <2>1. c.op = "klass" /\ klasses' = klasses \cup {<<c.g, c.k>>}
        /\ UNCHANGED <<groups, signed, formats, feeders>>
    BY <1>4 DEF DefineKlass, Calling
  <2> QED
    BY <2>1 DEF Grown
<1>5. CASE DefineExtractor \/ DefineView
  <2>1. c.op \in {"extractor", "view"}
        /\ UNCHANGED <<groups, signed, formats, klasses, feeders>>
    BY <1>5 DEF DefineExtractor, DefineView, Calling
  <2> QED
    BY <2>1 DEF Grown
<1> QED
  BY <1>1, <1>2, <1>3, <1>4, <1>5 DEF Define

(* A call that comes last loses nothing of its own, and takes away only    *)
(* what it renews, which is none of what is kept.                          *)
LEMMA LastCall ==
  ASSUME NEW D, NEW P, NEW z \in P, ~Precedes(z, z), \A q \in D : ~Precedes(z, q)
  PROVE  /\ ~LostIn(z, D \cup {z})
         /\ \A p \in D : ~LostIn(p, D) /\ ~Renews(CallAt(z), CallAt(p)) => ~LostIn(p, D \cup {z})
         /\ \A p \in D : KeptIn(p, P) => ~Renews(CallAt(z), CallAt(p))
BY DEF LostIn, KeptIn

LEMMA AddedDefine ==
  ASSUME NEW D, NEW P, NEW z \in P, ~Precedes(z, z), \A q \in D : ~Precedes(z, q),
         CallAt(z) = Head(script), Added(D, P, klasses, extractors, binds, views), Define
  PROVE  Added(D \cup {z}, P, klasses', extractors', binds', views')
<1> DEFINE c == CallAt(z)
           N == D \cup {z}
<1>0. /\ ~LostIn(z, N)
      /\ \A p \in D : ~LostIn(p, D) /\ ~Renews(c, CallAt(p)) => ~LostIn(p, N)
      /\ \A p \in D : KeptIn(p, P) => ~Renews(c, CallAt(p))
  BY LastCall
<1>1. CASE DefineGroup \/ DefineSignature
  <2>1. c.op \in {"group", "signature"} /\ UNCHANGED <<klasses, extractors, binds, views>>
    BY <1>1 DEF DefineGroup, DefineSignature, Calling
  <2>2. \A p : ~Renews(c, CallAt(p))
    BY <2>1 DEF Renews
  <2>3. \A r : ~Extracts(z, r) /\ ~Shows(z, r)
    BY <2>1 DEF Extracts, Shows
  <2> QED
    BY <1>0, <2>1, <2>2, <2>3 DEF Added
<1>2. CASE DefineFormat
  <2>1. /\ c.op = "format" /\ extractors' = extractors \ {<<c.g, c.f>>}
        /\ UNCHANGED <<klasses, binds, views>>
    BY <1>2 DEF DefineFormat, Calling
  <2>2. \A p, r : Shows(p, r) \/ Lists(p, r, binds) => ~Renews(c, CallAt(p))
    BY <2>1 DEF Renews, Shows, Lists
  <2>3. \A p, r : Extracts(p, r) => (Renews(c, CallAt(p)) <=> r = <<c.g, c.f>>)
    BY <2>1 DEF Renews, Extracts
  <2>4. \A r : ~Extracts(z, r) /\ ~Shows(z, r)
    BY <2>1 DEF Extracts, Shows
  <2> HIDE DEF c
  <2>5. \A r \in klasses' : \E p \in N : Lists(p, r, binds') /\ ~LostIn(p, N)
    BY <1>0, <2>1, <2>2 DEF Added
  <2>6. \A p \in N : \A r : Extracts(p, r) /\ KeptIn(p, P) => r \in extractors'
    BY <1>0, <2>1, <2>3, <2>4 DEF Added
  <2>7. \A p \in N : \A r : Shows(p, r) /\ KeptIn(p, P) => r \in views'
    BY <2>1, <2>4 DEF Added
  <2>8. \A r \in extractors' : \E p \in N : Extracts(p, r) /\ ~LostIn(p, N)
    BY <1>0, <2>1, <2>3 DEF Added
  <2>9. \A r \in views' : \E p \in N : Shows(p, r) /\ ~LostIn(p, N)
    BY <1>0, <2>1, <2>2 DEF Added
  <2> QED
    BY <2>5, <2>6, <2>7, <2>8, <2>9 DEF Added
<1>3. CASE DefineExtractor
  <2>1. /\ c.op = "extractor" /\ extractors' = extractors \cup {<<c.g, c.f>>}
        /\ UNCHANGED <<klasses, binds, views>>
    BY <1>3 DEF DefineExtractor, Calling
  <2>2. \A p : ~Renews(c, CallAt(p))
    BY <2>1 DEF Renews
  <2>3. \A r : ~Shows(z, r) /\ (Extracts(z, r) <=> r = <<c.g, c.f>>)
    BY <2>1 DEF Extracts, Shows
  <2> QED
    BY <1>0, <2>1, <2>2, <2>3 DEF Added
<1>4. CASE DefineView
  <2>1. /\ c.op = "view" /\ views' = views \cup {<<c.g, c.k, c.v>>}
        /\ UNCHANGED <<klasses, extractors, binds>>
    BY <1>4 DEF DefineView, Calling
  <2>2. \A p : ~Renews(c, CallAt(p))
    BY <2>1 DEF Renews
  <2>3. \A r : ~Extracts(z, r) /\ (Shows(z, r) <=> r = <<c.g, c.k, c.v>>)
    BY <2>1 DEF Extracts, Shows
  <2> QED
    BY <1>0, <2>1, <2>2, <2>3 DEF Added
<1>5. CASE DefineKlass
  <2> DEFINE other(r) == r[1] # c.g \/ r[2] # c.k
             new == {<<c.g, c.k, f>> : f \in c.fs}
  <2>1. /\ c.op = "klass" /\ klasses' = klasses \cup {<<c.g, c.k>>}
        /\ binds' = {r \in binds : other(r)} \cup new
        /\ views' = {r \in views : other(r)}
        /\ UNCHANGED extractors
    BY <1>5 DEF DefineKlass, Calling
  <2>2. \A p, r : Extracts(p, r) => ~Renews(c, CallAt(p))
    BY <2>1 DEF Renews, Extracts
  <2>3. \A p, r : Shows(p, r) => (Renews(c, CallAt(p)) <=> ~other(r))
    BY <2>1 DEF Renews, Shows
  <2>4. \A p, r : Lists(p, r, binds) => (Renews(c, CallAt(p)) <=> ~other(r))
    BY <2>1 DEF Renews, Lists
  <2>5. \A r : ~Extracts(z, r) /\ ~Shows(z, r)
    BY <2>1 DEF Extracts, Shows
  <2>6. Lists(z, <<c.g, c.k>>, binds')
    <3>1. \A b \in new : b[1] = c.g /\ b[2] = c.k
      OBVIOUS
    <3>2. {b \in binds' : b[1] = c.g /\ b[2] = c.k} = new
      BY <2>1, <3>1
    <3> QED
      BY <2>1, <3>2 DEF Lists
  <2>7. ASSUME NEW p, NEW r, Lists(p, r, binds), other(r)
        PROVE  Lists(p, r, binds')
    <3> DEFINE d == CallAt(p)
    <3>1. r = <<d.g, d.k>> /\ (d.g # c.g \/ d.k # c.k)
      BY <2>7 DEF Lists
    <3>2. \A b \in new : b[1] = c.g /\ b[2] = c.k
      OBVIOUS
    <3>3. {b \in binds' : b[1] = d.g /\ b[2] = d.k} = {b \in binds : b[1] = d.g /\ b[2] = d.k}
      BY <2>1, <3>1, <3>2
    <3> QED
      BY <2>7, <3>3 DEF Lists
  <2>8. \A r \in klasses' : r = <<c.g, c.k>> \/ (r \in klasses /\ other(r))
    <3>1. ASSUME NEW r \in klasses, ~other(r) PROVE r = <<c.g, c.k>>
      <4>1. PICK p \in D : Lists(p, r, binds)
        BY DEF Added
      <4>2. r = <<CallAt(p).g, CallAt(p).k>>
        BY <4>1 DEF Lists
      <4> QED
        BY <3>1, <4>2
    <3> QED
      BY <2>1, <3>1
  <2> HIDE DEF other, new, c
  <2>9. ASSUME NEW r \in klasses' PROVE \E p \in N : Lists(p, r, binds') /\ ~LostIn(p, N)
    <3>1. CASE r = <<c.g, c.k>>
      BY <1>0, <2>6, <3>1
    <3>2. CASE r \in klasses /\ other(r)
      <4>1. PICK p \in D : Lists(p, r, binds) /\ ~LostIn(p, D)
        BY <3>2 DEF Added
      <4> QED
        BY <1>0, <2>4, <2>7, <3>2, <4>1
    <3> QED
      BY <2>8, <2>9, <3>1, <3>2
  <2>10. \A p \in N : \A r : Shows(p, r) /\ KeptIn(p, P) => r \in views'
    <3>1. \A p \in D : \A r : Shows(p, r) /\ KeptIn(p, P) => r \in views /\ other(r)
      BY <1>0, <2>3 DEF Added
    <3>2. \A r \in views : other(r) => r \in views'
      BY <2>1
    <3> QED
      BY <2>5, <3>1, <3>2
  <2>11. \A r \in views' : \E p \in N : Shows(p, r) /\ ~LostIn(p, N)
    BY <1>0, <2>1, <2>3 DEF Added
  <2>12. \A p \in N : \A r : Extracts(p, r) /\ KeptIn(p, P) => r \in extractors'
    BY <2>1, <2>5 DEF Added
  <2>13. \A r \in extractors' : \E p \in N : Extracts(p, r) /\ ~LostIn(p, N)
    BY <1>0, <2>1, <2>2 DEF Added
  <2> QED
    BY <2>9, <2>10, <2>11, <2>12, <2>13 DEF Added
<1> QED
  BY <1>1, <1>2, <1>3, <1>4, <1>5 DEF Define

(***************************************************************************)
(* The walk                                                                *)
(***************************************************************************)
Walked == {p \in Places : p[1] < at \/ (p[1] = at /\ p[2] \in found)}

(* Script f of this directory is being run, and call n of it is next; the  *)
(* calls at D have been made.                                              *)
Stage(D, f, n) ==
  /\ at \in 1..Len(paths) /\ f \in paths[at] /\ f \in found /\ f \in Files
  /\ n \in 1..(Len(Script[f]) + 1)
  /\ script = SubSeq(Script[f], n, Len(Script[f]))
  /\ D = {p \in Walked : p[1] = at /\ p[2] = f => p[3] < n}

Shape(D) ==
  \/ script = <<>> /\ D = Walked
  \/ phase = "loading" /\ \E f, n : Stage(D, f, n)

Defined(D) == /\ Grown(D, groups, signed, formats, klasses, feeders)
              /\ Added(D, Places, klasses, extractors, binds, views)

Loading == phase \in {"config", "loading", "up"}

Progress ==
  Loading =>
    /\ phase = "config" => at = 1 /\ found = {} /\ script = <<>>
    /\ phase = "up" => script = <<>> /\ at > Len(paths)
    /\ signed \subseteq groups
    /\ \E D : Shape(D) /\ Defined(D)

(* When a script ends all its calls have been made.                        *)
LEMMA StageEnd ==
  ASSUME NEW D, NEW f, NEW n, Stage(D, f, n), script = <<>>
  PROVE  D = Walked
<1>1. Script[f] \in Seq(Call) /\ Len(Script[f]) \in Nat
      /\ \A m \in 1..Len(Script[f]) : Script[f][m] \in Call
  BY ScriptType DEF Stage
<1>2. n = Len(Script[f]) + 1
  <2> SUFFICES ASSUME n <= Len(Script[f]) PROVE FALSE
    BY <1>1 DEF Stage
  <2>1. \A m \in n..Len(Script[f]) : Script[f][m] \in Call
    BY <1>1 DEF Stage
  <2>2. n \in 1..(Len(Script[f]) + 1)
    BY DEF Stage
  <2>3. Len(SubSeq(Script[f], n, Len(Script[f]))) = Len(Script[f]) - n + 1
    BY <1>1, <2>1, <2>2, SubSeqProperties
  <2>4. Len(<<>>) = 0
    OBVIOUS
  <2> QED
    BY <1>1, <2>2, <2>3, <2>4 DEF Stage
<1>3. \A p \in Walked : p[2] = f => p[3] < n
  BY <1>1, <1>2, PlaceParts DEF Walked
<1> QED
  BY <1>3 DEF Stage

(* Where the next call of a script is made.                                *)
NextPlace(D, f, n, z) ==
  /\ n \in 1..Len(Script[f])
  /\ Head(script) = Script[f][n]
  /\ Tail(script) = SubSeq(Script[f], n + 1, Len(Script[f]))
  /\ z \in Places /\ CallAt(z) = Script[f][n]
  /\ \A q \in D \cup {z} : ~Precedes(z, q)
  /\ D \cup {z} = {p \in Walked : p[1] = at /\ p[2] = f => p[3] < n + 1}

LEMMA StageMid ==
  ASSUME NEW D, NEW f, NEW n, Stage(D, f, n), script # <<>>
  PROVE  NextPlace(D, f, n, <<at, f, n>>)
<1>1. Script[f] \in Seq(Call) /\ Len(Script[f]) \in Nat
  BY ScriptType DEF Stage
<1>2. n \in 1..Len(Script[f])
  <2>1. n > Len(Script[f]) => SubSeq(Script[f], n, Len(Script[f])) = <<>>
    BY <1>1, SubSeqEmpty DEF Stage
  <2> QED
    BY <1>1, <2>1 DEF Stage
<1>3. /\ Head(SubSeq(Script[f], n, Len(Script[f]))) = Script[f][n]
      /\ Tail(SubSeq(Script[f], n, Len(Script[f]))) = SubSeq(Script[f], n + 1, Len(Script[f]))
  <2>1. Len(Script[f]) \in n..Len(Script[f])
    BY <1>1, <1>2
  <2> QED
    BY <1>1, <1>2, <2>1, HeadTailOfSubSeq
<1>4. <<at, f, n>> \in Places /\ CallAt(<<at, f, n>>) = Script[f][n]
  BY <1>2, InPlaces DEF Stage
<1> PICK z : z = <<at, f, n>>
  OBVIOUS
<1>5. z \in Places /\ z[1] = at /\ z[2] = f /\ z[3] = n /\ at \in Nat /\ n \in Nat
      /\ f \in found
  BY <1>1, <1>2, <1>4 DEF Stage
<1>6. \A q \in D : q \in Places /\ q[1] <= at /\ q[1] \in Nat /\ q[3] \in Nat
                 /\ (q[1] = at /\ q[2] = f => q[3] < n)
  <2>1. \A q \in Places : q[1] \in Nat /\ q[3] \in Nat
    BY PlaceParts
  <2> QED
    BY <1>5, <2>1 DEF Stage, Walked
<1>7. \A q \in D \cup {z} : ~Precedes(z, q)
  BY <1>5, <1>6 DEF Precedes
<1>8. \A p \in Walked : (p[1] = at /\ p[2] = f => p[3] < n + 1)
                         <=> p \in D \/ p = z
  <2> TAKE p \in Walked
  <2>1. p = <<p[1], p[2], p[3]>> /\ p[3] \in Nat
    BY PlaceParts DEF Walked
  <2>2. p \in D <=> (p[1] = at /\ p[2] = f => p[3] < n)
    BY DEF Stage
  <2> QED
    BY <1>5, <2>1, <2>2
<1>9. z \in Walked
  BY <1>5 DEF Walked
<1>10. D \subseteq Walked
  BY DEF Stage
<1> QED
  BY <1>2, <1>3, <1>4, <1>7, <1>8, <1>9, <1>10 DEF Stage, NextPlace

(* What a layered script needs has been made before.                       *)
LEMMA EarlierMade ==
  ASSUME TypeOK, NEW D, NEW f, NEW n, Stage(D, f, n), n \in 1..Len(Script[f])
  PROVE  \A d \in Earlier(at, f, n) : \E p \in D : d = CallAt(p)
<1> SUFFICES ASSUME NEW d \in Earlier(at, f, n) PROVE \E p \in D : d = CallAt(p)
  OBVIOUS
<1>0. at \in 1..Len(paths) /\ f \in paths[at] /\ f \in Files /\ f \in found
      /\ Len(Script[f]) \in Nat /\ Len(paths) \in Nat
  BY ScriptType, PathsType DEF Stage, TypeOK
<1>1. CASE d \in CallsOf(UNION {paths[j] : j \in 1..(at - 1)})
  <2>1. PICK h \in UNION {paths[j] : j \in 1..(at - 1)} : \E m \in 1..Len(Script[h]) : d = Script[h][m]
    BY <1>1, InCalls
  <2>2. PICK m \in 1..Len(Script[h]) : d = Script[h][m]
    BY <2>1
  <2>3. PICK j \in 1..(at - 1) : h \in paths[j]
    OBVIOUS
  <2>4. j \in 1..Len(paths) /\ j < at
    BY <1>0
  <2>5. h \in Files
    BY <2>3, <2>4, Listed
  <2>6. <<j, h, m>> \in Places /\ CallAt(<<j, h, m>>) = d
    BY <2>2, <2>3, <2>4, <2>5, InPlaces
  <2>7. <<j, h, m>>[1] = j /\ j # at
    BY <1>0, <2>4
  <2> QED
    BY <2>4, <2>6, <2>7 DEF Stage, Walked
<1>2. CASE d \in {Script[f][m] : m \in 1..(n - 1)}
  <2>1. PICK m \in 1..(n - 1) : d = Script[f][m]
    BY <1>2
  <2>2. m \in 1..Len(Script[f]) /\ m < n
    BY <1>0
  <2>3. <<at, f, m>> \in Places /\ CallAt(<<at, f, m>>) = d
    BY <1>0, <2>1, <2>2, InPlaces
  <2>4. <<at, f, m>>[1] = at /\ <<at, f, m>>[2] = f /\ <<at, f, m>>[3] = m
    OBVIOUS
  <2> QED
    BY <1>0, <2>2, <2>3, <2>4 DEF Stage, Walked
<1> QED
  BY <1>1, <1>2 DEF Earlier

(* A call whose needs are provided by calls made does not raise.           *)
LEMMA ProvidedHolds ==
  ASSUME NEW c \in Call, NEW D,
         \A p \in D : CallAt(p) \in CallsOf(Installed),
         NEW C, \A d \in C : \E p \in D : d = CallAt(p),
         Grown(D, groups, signed, formats, klasses, feeders),
         Topology, signed \subseteq groups, Provided(c, C)
  PROVE  Holds(c)
<1>1. CASE c.op = "group"
  <2>1. \/ \E d \in Declared("group", C) : d.g = c.g
        \/ /\ c.port \notin Busy
           /\ \A d \in Declared("group", CallsOf(Installed)) : d.g = c.g \/ d.port # c.port
    BY <1>1 DEF Provided
  <2>2. CASE c.g \in groups
    BY <1>1, <2>2 DEF Holds
  <2>3. CASE c.g \notin groups
    <3>1. /\ c.port \notin Busy
          /\ \A p \in D : CallAt(p).op = "group" =>
               CallAt(p).g = c.g \/ CallAt(p).port # c.port
      BY <2>1, <2>3 DEF Grown, Declared
    <3>2. \A r \in feeders : r[2] # c.port
      BY <2>3, <3>1 DEF Grown
    <3> QED
      BY <1>1, <3>1, <3>2 DEF Holds, Available, CanListen
  <2> QED
    BY <2>2, <2>3
<1>2. CASE c.op = "signature"
  <2>1. \E d \in Declared("group", C) : d.g = c.g
    BY <1>2 DEF Provided
  <2>2. c.g \in groups
    BY <2>1 DEF Grown, Declared
  <2> QED
    BY <1>2, <2>2 DEF Holds
<1>3. CASE c.op = "format"
  <2>1. \E d \in Declared("signature", C) : d.g = c.g
    BY <1>3 DEF Provided
  <2>2. c.g \in signed
    BY <2>1 DEF Grown, Declared
  <2> QED
    BY <1>3, <2>2 DEF Holds
<1>4. CASE c.op = "extractor"
  <2>1. \E d \in Declared("format", C) : d.g = c.g /\ d.f = c.f
    BY <1>4 DEF Provided
  <2>2. <<c.g, c.f>> \in formats
    BY <2>1 DEF Grown, Declared
  <2>3. c.g \in groups
    BY <2>2 DEF Topology
  <2> QED
    BY <1>4, <2>2, <2>3 DEF Holds
<1>5. CASE c.op = "klass"
  <2>1. /\ \E d \in Declared("group", C) : d.g = c.g
        /\ \A f \in c.fs : \E d \in Declared("format", C) : d.g = c.g /\ d.f = f
    BY <1>5 DEF Provided
  <2>2. c.g \in groups /\ \A f \in c.fs : <<c.g, f>> \in formats
    BY <2>1 DEF Grown, Declared
  <2> QED
    BY <1>5, <2>2 DEF Holds
<1>6. CASE c.op = "view"
  <2>1. \E d \in Declared("klass", C) : d.g = c.g /\ d.k = c.k
    BY <1>6 DEF Provided
  <2>2. <<c.g, c.k>> \in klasses
    BY <2>1 DEF Grown, Declared
  <2>3. c.g \in groups
    BY <2>2 DEF Topology
  <2> QED
    BY <1>6, <2>2, <2>3 DEF Holds
<1> QED
  BY <1>1, <1>2, <1>3, <1>4, <1>5, <1>6, CallFields

(* Hence no call of a layered script raises.                               *)
LEMMA LayeredHolds ==
  ASSUME TypeOK, Topology, Progress, Layered, phase = "loading", script # <<>>
  PROVE  Holds(Head(script))
<1>1. PICK D : Shape(D) /\ Defined(D)
  BY DEF Progress, Loading
<1>2. PICK f, n : Stage(D, f, n)
  BY <1>1 DEF Shape
<1>3. n \in 1..Len(Script[f]) /\ Head(script) = Script[f][n]
  <2>1. NextPlace(D, f, n, <<at, f, n>>)
    BY <1>2, StageMid
  <2> QED
    BY <2>1 DEF NextPlace
<1>4. Head(script) \in Call
  BY NextCall DEF TypeOK
<1>5. Provided(Head(script), Earlier(at, f, n))
  BY <1>2, <1>3 DEF Layered, Stage
<1>6. \A d \in Earlier(at, f, n) : \E p \in D : d = CallAt(p)
  BY <1>2, <1>3, EarlierMade
<1>7. \A p \in D : CallAt(p) \in CallsOf(Installed)
  BY <1>2, InstalledCalls DEF Stage, Walked
<1>8. Grown(D, groups, signed, formats, klasses, feeders) /\ signed \subseteq groups
  BY <1>1 DEF Defined, Progress, Loading
<1> QED
  BY <1>4, <1>5, <1>6, <1>7, <1>8, ProvidedHolds

LEMMA DefineProgress ==
  ASSUME TypeOK, Progress, Define
  PROVE  Progress'
<1>1. /\ phase = "loading" /\ script # <<>> /\ Holds(Head(script)) /\ script' = Tail(script)
      /\ UNCHANGED <<phase, paths, at, found, removing>>
  BY DefineCalls
<1>2. PICK D : Shape(D) /\ Defined(D)
  BY <1>1 DEF Progress, Loading
<1>3. PICK f, n : Stage(D, f, n)
  BY <1>1, <1>2 DEF Shape
<1>4. PICK z : z = <<at, f, n>>
  OBVIOUS
<1>5. /\ n \in 1..Len(Script[f]) /\ Head(script) = CallAt(z) /\ z \in Places
      /\ Tail(script) = SubSeq(Script[f], n + 1, Len(Script[f]))
      /\ ~Precedes(z, z) /\ \A q \in D : ~Precedes(z, q)
      /\ D \cup {z} = {p \in Walked : p[1] = at /\ p[2] = f => p[3] < n + 1}
  <2>1. NextPlace(D, f, n, z)
    BY <1>1, <1>3, <1>4, StageMid
  <2> QED
    BY <2>1 DEF NextPlace
<1>6. PICK N, P : N = D \cup {z} /\ P = Places
  OBVIOUS
<1>7. Places' = P /\ Walked' = Walked
  BY <1>1, <1>6 DEF Places, Walked
<1>8. Stage(N, f, n + 1)'
  <2>1. n + 1 \in 1..(Len(Script[f]) + 1)
    BY <1>3, <1>5, ScriptType DEF Stage
  <2> QED
    BY <1>1, <1>3, <1>5, <1>6, <1>7, <2>1 DEF Stage
<1>9. Grown(N, groups', signed', formats', klasses', feeders')
  BY <1>2, <1>5, <1>6, GrownDefine DEF Defined
<1>10. Added(N, P, klasses', extractors', binds', views')
  <2>1. Added(D, P, klasses, extractors, binds, views)
    BY <1>2, <1>6 DEF Defined
  <2> QED
    BY <1>5, <1>6, <2>1, AddedDefine
<1>11. signed' \subseteq groups'
  <2>0. signed \subseteq groups
    BY <1>1 DEF Progress, Loading
  <2>1. CASE DefineSignature
    <3>1. Head(script).g \in groups
      BY <2>1 DEF DefineSignature, Calling, Holds
    <3> QED
      BY <2>0, <2>1, <3>1 DEF DefineSignature
  <2>2. CASE ~DefineSignature
    BY <2>0, <2>2
    DEF Define, DefineGroup, DefineFormat, DefineExtractor, DefineKlass, DefineView
  <2> QED
    BY <2>1, <2>2
<1>12. Shape(N)' /\ Defined(N)'
  BY <1>1, <1>7, <1>8, <1>9, <1>10 DEF Shape, Defined
<1> QED
  BY <1>1, <1>11, <1>12 DEF Progress, Loading

(* A step that defines nothing and stays in the same shape.                *)
LEMMA ShapeProgress ==
  ASSUME NEW D, Defined(D), signed \subseteq groups,
         UNCHANGED <<paths, groups, signed, formats, extractors, klasses, binds, views>>,
         feeders' \subseteq feeders,
         Shape(D)',
         phase' = "config" => at' = 1 /\ found' = {} /\ script' = <<>>,
         phase' = "up" => script' = <<>> /\ at' > Len(paths')
  PROVE  Progress'
<1>1. PICK P : P = Places
  OBVIOUS
<1>2. Places' = P
  BY <1>1 DEF Places
<1>3. Grown(D, groups', signed', formats', klasses', feeders')
  BY DEF Defined, Grown
<1>4. Added(D, P, klasses', extractors', binds', views')
  BY <1>1 DEF Defined
<1>5. Defined(D)'
  BY <1>2, <1>3, <1>4 DEF Defined
<1> QED
  BY <1>5 DEF Progress

LEMMA LoadScriptProgress ==
  ASSUME TypeOK, Progress, NEW f \in Files, LoadScript(f)
  PROVE  Progress'
<1>1. /\ phase = "loading" /\ script = <<>> /\ found' = found \cup {f}
      /\ script' = Script[f] /\ f \in Left
      /\ UNCHANGED <<phase, paths, at, groups, signed, formats, extractors, klasses,
                     binds, views, feeders>>
  BY DEF LoadScript, Idle, entities, net
<1>2. PICK D : Shape(D) /\ Defined(D)
  BY <1>1 DEF Progress, Loading
<1>3. D = Walked
  BY <1>1, <1>2, StageEnd DEF Shape
<1>4. at \in 1..Len(paths) /\ f \in paths[at] /\ f \notin found
  BY <1>1, PathsType DEF Left, TypeOK
<1>5. Script[f] \in Seq(Call) /\ Len(Script[f]) \in Nat
  BY ScriptType
<1>6. Stage(D, f, 1)'
  <2>1. script' = SubSeq(Script[f], 1, Len(Script[f]))
    BY <1>1, <1>5, SubSeqFull
  <2>2. Places' = Places
    BY <1>1 DEF Places
  <2>3. \A p \in Places : p[3] >= 1 /\ p[3] \in Nat
    BY PlaceParts
  <2>4. D = {p \in Walked' : p[1] = at /\ p[2] = f => p[3] < 1}
    BY <1>1, <1>3, <1>4, <2>2, <2>3 DEF Walked
  <2>5. 1 \in 1..(Len(Script[f]) + 1)
    BY <1>5
  <2> QED
    BY <1>1, <1>4, <2>1, <2>4, <2>5 DEF Stage
<1>7. Shape(D)'
  BY <1>1, <1>6 DEF Shape
<1> QED
  BY <1>1, <1>2, <1>7, ShapeProgress DEF Progress, Loading

LEMMA NextDirectoryProgress ==
  ASSUME TypeOK, Progress, NextDirectory
  PROVE  Progress'
<1>1. /\ phase = "loading" /\ script = <<>> /\ found' = {} /\ at' = at + 1
      /\ at <= Len(paths) /\ Left = {}
      /\ UNCHANGED <<phase, paths, script, groups, signed, formats, extractors, klasses,
                     binds, views, feeders>>
  BY DEF NextDirectory, Idle, entities, net
<1>2. PICK D : Shape(D) /\ Defined(D)
  BY <1>1 DEF Progress, Loading
<1>3. D = Walked
  BY <1>1, <1>2, StageEnd DEF Shape
<1>4. Walked' = Walked
  <2>1. Places' = Places /\ \A p \in Places : p[1] \in Nat /\ p[2] \in paths[p[1]]
    BY <1>1, PlaceParts DEF Places
  <2>2. at \in Nat /\ paths[at] \subseteq found
    BY <1>1 DEF Left, TypeOK
  <2>3. \A p \in Places : p[1] < at + 1 <=> p[1] < at \/ (p[1] = at /\ p[2] \in found)
    BY <2>1, <2>2
  <2> QED
    BY <1>1, <2>1, <2>3 DEF Walked
<1>5. Shape(D)'
  BY <1>1, <1>3, <1>4 DEF Shape
<1> QED
  BY <1>1, <1>2, <1>5, ShapeProgress DEF Progress, Loading

LEMMA ProgressInit == Init => Progress
<1> SUFFICES ASSUME Init PROVE Progress
  OBVIOUS
<1>1. Walked = {}
  <2>1. at = 1 /\ found = {} /\ \A p \in Places : p[1] >= 1 /\ p[1] \in Nat
    BY PlaceParts DEF Init
  <2> QED
    BY <2>1 DEF Walked
<1>2. Shape({}) /\ Defined({})
  BY <1>1 DEF Init, Shape, Defined, Grown, Added
<1> QED
  BY <1>2 DEF Init, Progress

LEMMA ProgressNext == TypeOK /\ Progress /\ [Next]_vars => Progress'
<1> SUFFICES ASSUME TypeOK, Progress, [Next]_vars PROVE Progress'
  OBVIOUS
<1>1. CASE Define
  BY <1>1, DefineProgress
<1>2. ASSUME NEW f \in Files, LoadScript(f) PROVE Progress'
  BY <1>2, LoadScriptProgress
<1>3. CASE NextDirectory
  BY <1>3, NextDirectoryProgress
<1>4. CASE ConfigAccepted
  <2>1. /\ phase = "config" /\ phase' = "loading"
        /\ UNCHANGED <<at, found, script, groups, signed, formats, extractors, klasses,
                       binds, views, feeders>>
    BY <1>4 DEF ConfigAccepted, entities, net
  <2>2. /\ at = 1 /\ found = {} /\ script = <<>> /\ signed \subseteq groups
        /\ \E D : Shape(D) /\ Defined(D)
    BY <2>1 DEF Progress, Loading
  <2>3. PICK D : Shape(D) /\ Defined(D)
    BY <2>2
  <2>4. Walked = {}
    BY <2>2, PlaceParts DEF Walked
  <2>5. D = {}
    BY <2>1, <2>3, <2>4 DEF Shape
  <2>6. Walked' = {}
    <3>1. \A p \in Places' : p[1] \in 1..Len(paths')
      BY DEF Places
    <3> QED
      BY <2>1, <2>2, <3>1 DEF Walked
  <2>7. PICK E : E = {}
    OBVIOUS
  <2>8. Grown(E, groups', signed', formats', klasses', feeders')
    BY <2>1, <2>3, <2>5, <2>7 DEF Defined
  <2>9. \A P : Added(E, P, klasses', extractors', binds', views')
    BY <2>1, <2>3, <2>5, <2>7 DEF Defined, Added
  <2>10. Shape(E)' /\ Defined(E)'
    BY <2>1, <2>2, <2>6, <2>7, <2>8, <2>9 DEF Shape, Defined
  <2> QED
    BY <2>1, <2>2, <2>10 DEF Progress
<1>5. CASE AllLoaded
  <2>1. /\ phase = "loading" /\ script = <<>> /\ at > Len(paths) /\ phase' = "up"
        /\ UNCHANGED <<paths, at, found, script, groups, signed, formats, extractors,
                       klasses, binds, views, feeders>>
    BY <1>5 DEF AllLoaded, Idle, entities, net, walk
  <2>2. PICK D : Shape(D) /\ Defined(D)
    BY <2>1 DEF Progress, Loading
  <2>3. D = Walked /\ signed \subseteq groups
    BY <2>1, <2>2, StageEnd DEF Shape, Progress, Loading
  <2>4. Shape(D)'
    BY <2>1, <2>3 DEF Shape, Walked, Places
  <2> QED
    BY <2>1, <2>2, <2>3, <2>4, ShapeProgress
<1>6. ASSUME NEW g \in Groups, AcceptFails(g) \/ RemoveFeeder(g) PROVE Progress'
  <2>1. /\ feeders' \subseteq feeders
        /\ UNCHANGED <<paths, at, found, script, groups, signed, formats, extractors,
                       klasses, binds, views>>
        /\ phase \in {"up", "cleaned"} /\ phase' \in {phase, "crashed"}
    BY <1>6 DEF AcceptFails, RemoveFeeder, Uses, entities, walk
  <2>2. CASE phase' = "up"
    <3>1. phase = "up"
      BY <2>1, <2>2
    <3>2. PICK D : Shape(D) /\ Defined(D)
      BY <3>1 DEF Progress, Loading
    <3>3. /\ D = Walked /\ script = <<>> /\ at > Len(paths) /\ signed \subseteq groups
      BY <3>1, <3>2 DEF Shape, Progress, Loading
    <3>4. Shape(D)'
      BY <2>1, <3>3 DEF Shape, Walked, Places
    <3> QED
      BY <2>1, <2>2, <3>2, <3>3, <3>4, ShapeProgress
  <2>3. CASE phase' # "up"
    BY <2>1, <2>3 DEF Progress, Loading
  <2> QED
    BY <2>2, <2>3
<1>7. CASE ConfigRefused \/ ScriptRaises \/ Cleanup \/ StopAndCleanup \/ CleanupEarly
  <2>1. phase' \notin {"config", "loading", "up"}
    BY <1>7 DEF ConfigRefused, ScriptRaises, Cleanup, StopAndCleanup, CleanupEarly
  <2> QED
    BY <2>1 DEF Progress, Loading
<1>8. CASE UNCHANGED vars
  <2>1. UNCHANGED <<phase, paths, at, found, script, groups, signed, formats, extractors,
                    klasses, binds, views, feeders>>
    BY <1>8 DEF vars
  <2>2. CASE Loading
    <3>1. PICK D : Shape(D) /\ Defined(D)
      BY <2>2 DEF Progress
    <3>2. Shape(D)'
      BY <2>1, <3>1 DEF Shape, Stage, Walked, Places
    <3>3. /\ phase' = "config" => at' = 1 /\ found' = {} /\ script' = <<>>
          /\ phase' = "up" => script' = <<>> /\ at' > Len(paths')
          /\ signed \subseteq groups
      BY <2>1, <2>2 DEF Progress
    <3> QED
      BY <2>1, <3>1, <3>2, <3>3, ShapeProgress
  <2>3. CASE ~Loading
    BY <2>1, <2>3 DEF Progress, Loading
  <2> QED
    BY <2>2, <2>3
<1> QED
  BY <1>1, <1>2, <1>3, <1>4, <1>5, <1>6, <1>7, <1>8 DEF Next

LEMMA ProgressInvariant == Spec => []Progress
BY TypeCorrect, ProgressInit, ProgressNext, PTL DEF Spec

LEMMA LayeredKept ==
  ASSUME paths' = paths, Layered'
  PROVE  Layered
<1>1. Installed' = Installed
  BY DEF Installed
<1>2. \A c, D : Provided(c, D)' <=> Provided(c, D)
  BY <1>1, Zenon DEF Provided
<1>3. \A i, f, n : Earlier(i, f, n)' = Earlier(i, f, n)
  BY Zenon DEF Earlier
<1> SUFFICES ASSUME NEW i \in 1..Len(paths), NEW f \in paths[i],
                    NEW n \in 1..Len(Script[f])
             PROVE  Provided(Script[f][n], Earlier(i, f, n))
  BY DEF Layered
<1>4. PICK c, D : c = Script[f][n] /\ D = Earlier(i, f, n)
  OBVIOUS
<1>5. Provided(c, D)'
  BY <1>3, <1>4, Zenon DEF Layered
<1> QED
  BY <1>2, <1>4, <1>5, Zenon

LEMMA LayeredNext ==
  TypeOK /\ Topology /\ Progress /\ LayeredStarts /\ [Next]_vars => LayeredStarts'
<1> SUFFICES ASSUME TypeOK, Topology, Progress, LayeredStarts, [Next]_vars,
                    Layered', phase' = "raised"
             PROVE  FALSE
  BY DEF LayeredStarts
<1>1. CASE ScriptRaises
  <2>1. phase = "loading" /\ script # <<>> /\ ~Holds(Head(script)) /\ paths' = paths
    BY <1>1 DEF ScriptRaises, walk
  <2> QED
    BY <2>1, LayeredKept, LayeredHolds
<1>2. CASE ConfigAccepted \/ ConfigRefused \/ NextDirectory \/ AllLoaded \/ Cleanup
           \/ StopAndCleanup \/ CleanupEarly
  BY <1>2 DEF ConfigAccepted, ConfigRefused, NextDirectory, AllLoaded, Idle, Cleanup,
              StopAndCleanup, CleanupEarly
<1>3. CASE Define
  BY <1>3, DefineCalls
<1>4. ASSUME NEW f \in Files, LoadScript(f) PROVE FALSE
  BY <1>4 DEF LoadScript, Idle
<1>5. ASSUME NEW g \in Groups, AcceptFails(g) \/ RemoveFeeder(g) PROVE FALSE
  BY <1>5 DEF AcceptFails, RemoveFeeder, Uses
<1>6. CASE UNCHANGED vars
  BY <1>6, LayeredKept DEF vars, LayeredStarts
<1> QED
  BY <1>1, <1>2, <1>3, <1>4, <1>5, <1>6 DEF Next

(* Scripts that are layered over the directories never raise, however many *)
(* there are, in whatever order a directory lists them, and although one   *)
(* that several directories contain is run several times.                  *)
THEOREM LayeredNeverRaises == Spec => []LayeredStarts
<1>1. Init => LayeredStarts
  BY DEF Init, LayeredStarts
<1> QED
  BY <1>1, TypeCorrect, TopologySound, ProgressInvariant, LayeredNext, PTL DEF Spec

(* And what is up when all are loaded is what they define as far as the    *)
(* directories give their calls an order, whether the directories are      *)
(* disjoint or not and whether a format or klass is defined once or again. *)
THEOREM LoadedAsDefined == Spec => []LoadedExactly
<1>1. TypeOK /\ Progress => LoadedExactly
  <2> SUFFICES ASSUME TypeOK, Progress, phase = "up" PROVE LoadedExactly
    BY DEF LoadedExactly
  <2>1. PICK D : Shape(D) /\ Defined(D)
    BY DEF Progress, Loading
  <2>2. D = Places
    <3>1. D = Walked /\ at > Len(paths)
      BY <2>1 DEF Shape, Progress, Loading
    <3>2. at \in Nat /\ Len(paths) \in Nat
      BY PathsType DEF TypeOK
    <3>3. \A p \in Places : p[1] < at
      BY <3>1, <3>2, PlaceParts
    <3> QED
      BY <3>1, <3>3 DEF Walked
  <2>3. Grown(Places, groups, signed, formats, klasses, feeders)
    BY <2>1, <2>2 DEF Defined
  <2>4. Added(Places, Places, klasses, extractors, binds, views)
    BY <2>1, <2>2 DEF Defined
  <2> DEFINE C == CallsOf(Installed)
  <2>5. \A c : c \in C <=> \E p \in Places : c = CallAt(p)
    BY InstalledCalls
  <2> HIDE DEF C
  <2>6. groups = {c.g : c \in Declared("group", C)}
    BY <2>3, <2>5 DEF Grown, Declared
  <2>7. formats = {<<c.g, c.f>> : c \in Declared("format", C)}
    BY <2>3, <2>5 DEF Grown, Declared
  <2>8. klasses = {<<c.g, c.k>> : c \in Declared("klass", C)}
    BY <2>3, <2>5 DEF Grown, Declared
  <2>9. \A p : (KeptIn(p, Places) <=> Kept(p)) /\ (LostIn(p, Places) <=> Lost(p))
    BY DEF KeptIn, Kept, LostIn, Lost
  <2>10. \A r \in klasses : \E p \in Places :
          LET c == CallAt(p) IN
          /\ c.op = "klass" /\ r = <<c.g, c.k>> /\ ~Lost(p)
          /\ {b \in binds : b[1] = c.g /\ b[2] = c.k} = {<<c.g, c.k, f>> : f \in c.fs}
    BY <2>4, <2>9, Zenon DEF Added, Lists
  <2>11. \A p \in Places :
          LET c == CallAt(p) IN
          /\ c.op = "extractor" /\ Kept(p) => <<c.g, c.f>> \in extractors
          /\ c.op = "view" /\ Kept(p) => <<c.g, c.k, c.v>> \in views
    BY <2>4, <2>9 DEF Added, Extracts, Shows
  <2>12. \A r \in extractors : \E p \in Places :
          LET c == CallAt(p) IN c.op = "extractor" /\ r = <<c.g, c.f>> /\ ~Lost(p)
    BY <2>4, <2>9 DEF Added, Extracts
  <2>13. \A r \in views : \E p \in Places :
          LET c == CallAt(p) IN c.op = "view" /\ r = <<c.g, c.k, c.v>> /\ ~Lost(p)
    BY <2>4, <2>9 DEF Added, Shows
  <2> QED
    BY <2>6, <2>7, <2>8, <2>10, <2>11, <2>12, <2>13, Zenon DEF LoadedExactly, C
<1> QED
  BY <1>1, TypeCorrect, ProgressInvariant, PTL
=============================================================================
