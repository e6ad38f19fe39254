------------------------------ MODULE Startup -------------------------------
(***************************************************************************)
(* How grind comes up: kernel::init starts the script engine, grind.start  *)
(* reads the configuration and loads the entity scripts it finds, and the  *)
(* scripts define groups, signatures, formats, extractors, klasses and     *)
(* views.  A group registers a feeder with the kernel, which the kernel    *)
(* later removes if it has trouble accepting connections.                  *)
(*                                                                         *)
(* A script is a sequence of calls of the define functions.  What these    *)
(* functions assert is what subscribe, grind.handle and remove_watcher     *)
(* rely on later (TopologyAssumption of Registry).                         *)
(***************************************************************************)
EXTENDS Naturals, Sequences

CONSTANTS
  Groups, Ports, Formats, Klasses, Views,
  Files,         \* the entity scripts
  Script,        \* the calls each of them makes
  Layouts,       \* the entity_paths a configuration can name: a sequence of
                 \* directories, each the set of the files below it
  Busy           \* ports that another process listens on

(* The calls of the define functions.                                      *)
GroupCall(g, p) == [op |-> "group", g |-> g, port |-> p]
SignatureCall(g) == [op |-> "signature", g |-> g]
FormatCall(g, f) == [op |-> "format", g |-> g, f |-> f]
ExtractorCall(g, f) == [op |-> "extractor", g |-> g, f |-> f]
KlassCall(g, k, fs) == [op |-> "klass", g |-> g, k |-> k, fs |-> fs]
ViewCall(g, k, v) == [op |-> "view", g |-> g, k |-> k, v |-> v]

Call ==
  {GroupCall(g, p) : g \in Groups, p \in Ports}
  \cup {SignatureCall(g) : g \in Groups}
  \cup {FormatCall(g, f) : g \in Groups, f \in Formats}
  \cup {ExtractorCall(g, f) : g \in Groups, f \in Formats}
  \cup {KlassCall(g, k, fs) : g \in Groups, k \in Klasses, fs \in SUBSET Formats}
  \cup {ViewCall(g, k, v) : g \in Groups, k \in Klasses, v \in Views}

ASSUME ScriptAssumption == Script \in [Files -> Seq(Call)]
ASSUME LayoutAssumption == Layouts \subseteq Seq(SUBSET Files)
ASSUME BusyAssumption == Busy \subseteq Ports

VARIABLES
  phase,         \* how far kernel::init has come
  paths,         \* grind.config.entity_paths
  at,            \* the directory that is being walked
  found,         \* the files the walk has come to
  script,        \* what is left of the script being run
  groups,        \* grind.groups
  signed,        \* the groups that have a signature
  formats,       \* the formats of each group, pairs
  extractors,    \* the formats that have an extractor, pairs
  klasses,       \* the klasses of each group, pairs
  binds,         \* klass.formats, triples
  views,         \* klass.views, triples
  feeders,       \* kernel::feeders_, pairs of a group and its port
  accepting,     \* the feeders that have an accept pending
  removing       \* the feeders do_remove_feeder is posted for

entities == <<groups, signed, formats, extractors, klasses, binds, views>>
net == <<feeders, accepting, removing>>
walk == <<paths, at, found>>
vars == <<phase, paths, at, found, script, groups, signed, formats, extractors,
          klasses, binds, views, feeders, accepting, removing>>

TypeOK ==
  /\ phase \in {"config", "loading", "up", "refused", "raised", "cleaned",
                "crashed", "exited"}
  /\ paths \in Layouts \cup {<<>>}
  /\ at \in 1..(Len(paths) + 1)
  /\ found \subseteq Files
  /\ script \in Seq(Call)
  /\ groups \subseteq Groups /\ signed \subseteq Groups
  /\ formats \subseteq Groups \X Formats /\ extractors \subseteq Groups \X Formats
  /\ klasses \subseteq Groups \X Klasses
  /\ binds \subseteq Groups \X Klasses \X Formats
  /\ views \subseteq Groups \X Klasses \X Views
  /\ feeders \subseteq Groups \X Ports
  /\ accepting \subseteq Groups /\ removing \subseteq Groups

Init ==
  /\ phase = "config"
  /\ paths = <<>> /\ at = 1 /\ found = {} /\ script = <<>>
  /\ groups = {} /\ signed = {} /\ formats = {} /\ extractors = {}
  /\ klasses = {} /\ binds = {} /\ views = {}
  /\ feeders = {} /\ accepting = {} /\ removing = {}

(***************************************************************************)
(* The configuration                                                       *)
(***************************************************************************)
(* No configuration file, one that raises, or one that names no interface  *)
(* or port for watchers.                                                   *)
ConfigRefused ==
  /\ phase = "config"
  /\ phase' = "refused"
  /\ UNCHANGED <<walk, script, entities, net>>

ConfigAccepted ==
  /\ phase = "config"
  /\ phase' = "loading"
  /\ paths' \in Layouts
  /\ UNCHANGED <<at, found, script, entities, net>>

(***************************************************************************)
(* The scripts, one directory after the other, each in the order that      *)
(* lfs.dir happens to give.  load_script forgets that a script has been    *)
(* loaded, so that one that lies below several of the directories is run   *)
(* again each time a walk comes to it.                                     *)
(***************************************************************************)
Idle == phase = "loading" /\ script = <<>>

Left == IF at <= Len(paths) THEN paths[at] \ found ELSE {}

LoadScript(f) ==
  /\ Idle
  /\ f \in Left
  /\ found' = found \cup {f}
  /\ script' = Script[f]
  /\ UNCHANGED <<phase, paths, at, entities, net>>

NextDirectory ==
  /\ Idle
  /\ at <= Len(paths)
  /\ Left = {}
  /\ at' = at + 1
  /\ found' = {}
  /\ UNCHANGED <<phase, paths, script, entities, net>>

AllLoaded ==
  /\ Idle
  /\ at > Len(paths)
  /\ phase' = "up"
  /\ UNCHANGED <<walk, script, entities, net>>

(* is_port_available looks at the feeders, listen at the machine.          *)
Available(p) == \A r \in feeders : r[2] # p
CanListen(p) == p \notin Busy

\* A slip in define_klass: the formats it lists are not looked up.
HoldsLax(c) ==
  CASE c.op = "group" -> c.g \in groups \/ (Available(c.port) /\ CanListen(c.port))
    [] c.op = "format" -> c.g \in signed
    [] c.op = "extractor" -> <<c.g, c.f>> \in formats
    [] c.op = "view" -> <<c.g, c.k>> \in klasses
    [] OTHER -> c.g \in groups

(* What a call asserts, or needs in order not to raise.                    *)
Holds(c) ==
  CASE c.op = "group" -> c.g \in groups \/ (Available(c.port) /\ CanListen(c.port))
    [] c.op = "signature" -> c.g \in groups
    [] c.op = "format" -> c.g \in groups /\ c.g \in signed
    [] c.op = "extractor" -> c.g \in groups /\ <<c.g, c.f>> \in formats
    [] c.op = "klass" -> c.g \in groups /\ \A f \in c.fs : <<c.g, f>> \in formats
    [] c.op = "view" -> c.g \in groups /\ <<c.g, c.k>> \in klasses

Calling(op) == /\ phase = "loading"
               /\ script # <<>>
               /\ Head(script).op = op
               /\ Holds(Head(script))
               /\ script' = Tail(script)
               /\ UNCHANGED <<phase, walk, removing>>

\* A slip in define_group: a group that is defined already starts afresh.
DefineGroupAnew ==
  LET c == Head(script) IN
  /\ Calling("group")
  /\ groups' = groups \cup {c.g}
  /\ signed' = signed \ {c.g}
  /\ formats' = {r \in formats : r[1] # c.g}
  /\ extractors' = {r \in extractors : r[1] # c.g}
  /\ klasses' = {r \in klasses : r[1] # c.g}
  /\ binds' = {r \in binds : r[1] # c.g}
  /\ views' = {r \in views : r[1] # c.g}
  /\ feeders' = IF c.g \in groups THEN feeders ELSE feeders \cup {<<c.g, c.port>>}
  /\ accepting' = accepting \cup {c.g}

\* A slip in define_group: the port of a group that is defined already is
\* registered again.
DefineGroupTwice ==
  LET c == Head(script) IN
  /\ Calling("group")
  /\ groups' = groups \cup {c.g}
  /\ feeders' = feeders \cup {<<c.g, c.port>>}
  /\ accepting' = accepting \cup {c.g}
  /\ UNCHANGED <<signed, formats, extractors, klasses, binds, views>>

(* register_feeder: the feeder listens and has an accept pending.          *)
Registers(g, p) == /\ feeders' = feeders \cup {<<g, p>>}
                   /\ accepting' = accepting \cup {g}

(* A group that is defined already stays as it is.                         *)
DefineGroup ==
  LET c == Head(script) IN
  /\ Calling("group")
  /\ groups' = groups \cup {c.g}
  /\ IF c.g \in groups THEN UNCHANGED <<feeders, accepting>>
                        ELSE Registers(c.g, c.port)
  /\ UNCHANGED <<signed, formats, extractors, klasses, binds, views>>

DefineSignature ==
  /\ Calling("signature")
  /\ signed' = signed \cup {Head(script).g}
  /\ UNCHANGED <<groups, formats, extractors, klasses, binds, views, feeders, accepting>>

(* A format that is defined again is a new one, without an extractor.      *)
DefineFormat ==
  LET r == <<Head(script).g, Head(script).f>> IN
  /\ Calling("format")
  /\ formats' = formats \cup {r}
  /\ extractors' = extractors \ {r}
  /\ UNCHANGED <<groups, signed, klasses, binds, views, feeders, accepting>>

DefineExtractor ==
  /\ Calling("extractor")
  /\ extractors' = extractors \cup {<<Head(script).g, Head(script).f>>}
  /\ UNCHANGED <<groups, signed, formats, klasses, binds, views, feeders, accepting>>

(* A klass that is defined again is a new one, without views.              *)
DefineKlass ==
  LET c == Head(script)
      other(r) == r[1] # c.g \/ r[2] # c.k
  IN
  /\ Calling("klass")
  /\ klasses' = klasses \cup {<<c.g, c.k>>}
  /\ binds' = {r \in binds : other(r)} \cup {<<c.g, c.k, f>> : f \in c.fs}
  /\ views' = {r \in views : other(r)}
  /\ UNCHANGED <<groups, signed, formats, extractors, feeders, accepting>>

\* A slip in define_view: it is entered for the klass label of any group.
DefineViewAnywhere ==
  LET c == Head(script) IN
  /\ Calling("view")
  /\ views' = views \cup {<<c.k, c.v>>}
  /\ UNCHANGED <<groups, signed, formats, extractors, klasses, binds, feeders, accepting>>

\* A slip in define_view: the table of views is made anew.
DefineViewOnly ==
  LET c == Head(script) IN
  /\ Calling("view")
  /\ views' = {r \in views : r[1] # c.g \/ r[2] # c.k} \cup {<<c.g, c.k, c.v>>}
  /\ UNCHANGED <<groups, signed, formats, extractors, klasses, binds, feeders, accepting>>

DefineView ==
  LET c == Head(script) IN
  /\ Calling("view")
  /\ views' = views \cup {<<c.g, c.k, c.v>>}
  /\ UNCHANGED <<groups, signed, formats, extractors, klasses, binds, feeders, accepting>>

(* A failed assertion, or an index of nil: handle_error closes Lua and     *)
(* throws, and kernel::init returns false.                                 *)
ScriptRaises ==
  /\ phase = "loading"
  /\ script # <<>>
  /\ ~Holds(Head(script))
  /\ phase' = "raised"
  /\ UNCHANGED <<walk, script, entities, net>>

(* main cleans up after a kernel that is not initialised, and returns 1.   *)
Cleanup ==
  /\ phase \in {"refused", "raised"}
  /\ phase' = "exited"
  /\ feeders' = {} /\ accepting' = {}
  /\ UNCHANGED <<walk, script, entities, removing>>

(***************************************************************************)
(* Feeders of a kernel that is up                                          *)
(***************************************************************************)
(* kernel::stop and cleanup: the io_service runs no more handlers,         *)
(* grind.stop empties the tables, and the feeders are deleted.             *)
StopAndCleanup ==
  /\ phase = "up"
  /\ phase' = "exited"
  /\ groups' = {} /\ signed' = {} /\ formats' = {} /\ extractors' = {}
  /\ klasses' = {} /\ binds' = {} /\ views' = {}
  /\ feeders' = {} /\ accepting' = {}
  /\ UNCHANGED <<walk, script, removing>>

(* A signal that comes before kernel::start has set running_: nothing is   *)
(* stopped, the feeders are deleted, and the worker, which runs meanwhile, *)
(* finds their accepts aborted.                                            *)
CleanupEarly ==
  /\ phase = "up"
  /\ phase' = "cleaned"
  /\ feeders' = {}
  /\ UNCHANGED <<walk, script, entities, accepting, removing>>

(* What becomes of a handler that uses what may be gone.                   *)
Uses(there) == phase' \in IF there THEN {phase} ELSE {phase, "crashed"}

\* A slip in feeder::on_accept: the accept is issued again after a failure.
AcceptFailsAgain(g) ==
  /\ phase \in {"up", "cleaned"}
  /\ g \in accepting
  /\ Uses(\E r \in feeders : r[1] = g)
  /\ removing' = removing \cup {g}
  /\ UNCHANGED <<walk, script, entities, feeders, accepting>>

(* An accept that fails is not issued again; the handler reads the label   *)
(* of its feeder.                                                          *)
AcceptFails(g) ==
  /\ phase \in {"up", "cleaned"}
  /\ g \in accepting
  /\ Uses(\E r \in feeders : r[1] = g)
  /\ accepting' = accepting \ {g}
  /\ removing' = removing \cup {g}
  /\ UNCHANGED <<walk, script, entities, feeders>>

(* do_remove_feeder dereferences what find returns; grind.groups is not    *)
(* told.                                                                   *)
RemoveFeeder(g) ==
  /\ phase \in {"up", "cleaned"}
  /\ g \in removing
  /\ Uses(\E r \in feeders : r[1] = g)
  /\ removing' = removing \ {g}
  /\ feeders' = {r \in feeders : r[1] # g}
  /\ UNCHANGED <<walk, script, entities, accepting>>

Define == \/ DefineGroup \/ DefineSignature \/ DefineFormat \/ DefineExtractor
          \/ DefineKlass \/ DefineView

Next == \/ ConfigRefused \/ ConfigAccepted
        \/ \E f \in Files : LoadScript(f)
        \/ Define \/ ScriptRaises \/ NextDirectory \/ AllLoaded
        \/ Cleanup \/ StopAndCleanup \/ CleanupEarly
        \/ \E g \in Groups : AcceptFails(g) \/ RemoveFeeder(g)

Spec == Init /\ [][Next]_vars

-----------------------------------------------------------------------------
(***************************************************************************)
(* Properties                                                              *)
(***************************************************************************)
(* Whatever is loaded, defined twice or left half done, a klass lists      *)
(* formats that exist, a view is in a klass that exists, and a format is   *)
(* in a group that can cut entries: subscribe, remove_watcher and          *)
(* grind.handle index these tables without a test (api.lua:153,            *)
(* grind.lua:608, grind.lua:104).                                          *)
Topology ==
  /\ \A r \in binds : <<r[1], r[2]>> \in klasses /\ <<r[1], r[3]>> \in formats
  /\ \A r \in views : <<r[1], r[2]>> \in klasses
  /\ \A r \in klasses : r[1] \in groups
  /\ \A r \in formats : r[1] \in groups \cap signed
  /\ extractors \subseteq formats

(* Lua's groups and the kernel's feeders agree until an accept fails: each *)
(* group has exactly one feeder, and no two feeders share a port           *)
(* (grind.lua:288-295, kernel.cpp:201-234).                                *)
Fed ==
  /\ \A r, s \in feeders : r[1] = s[1] \/ r[2] = s[2] => r = s
  /\ phase \notin {"exited", "cleaned", "crashed"} =>
       \A g \in accepting : \E r \in feeders : r[1] = g
  /\ phase = "loading" => groups = accepting

(* As long as cleanup has not deleted the feeders, the entry that          *)
(* do_remove_feeder looks up, deletes and erases is there (kernel.cpp:245  *)
(* dereferences what find returns).                                        *)
RemovesRegistered == phase = "up" => \A g \in removing : \E r \in feeders : r[1] = g

(* The calls that are certain to come before call n of a script in         *)
(* directory i, and whether they provide what a call asserts.              *)
CallsOf(F) == UNION {{Script[f][n] : n \in 1..Len(Script[f])} : f \in F}
Installed == UNION {paths[i] : i \in 1..Len(paths)}
Earlier(i, f, n) == CallsOf(UNION {paths[j] : j \in 1..(i - 1)})
                    \cup {Script[f][m] : m \in 1..(n - 1)}

Declared(op, C) == {c \in C : c.op = op}

Provided(c, C) ==
  LET has(op) == \E d \in Declared(op, C) : d.g = c.g
      format(f) == \E d \in Declared("format", C) : d.g = c.g /\ d.f = f
      free == /\ c.port \notin Busy
              /\ \A d \in Declared("group", CallsOf(Installed)) :
                   d.g = c.g \/ d.port # c.port
  IN CASE c.op = "group" -> has("group") \/ free
       [] c.op = "signature" -> has("group")
       [] c.op = "format" -> has("signature")
       [] c.op = "extractor" -> format(c.f)
       [] c.op = "klass" -> has("group") /\ \A f \in c.fs : format(f)
       [] c.op = "view" -> \E d \in Declared("klass", C) : d.g = c.g /\ d.k = c.k

(* Everything a script needs is defined by itself or in a directory that   *)
(* entity_paths names before any that it is found in.                      *)
Layered == \A i \in 1..Len(paths) : \A f \in paths[i] :
             \A n \in 1..Len(Script[f]) : Provided(Script[f][n], Earlier(i, f, n))

(* The places where a call is made: call p[3] of the script p[2], when it  *)
(* is found in directory p[1].  Within a directory only the calls of one   *)
(* script have an order.                                                   *)
Places == {p \in (1..Len(paths)) \X Files \X UNION {1..Len(Script[f]) : f \in Files} :
             p[2] \in paths[p[1]] /\ p[3] \in 1..Len(Script[p[2]])}
CallAt(p) == Script[p[2]][p[3]]
Precedes(p, q) == p[1] < q[1] \/ (p[1] = q[1] /\ p[2] = q[2] /\ p[3] < q[3])

(* A format or klass that is defined again is a new one, without what was  *)
(* added to the old one: an extractor, the formats it lists, its views.    *)
Renews(d, c) ==
  /\ d.g = c.g
  /\ \/ c.op \in {"klass", "view"} /\ d.op = "klass" /\ d.k = c.k
     \/ c.op = "extractor" /\ d.op = "format" /\ d.f = c.f

(* What is added at p is added to the last new one, or to one that is      *)
(* certain to be replaced.                                                 *)
Kept(p) == \A q \in Places : Renews(CallAt(q), CallAt(p)) => Precedes(q, p)
Lost(p) == \E q \in Places : Renews(CallAt(q), CallAt(p)) /\ Precedes(p, q)

(* Scripts that are layered over the directories of entity_paths, as the   *)
(* comment in share/grind/config.lua suggests with groups, klasses and     *)
(* views, never raise, in whatever order a directory lists them and        *)
(* although a script that several directories contain is run again         *)
(* (grind.lua:72-78 and the assertions of the define functions).           *)
LayeredStarts == phase = "raised" => ~Layered

(* And what is up then is what they define as far as that has an order:    *)
(* every group, format and klass; for each klass the formats of one of its *)
(* definitions that no later one replaces; every view and extractor that   *)
(* is added after the last definition of its klass or format, and none     *)
(* whose klass or format is certain to be defined again after it.  A klass *)
(* script that another directory lists again after those of its views      *)
(* leaves none of them (grind.lua:478, helpers.lua:255).                   *)
LoadedExactly ==
  LET C == CallsOf(Installed) IN
  phase = "up" /\ Layered =>
    /\ groups = {c.g : c \in Declared("group", C)}
    /\ formats = {<<c.g, c.f>> : c \in Declared("format", C)}
    /\ klasses = {<<c.g, c.k>> : c \in Declared("klass", C)}
    /\ \A r \in klasses : \E p \in Places :
         LET c == CallAt(p) IN
         /\ c.op = "klass" /\ r = <<c.g, c.k>> /\ ~Lost(p)
         /\ {b \in binds : b[1] = c.g /\ b[2] = c.k} = {<<c.g, c.k, f>> : f \in c.fs}
    /\ \A p \in Places :
         LET c == CallAt(p) IN
         /\ c.op = "extractor" /\ Kept(p) => <<c.g, c.f>> \in extractors
         /\ c.op = "view" /\ Kept(p) => <<c.g, c.k, c.v>> \in views
    /\ \A r \in extractors : \E p \in Places :
         LET c == CallAt(p) IN c.op = "extractor" /\ r = <<c.g, c.f>> /\ ~Lost(p)
    /\ \A r \in views : \E p \in Places :
         LET c == CallAt(p) IN c.op = "view" /\ r = <<c.g, c.k, c.v>> /\ ~Lost(p)
=============================================================================
