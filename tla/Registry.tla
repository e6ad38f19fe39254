------------------------------ MODULE Registry ------------------------------
(***************************************************************************)
(* The Lua core of grind: who watches what (scripts/grind.lua and the API  *)
(* commands of scripts/api.lua).  Subscriptions are kept in three places   *)
(* that must agree: grind.subscriptions, grind.keepers, and, per format,   *)
(* the list of active views of each klass with a count of active klasses.  *)
(* The relay loop of grind.handle reads all three.                         *)
(*                                                                         *)
(* One application group is modelled: groups share only grind.watchers,    *)
(* grind.subscriptions and grind.keepers.  Every action is one call from   *)
(* the kernel into Lua, atomic under the mutex of script_engine.           *)
(***************************************************************************)
EXTENDS Naturals, FiniteSets

CONSTANTS
  Watchers,      \* connections, by whois() ("host:port")
  Formats, Klasses, Views, Filters,
  KlassOf,       \* the klass a view is defined in
  FormatsOf,     \* the formats a klass lists
  Bare,          \* the formats defined without an extractor
  Entries,       \* what an entry can be: [hits, bare], see Handle
  Switchers,     \* watchers that subscribe again while subscribed
  Late,          \* watchers whose last read, or a second stop(), is
                 \* delivered after remove_watcher
  Faulty,        \* watchers that send a command whose handler raises
  MaxCopies,     \* bound on the length of the lists, see Room
  None, All      \* no subscription, and the subscription to "*"

Wants == Views \cup {None, All}

ASSUME TopologyAssumption ==
  /\ IsFiniteSet(Watchers)
  /\ IsFiniteSet(Klasses)
  /\ KlassOf \in [Views -> Klasses]
  /\ FormatsOf \in [Klasses -> SUBSET Formats]
  /\ Bare \subseteq Formats
  /\ Entries \subseteq [hits : SUBSET ((Formats \ Bare) \X Views), bare : SUBSET Bare]
ASSUME ClientAssumption ==
  /\ Switchers \subseteq Watchers
  /\ Late \subseteq Watchers
  /\ Faulty \subseteq Watchers
ASSUME WantAssumption == None \notin Views /\ All \notin Views /\ None # All
ASSUME BoundAssumption == MaxCopies \in Nat

VARIABLES
  watchers,      \* grind.watchers
  sub,           \* grind.subscriptions, the fields 1..3 of each
  filters,       \* the filters field of each subscription
  keepers,       \* grind.keepers, how often each watcher is listed
  activeK,       \* format.active_klasses, its keys
  active,        \* format.active_klasses, how often each view is listed
  nr,            \* format.nr_active_klasses
  engine,        \* "up", or which kind of call raised and took grind down
  reply,         \* how the last call was answered
  purged,        \* whom the last call ordered to purge
  entry,         \* the entry the last call handled, and what rejects it
  got            \* copies of each commit it relayed to each watcher

subs == <<watchers, sub, filters>>
lists == <<keepers, activeK, active, nr>>
out == <<reply, purged, entry, got>>
vars == <<watchers, sub, filters, keepers, activeK, active, nr, engine,
          reply, purged, entry, got>>

NoEntry == [of |-> [hits |-> {}, bare |-> {}], fails |-> {}]
Nothing == [w \in Watchers |-> [p \in Formats \X Views |-> 0]]

(* What the answer to a call is, when the call handles no entry.           *)
HandlesNone == entry' = NoEntry /\ got' = Nothing
Answer(r) == reply' = r /\ purged' = {} /\ HandlesNone

TypeOK ==
  /\ watchers \subseteq Watchers
  /\ sub \in [Watchers -> Wants]
  /\ filters \in [Watchers -> SUBSET Filters]
  /\ keepers \in [Watchers -> Nat]
  /\ activeK \in [Formats -> SUBSET Klasses]
  /\ active \in [Formats -> [Views -> Nat]]
  /\ nr \in [Formats -> Nat]
  /\ engine \in {"up", "command", "removal", "entry"}
  /\ reply \in {"none", "result", "failure"}
  /\ purged \subseteq Watchers
  /\ entry \in [of : Entries \cup {NoEntry.of}, fails : SUBSET Filters]
  /\ got \in [Watchers -> [Formats \X Views -> Nat]]

Init ==
  /\ watchers = {}
  /\ sub = [w \in Watchers |-> None]
  /\ filters = [w \in Watchers |-> {}]
  /\ keepers = [w \in Watchers |-> 0]
  /\ activeK = [f \in Formats |-> {}]
  /\ active = [f \in Formats |-> [v \in Views |-> 0]]
  /\ nr = [f \in Formats |-> 0]
  /\ engine = "up"
  /\ reply = "none" /\ purged = {} /\ entry = NoEntry /\ got = Nothing

FormatsOfView(v) == FormatsOf[KlassOf[v]]

(* The formats whose list of v's klass a (de)activation of v touches.      *)
Lists(f, v) == f \in FormatsOfView(v)

(* The kernel hands Lua a call on behalf of w: while w is registered, and  *)
(* for a late w also afterwards (connection::stop does not take back a     *)
(* read that has already completed, and may run twice).                    *)
Calls(w) == engine = "up" /\ w \in watchers \cup Late

(* The client bound: only a switcher subscribes again while subscribed.    *)
MaySubscribe(w) == Calls(w) /\ (sub[w] = None \/ w \in Switchers)

(***************************************************************************)
(* Connections                                                             *)
(***************************************************************************)
AddWatcher(w) ==
  /\ engine = "up"
  /\ w \notin watchers
  /\ watchers' = watchers \cup {w}
  /\ Answer("none")
  /\ UNCHANGED <<sub, filters, lists, engine>>

(* The watcher's subscription goes, whatever it was.                       *)
Forget(w) ==
  /\ watchers' = watchers \ {w}
  /\ sub' = [sub EXCEPT ![w] = None]
  /\ filters' = [filters EXCEPT ![w] = {}]
  /\ Answer("none")

RemoveIdle(w) ==
  /\ Calls(w)
  /\ sub[w] = None
  /\ Forget(w)
  /\ UNCHANGED <<lists, engine>>

\* Slips in remove_by_cond: every occurrence goes, or none does.
NoneLeft(n) == 0
AllLeft(n) == n

(* remove_by_cond takes out one occurrence, if there is one.               *)
OneLess(n) == IF n = 0 THEN 0 ELSE n - 1

RemoveKeeper(w) ==
  /\ Calls(w)
  /\ sub[w] = All
  /\ Forget(w)
  /\ keepers' = [keepers EXCEPT ![w] = OneLess(@)]
  /\ UNCHANGED <<activeK, active, nr, engine>>

\* Slips in the test of grind.lua:615: none at all, or only of the view's own
\* occurrences.
EmptiesAlways(f, v) == TRUE
EmptiesOwn(f, v) == active[f][v] <= 1

(* Whether taking one v out of format f's list of v's klass empties it.    *)
Empties(f, v) ==
  \A u \in Views : KlassOf[u] = KlassOf[v] =>
                      active[f][u] = 0 \/ (u = v /\ active[f][u] = 1)

Deactivate(v) ==
  LET gone(f) == Lists(f, v) /\ Empties(f, v) IN
  /\ active' = [f \in Formats |->
                  IF Lists(f, v) THEN [active[f] EXCEPT ![v] = OneLess(@)]
                                 ELSE active[f]]
  /\ activeK' = [f \in Formats |->
                  IF gone(f) THEN activeK[f] \ {KlassOf[v]} ELSE activeK[f]]
  /\ nr' = [f \in Formats |-> IF gone(f) THEN nr[f] - 1 ELSE nr[f]]

(* remove_by_cond(nil, ...) calls pairs(nil), which raises: a klass that is *)
(* not listed where the subscription says it is takes grind down.          *)
RemoveViewer(w) ==
  /\ Calls(w)
  /\ sub[w] \in Views
  /\ Forget(w)
  /\ Deactivate(sub[w])
  /\ engine' = IF \A f \in FormatsOfView(sub[w]) : KlassOf[sub[w]] \in activeK[f]
               THEN engine ELSE "removal"
  /\ UNCHANGED keepers

(***************************************************************************)
(* Commands                                                                *)
(***************************************************************************)
(* The bound on both kinds of list.                                        *)
Room(v) == \A f \in Formats : active[f][v] < MaxCopies

\* A slip in api.lua:153: the klass is counted on every subscription.
ActivateCounts(v) ==
  /\ active' = [f \in Formats |->
                  IF Lists(f, v) THEN [active[f] EXCEPT ![v] = @ + 1]
                                 ELSE active[f]]
  /\ activeK' = [f \in Formats |->
                  IF Lists(f, v) THEN activeK[f] \cup {KlassOf[v]} ELSE activeK[f]]
  /\ nr' = [f \in Formats |-> IF Lists(f, v) THEN nr[f] + 1 ELSE nr[f]]

Activate(v) ==
  LET fresh(f) == Lists(f, v) /\ KlassOf[v] \notin activeK[f] IN
  /\ active' = [f \in Formats |->
                  IF Lists(f, v) THEN [active[f] EXCEPT ![v] = @ + 1]
                                 ELSE active[f]]
  /\ activeK' = [f \in Formats |->
                  IF fresh(f) THEN activeK[f] \cup {KlassOf[v]} ELSE activeK[f]]
  /\ nr' = [f \in Formats |-> IF fresh(f) THEN nr[f] + 1 ELSE nr[f]]

SubscribeTo(w, x) ==
  /\ sub' = [sub EXCEPT ![w] = x]
  /\ filters' = [filters EXCEPT ![w] = {}]
  /\ Answer("result")
  /\ UNCHANGED <<watchers, engine>>

Subscribe(w, v) ==
  /\ MaySubscribe(w)
  /\ sub[w] # v
  /\ Room(v)
  /\ SubscribeTo(w, v)
  /\ Activate(v)
  /\ UNCHANGED keepers

SubscribeAll(w) ==
  /\ MaySubscribe(w)
  /\ keepers[w] < MaxCopies
  /\ SubscribeTo(w, All)
  /\ keepers' = [keepers EXCEPT ![w] = @ + 1]
  /\ UNCHANGED <<activeK, active, nr>>

AddFilters(w, F) ==
  /\ Calls(w)
  /\ sub[w] # None
  /\ filters' = [filters EXCEPT ![w] = F]
  /\ Answer("result")
  /\ UNCHANGED <<watchers, sub, lists, engine>>

(* The handler returns nothing, which handle_cmd reports as a failure.     *)
ClearFilters(w) ==
  /\ Calls(w)
  /\ sub[w] # None
  /\ filters' = [filters EXCEPT ![w] = {}]
  /\ Answer("failure")
  /\ UNCHANGED <<watchers, sub, lists, engine>>

(* As ClearFilters: the order goes out and the sender reads of a failure.  *)
Purge(w) ==
  /\ Calls(w)
  /\ purged' = {k \in watchers : sub[k] = All}
  /\ reply' = "failure" /\ HandlesNone
  /\ UNCHANGED <<subs, lists, engine>>

(* The listing and query commands.                                         *)
Query(w) ==
  /\ Calls(w)
  /\ Answer("result")
  /\ UNCHANGED <<subs, lists, engine>>

(* No id, an unknown command, a missing or wrong argument, reload, a view  *)
(* subscribed to already, filters with no subscription.                    *)
Refuse(w) ==
  /\ Calls(w)
  /\ Answer("failure")
  /\ UNCHANGED <<subs, lists, engine>>

(* json.decode on text that is not JSON, leftovers, a regex filter that    *)
(* does not compile, add_filters without args: the error reaches           *)
(* script_engine::handle_error, which stops the engine and throws.         *)
CommandRaises(w) ==
  /\ Calls(w)
  /\ w \in Faulty
  /\ engine' = "command"
  /\ Answer("none")
  /\ UNCHANGED <<subs, lists>>

(***************************************************************************)
(* The relay of one entry                                                  *)
(***************************************************************************)
HasKeepers == \E w \in Watchers : keepers[w] > 0

\* Slips in grind.lua:133 and 170-178: active views first, every view.
RunsActive(f, v) ==
  IF nr[f] > 0 /\ KlassOf[v] \in activeK[f] THEN active[f][v]
  ELSE IF HasKeepers THEN 1 ELSE 0
RunsEvery(f, v) == 1

(* How often the formatter of v runs on an entry of format f.              *)
Runs(f, v) ==
  CASE HasKeepers -> 1
    [] ~HasKeepers /\ nr[f] > 0 /\ KlassOf[v] \in activeK[f] -> active[f][v]
    [] OTHER -> 0

Relays(w, v, fails) == sub[w] \in {All, v} /\ filters[w] \cap fails = {}

Relayed(hits, fails) ==
  [w \in Watchers |-> [p \in Formats \X Views |->
     IF p \in hits /\ Relays(w, p[2], fails) THEN Runs(p[1], p[2]) ELSE 0]]

(* Whether the relay loop matches entries against format f.                *)
Tried(f) == HasKeepers \/ nr[f] > 0

(* The hits of an entry are the pairs of a format it matches and a view    *)
(* whose klass matches it and whose formatter commits it; bare are the     *)
(* formats without an extractor that it matches; fails are the filters     *)
(* that reject it.                                                         *)
Handle(e, fails) ==
  /\ engine = "up"
  /\ ~ \E f \in e.bare : Tried(f)
  /\ got' = Relayed(e.hits, fails)
  /\ entry' = [of |-> e, fails |-> fails]
  /\ reply' = "none" /\ purged' = {}
  /\ UNCHANGED <<subs, lists, engine>>

(* A format that is tried, matches and has no extractor: the call of nil   *)
(* raises after the formats before it, in no fixed order, were relayed.    *)
HandleRaises(e, fails) ==
  /\ engine = "up"
  /\ \E f \in e.bare : Tried(f)
  /\ engine' = "entry"
  /\ \E done \in SUBSET Formats :
       got' = Relayed({p \in e.hits : p[1] \in done}, fails)
  /\ entry' = [of |-> e, fails |-> fails]
  /\ reply' = "none" /\ purged' = {}
  /\ UNCHANGED <<subs, lists>>

Connection(w) == \/ AddWatcher(w)
                 \/ RemoveIdle(w)
                 \/ RemoveKeeper(w)
                 \/ RemoveViewer(w)

Command(w) == \/ \E v \in Views : Subscribe(w, v)
              \/ SubscribeAll(w)
              \/ \E F \in SUBSET Filters : AddFilters(w, F)
              \/ ClearFilters(w)
              \/ Purge(w)
              \/ Query(w)
              \/ Refuse(w)
              \/ CommandRaises(w)

Next == \/ \E w \in Watchers : Connection(w) \/ Command(w)
        \/ \E e \in Entries, fails \in SUBSET Filters :
             Handle(e, fails) \/ HandleRaises(e, fails)

Spec == Init /\ [][Next]_vars

-----------------------------------------------------------------------------
(***************************************************************************)
(* Properties                                                              *)
(***************************************************************************)
Viewers(v) == {w \in Watchers : sub[w] = v}

ListedViews(f, k) == {v \in Views : KlassOf[v] = k /\ active[f][v] > 0}

(* Each format counts exactly the klasses it lists, and lists a klass      *)
(* exactly while one of its views is active: the count that grind.handle   *)
(* tests (grind.lua:133) is maintained by increments in subscribe          *)
(* (api.lua:153) and decrements in remove_watcher (grind.lua:615).         *)
ActiveAccounting ==
  \A f \in Formats : /\ nr[f] = Cardinality(activeK[f])
                     /\ activeK[f] = {k \in Klasses : ListedViews(f, k) # {}}

(* Every subscription to a view is backed by an occurrence of the view in  *)
(* each format its klass lists, so no departure or switch of one watcher   *)
(* takes the stream of another away (grind.lua:592-626, api.lua:152).      *)
WatchedViewsActive ==
  \A f \in Formats, v \in Views :
    Lists(f, v) => Cardinality(Viewers(v)) <= active[f][v]

(* A watcher subscribed to everything is among the keepers, so that every  *)
(* klass and view is run for it (grind.lua:107 and 170).                   *)
KeepersListed == \A w \in Watchers : sub[w] = All => keepers[w] > 0

(* No order of subscriptions and departures makes remove_watcher look for  *)
(* a klass that is not listed, which would take the process down.          *)
RemovalNeverRaises == engine # "removal"

(* However many watchers share a view, one that is subscribed to           *)
(* everything hears each commit at most once: with a keeper attached the   *)
(* relay loop runs each view once (grind.lua:178), not once per viewer.    *)
KeeperHearsOnce ==
  \A w \in Watchers : sub[w] = All =>
    \A p \in Formats \X Views : got[w][p] <= 1

(* When no watcher subscribes while subscribed: a view is listed once per  *)
(* viewer and a keeper once, so that formats go idle with their viewers.   *)
ActiveExact ==
  \A f \in Formats, v \in Views :
    active[f][v] = IF Lists(f, v) THEN Cardinality(Viewers(v)) ELSE 0
KeepersExact ==
  \A w \in Watchers : keepers[w] = IF sub[w] = All THEN 1 ELSE 0

(* What a watcher is promised (Interest): of every entry handled, it hears *)
(* each commit of its view that its filters pass, for the formats its klass*)
(* lists, and none of another view; only an entry that raises may cut this *)
(* short, and then grind is down (grind.lua:118-257).                      *)
Covered == {p \in Formats \X Views : Lists(p[1], p[2])}

Heard == {r \in Watchers \X (Formats \X Views) : got[r[1]][r[2]] > 0}
Up == engine = "up"

Contract == INSTANCE Interest WITH
  want <- sub, screen <- filters, heard <- Heard, up <- Up, Strict <- FALSE
Promise == Contract!Spec

(* The same, and a watcher hears of a format its klass does not list only  *)
(* while some watcher is subscribed to everything.                         *)
StrictContract == INSTANCE Interest WITH
  want <- sub, screen <- filters, heard <- Heard, up <- Up, Strict <- TRUE
StrictPromise == StrictContract!Spec

(* Expected of the code by its own words, and not so.                      *)

(* "any formatted-entry produced by a view is relayed to all subscribed    *)
(* Watchers" (doc/grind_02.pdf, page 10), and the README's                 *)
(* "Bandwidth-efficient": a watcher is sent a commit once.                 *)
HeardOnce ==
  \A w \in Watchers, p \in Formats \X Views : got[w][p] <= 1
=============================================================================
