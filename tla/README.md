# A TLA+ model of grind

grind collects log text from *feeders*, cuts it into entries, runs the entries
through *formats*, *klasses* and *views* defined in Lua, and relays what the
views commit to *watchers* that subscribed to them. A *Keeper* is a watcher
subscribed to everything. This directory models that core, checks it with TLC on
small instances, and proves its main safety properties with TLAPS for all
instances.

## The system

| Component | State | Operations | Talks to |
|---|---|---|---|
| kernel (`src/src/kernel.cpp`) | `running_`, `connections_`, `feeders_`, the `io_service` and one worker thread | `init`, `start`, `stop`, `cleanup`, accept watchers, register and remove feeders | script engine, feeders, connections |
| feeder (`kernel.cpp`) | acceptor, `connections_`, `conn_mtx_` | `listen`, `accept`, `close`, `stop` | kernel, connections |
| connection (`connection.cpp`) | socket, read buffer, strand, close handler | `start`, `read`, `send`, `stop` | script engine, kernel or feeder (callback) |
| script engine (`script_engine.cpp`) | the Lua state, `mtx_` | `start`, `stop`, `pass_to_lua`, `relay`, `handle_cmd` | Lua |
| Lua core (`scripts/grind.lua`) | groups with leftovers, formats, klasses, views; watchers, keepers, subscriptions | `start`, `handle`, `handle_cmd`, `add_watcher`, `remove_watcher`, the `define_*` functions | kernel (feeders), connections (`send`) |
| Lua API (`scripts/api.lua`) | none of its own | `subscribe`, `add_filters`, `clear_filters`, `purge`, queries | Lua core |
| main (`main.cpp`) | signal mask, start thread | arguments, init, wait for a signal, stop, clean up, join | kernel |
| bindings (`bindings/SWIG`, `swigluaruntime.h`) | a table of types, a metatable per class, userdata with an owner flag | look up, convert, construct, get, set, call, collect, disown | Lua, the C++ objects |
| web watcher (`watchers/ruby`) | `@data`, a streaming JSON parser, a channel per websocket; in the browser `connected` and handler lists | `receive_data`, `object_parsed`, websocket callbacks | grind, the browser |
| Keeper (`keepers/mongo`) | `@data`, the parser, the database | `receive_data`, `object_parsed`, purge | grind |
| loggers (`logger.cpp`, `logger.lua`) | threshold | `log` | everyone |

What is hard here:

* *Concurrency.* The worker runs every handler and calls Lua under a mutex; the
  main thread stops connections, feeders, the `io_service` and Lua at the same
  time, and a third thread is still in `kernel::start`.
* *Order.* A read that has completed is delivered although its connection was
  stopped; `stop` may run twice; scripts are loaded in directory order.
* *Redundant state.* Who watches what is recorded in `grind.subscriptions`, in
  `grind.keepers` and in the active views of every format, with a count; three
  functions in two files maintain it.
* *Lifetime.* A connection lives while a `shared_ptr` holds it; its handlers and
  Lua hold raw pointers. Some objects belong to C++, some to Lua's collector.
* *Counting.* `pass_to_lua`, its extractors and `handle_error` push and pop the
  Lua stack by count, on paths that differ in what they push.
* *Framing.* Text, commands and JSON objects cross TCP without a frame.

What makes each component correct: the registry's records agree and a watcher
hears exactly what it asked for; cutting does not depend on where reads end; a
signal ends the process and no thread uses what another has destroyed; a closed
connection is forgotten by everyone and destroyed, and what is sent to it before
goes out in order; each object is destroyed by its owner, once; a call into Lua
leaves the stack as it was; what is up is what the scripts define; clients pass
on what was sent.

## Modules

| Module | Models | Run with |
|---|---|---|
| `Interest` | abstract: what a watcher is promised of each entry handled, given what it wants and filters | (refined by `Registry`) |
| `Registry` | the Lua core and API: subscriptions, keepers, active views, relay | `MCRegistry` |
| `RegistryProofs` | theorems about `Registry` | tlapm |
| `Splitter` | how `grind.handle` cuts text into entries | `MCSplitter` |
| `SplitterProofs` | theorems about `Splitter` | tlapm |
| `Induction` | lemmas: induction over sets of numbers, recursive functions, increasing sequences | tlapm |
| `Connections` | the `io_service`, its strands, watcher and feeder connections, both `stop`s | itself |
| `ConnectionsProofs` | theorems about `Connections` | tlapm |
| `Boot` | the command line, the search for the configuration, `pass_to_lua` and the Lua stack, both loggers' thresholds | itself |
| `BootProofs` | theorems about `Boot` | tlapm |
| `Binding` | the SWIG module: types, userdata, wrappers, the collector | itself |
| `BindingProofs` | theorems about `Binding` | tlapm |
| `Lifecycle` | the threads of a process from `init` to exit | itself |
| `Startup` | configuration, entity scripts, `define_*`, feeder registration and removal | `MCStartup` |
| `StartupProofs` | theorems about `Startup` | tlapm |
| `Bridge` | the Ruby receivers: web watcher and Keeper | `MCBridge` |
| `PeersProofs` | theorems about `Lifecycle` and `Bridge` | tlapm |

### Registry

One action is one call of the kernel into Lua, which is atomic under `mtx_` of
the script engine. `watchers`, `sub`, `filters`, `keepers`, `activeK`, `active`
and `nr` are the Lua tables (lists as multisets: the code only ever inserts,
removes one occurrence, iterates and tests for emptiness); `engine` records that
an error has taken the process down; `reply`, `purged` and `got` are what the
last call sent, and `entry` is the entry it handled. `remove_watcher` is three
actions, by the kind of subscription. An entry is the set of (format, view) pairs
that commit it, the formats without an extractor that it matches, and the set of
filters that reject it: matchers, extractors and formatters are user code. A
formatter that aggregates entries in a context is therefore abstracted to one
whose commits do not depend on how often it ran. A format without an extractor
(`Bare`) makes the relay raise once an entry that matches it is tried, after some
of the other formats were relayed (`HandleRaises`).

`Interest` is the contract. Its `entry` is the one `Registry` handled, so a step
that handles an entry has to be a `Deliver` of that entry, with its commits and
filters: everyone who wants a commit and does not filter it hears it. `Quiet` and
the other steps handle none, and nobody hears anything; an entry that raises may
be cut short, and grind is down then (`Break`). A relay that drops a commit, or
ignores a filter, is not a step of `Interest`.

`Late` names watchers for which the kernel still delivers a read, or a second
`stop`, after removal; `Switchers` those that subscribe while subscribed;
`Faulty` those whose command makes a handler raise. They are constants because
different promises hold with and without them.

### Splitter

A byte is a record of feed, message and offset, so that a damaged, repeated or
spliced entry is visible. `Consumed` and `LuaSub` keep the code's arithmetic:
the distance from the first to the last signature, and a substring that starts
*at* that byte. Signatures longer than one byte are assumed (`SigAssumption`).

### Lifecycle

`pcM`, `pcS` and `pcW` are the program counters of `main`, `kernel::start` and
`kernel::work`. A step ends where another thread can observe or disturb it: at a
lock, at `running_`, at the `io_service`, between `grind.stop` and `lua_close`,
between a read and the use of the feeder. One watcher and one feeder connection
stand for all; `queued` are the `do_send`s that wait on its strand and `ready` those
of the turn under way. A turn is one handler of the `io_service`: it runs them
one after the other, also after `io_service::stop`, and each that fails, as all do
on a socket `main` has shut, calls `connection::stop` and so Lua (`DoSendFails`).
What C++ leaves undefined (a closed Lua state, a deleted feeder)
is a choice between going on and going down.

### Connections

One action is one handler run by the worker, one step of `kernel::stop` on the
main thread, or something a peer does. `io` is the queue of the `io_service` with
its two strands' own lists: a strand queues itself once and runs what was ready,
what is posted meanwhile waits for its next turn, as Boost's does. `Held` says
whether a `shared_ptr` holds a connection: `kernel::connections_`
(`listed`), `new_watcher_connection_` (`next`), the feeder's (`flisted`,
`fnext`), or a `close` handler that was posted with one. All other handlers of
`connection.cpp` are bound to a raw `this`; one that runs on a connection nobody
holds is undefined: `wild` records the connection, and the process goes on or
aborts. `Stop` is `connection::stop` with the Lua call `remove_watcher`, which
asks every registered watcher for its name; `StopIO` is its socket and close
handler. A watcher's slot in `next` is taken by a fresh connection while there
is one; a slot left empty is a watcher that never comes. A peer that leaves makes
writes fail; a write after `stop` fails too, and, as sockets are non-blocking, any
write may. The accept of a watcher is three steps, because `kernel::stop` takes no
lock: `OnWatcherAccepted` lists the connection, `AddWatcher` tells Lua and
`StartReads` reads and accepts the next; main's loop may find and stop the
connection in between. The bytes of a read are
`Registry`'s and `Splitter`'s: here a read is a command, which may subscribe, be
answered and purge, or log text, which is relayed to some subscribers.

This justifies `Late` of `Registry`: a read that completed before `stop` is
delivered after it (`OnCommand` with `c \in shut`), and `stop` may run twice
(`OnReadFails` after `DoSendFails`).

### Boot

`argv` is a sequence of options and operands; each `Parse...` action is a turn of
the loop in `main`. `Found` is the search for a configuration; `ConfigRuns`
draws what the configuration is from `Confs`: whether it loaded the arbitrator
and the module, set all, some or none of the kernel's options, which level it
names, and how many values it left on the stack. A call into Lua is the actions
of `Pass`: the error printer and the arbitrator are pushed, then the name and
the arguments, then `lua_pcall` replaces them by results or by an error, and the
extractor and `pass_to_lua` pop what is left, or `HandleError` does. A stack is a
sequence of kinds of values. `threshold` is the C++ logger's level; Lua's is the
one of the configuration.

### Binding

`objs` are the C++ objects with who made them, `data` the userdata with type,
pointer, owner flag and metatable. `Require` is the loading of the module,
`PushUserdata` what `script_engine` pushes, `Constructs`, `ClassGet`,
`ClassSet`, `Calls` and `Disown` what a script may do through the wrappers, with
each wrapper's argument checks (`Fits`, `ConvertPtr`) and null pointers
(`Applies`), `Collect` and `Close` the collector. A configuration is part of its
kernel, so a pointer to it dangles when the kernel ends. `MangledTypeQuery` is the binary
search in halves, with the order of mangled names as the order of the table.

### Startup

The configuration names the directories (`paths`, one of `Layouts`). They are
walked one after the other (`at`, `found`), and a script is run each time a walk
finds it, as `load_script` clears `package.loaded` first: directories may overlap. A script is
a sequence of calls; each call is an action that requires what the function
asserts, and `ScriptRaises` is the failed assertion. Redefinition has
the code's effects: a group stays, a format loses its extractor, a klass its
views. `AcceptFails` and `RemoveFeeder` are `feeder::on_accept` with an error and
the posted `do_remove_feeder`. `StopAndCleanup` is the end of a kernel that came
online; `CleanupEarly` the cleanup of one that had not when the signal came, whose
worker then finds its accepts aborted and the feeders deleted. `Topology` is what `Registry` assumes of its
constants (`TopologyAssumption`).

### Bridge

`Receive` is `receive_data` with `object_parsed`. The parser is the library's: it
takes one byte after the other and never recovers from one that does not
continue the object at hand. `split` is a history variable: where a read first
completed no object.

## Runs

Passing runs:

| Run | Shows |
|---|---|
| `registry` | `ActiveAccounting`, `WatchedViewsActive`, `RemovalNeverRaises`, `KeeperHearsOnce`: the records agree in every order of subscribing, switching, leaving and late calls. `Promise`: `Registry` implements `Interest` (refinement): of every entry handled, each commit of the own view that the filters pass, none of another |
| `exact` | without switching: `ActiveExact` and `KeepersExact`, the lists hold each viewer and keeper once; `StrictPromise`, a viewer hears from formats its klass does not list only while a keeper is attached |
| `splitter` | `ChunkingInvisible`, chunk by chunk gives the same entries as all at once; `InOrder`; `LeftoversAreTail`, what waits is the tail of what arrived; `StaleBounded`, the stale bytes stay bounded |
| `lifecycle` | `SignalStops`, a signal to an online kernel ends the process (liveness); `CleanExit`; `LateCallsOfOneHandler`, whatever is called in Lua after `grind.stop` is called by the handler that was under way |
| `startup` | `Topology`, tables that are indexed without a test are closed; `Fed`, one feeder per group and port; `RemovesRegistered`; `LayeredStarts` and `LoadedExactly`, scripts layered over the directories of `entity_paths`, overlapping or not, never raise, and what is up is what they define, as far as the order of the scripts is certain |
| `bridge` | `InSequence`, what is passed on is a prefix of what was sent; `PassedOnUntilSplit`, complete up to the first read that completes no object; `SincePurge`, the archive is what followed the last purge |
| `connections` | `Accounted`, the two ways a handler can run on a destroyed connection; `LuaPointersLive`, Lua keeps pointers to live connections, but for a watcher that subscribes after its `stop`; `WrittenInOrder`; `AllDisconnected`, `kernel::stop` tells Lua of every watcher that had been added when it began, unless its loop loses its place; `Reclaimed` (liveness), what was stopped is destroyed |
| `boot` | `Parsed`, what main takes from any mix of options and operands; `LoggersAgree`, both loggers print the same but for crit and alert; `StackBalanced`, the Lua stack between calls and at each invocation |
| `binding` | `TypesAgree`, no wrapper gets an object of another class; `DestroyedByOwner`, the collector frees what scripts made and have not disowned, once, and nothing else; `UsesAccounted`, the two ways to reach an object that has ended |

Runs that show a disagreement between the code and its own words (details in
`PROJECT.json`, `findings`):

| Run | What happens |
|---|---|
| `heard_once` | two viewers of a view each get every commit twice |
| `replay` | the off-by-one in the leftovers hands an entry over again |
| `early_signal` | a signal before the kernel is online is lost and `main` waits forever |

Behaviours the models have and that a reader of the code may not expect, without
a run of their own: a view left by subscribing elsewhere stays active for good,
and a keeper that does so stays a keeper even after it left (hence `exact` has no
switchers); `clear_filters` and `purge` work and are answered with a failure; two
feeds of a group share the leftovers, so bytes of both can end up in one entry
(hence `ChunkingInvisible` is about the merged text); `cleanup` deletes feeders
that the worker may be about to ask for a label (`UseFeeder`); with all scripts
below one directory, whether grind starts depends on the order the directory
lists them in (hence `Layered`); Lua may be closed while the worker is in a call
(`CloseLua` of `Lifecycle`, against "thread-safe" at `script_engine.hpp:85`); a
read that ends within its first object silences a Ruby client (`Receive`); a klass
script that lies below a second directory, after those of its views, is run again
and drops them (`DefineKlass`).

From `Connections`: a watcher whose accept handler is between `push_back` and
`add_watcher` when `kernel::stop` runs its loop is removed from Lua first and added
after (`AddWatcher`), so that it stays in `grind.watchers` and the text of
`AllDisconnected` excepts it; without the exception TLC shows this in ten states.
`kernel::stop` may lose its place in `connections_` while
`do_close` erases from it (`LosePlace`); a watcher that has left before it is
started throws from `remote_endpoint` and takes the process down
(`WatcherAcceptThrows`); a watcher that subscribes in a read delivered after its
`stop` stays in `grind.subscriptions` with a dangling pointer.

From `Boot`: the tests for a missing operand in `main.cpp` are never true, so the
operand of a last option is the null pointer; `-l` is overridden by the
configuration's level, and a lower-case letter after `-l` silences the C++ logger
until then; a level that is unset silences the Lua logger, a misspelt one also, or
only it ("Warn"); a `grind.start` that refuses leaves Lua open; an error in the
configuration pops one value more than there is; a configuration that does
not require `lua_grind` ends the process at the first userdata pushed.

From `Binding`: a method called on nil, a nil log level or a nil string is
followed as a null pointer; assigning an unknown attribute is passed over in
silence (`lua_grind_wrap.cxx:1217`); `cfg` of a kernel that a script made dangles
when that kernel is collected.

### Bounds

* Registry: two or three watchers, three views in two klasses over three formats,
  one filter. Two watchers give every pair of roles (viewer/viewer of one view,
  of one klass, of two klasses; viewer/keeper; keeper/keeper). `MaxCopies` = 2
  (3 with three watchers) bounds how often a view or a keeper is listed: a second
  occurrence that nobody owns is the interesting case, a third adds none. In
  `registry` one watcher is late, the other switches and is faulty, and a third
  format has no extractor.
* Splitter: two feeds, with seven messages of 1 to 3 bytes and one message, and
  reads of up to 6 bytes: the stale bytes need several reads to reach back over a
  whole message (`replay` shows that they do with the first feed alone).
* Lifecycle: `MaxEvents` = 6 handlers: accept two connections, a command or an
  entry that sends, a turn of the strand, an end and a close, with the stop between any
  two; `MaxSends` = 3 sends, so that one turn can make several late calls. Four
  handlers and one send are enough for the early signal.
* Connections: two watchers and one feeder connection, two reads, of which at most one
  before a stop, two sends to each watcher. Two watchers give the loop of
  `kernel::stop` a node to lose, one purge a second registered pointer to
  follow, and two sends an order. Only `stop` after one read is explored, but all
  orders of its steps with the handlers. A stop may begin at any such moment.
* Boot: three arguments (an option, its operand, and one more, that is each
  adjacency of options and operands); no bound on the calls into Lua, whose states repeat.
* Binding: four objects, of which two are main's kernel and its configuration,
  and three userdata: two pointers to one object and one to another.
* Startup: two groups, thirteen scripts in eight layouts, three of them overlapping; Bridge: nine objects, reads of up to 7.

Deadlock checking is off where the system may stop: a process that has exited,
an engine that is down, a stream that is used up.

### Fairness

`FairSpec` of `Lifecycle` has weak fairness for each of the three threads (the
operating system schedules a thread that can run; a mutex that is free is
taken), and none for signals, connections or traffic, which need never come.
`FairSpec` of `Connections` has weak fairness for the worker alone, which runs the
next handler while there is one; peers and the signal need never act, and the main
thread may stop for good within `kernel::stop`.

## Proofs

`RegistryProofs` proves, for every value of the constants that meets the named
assumptions (finitely many watchers and klasses; klasses and formats related as
`Startup` guarantees): type correctness, `ActiveAccounting`,
`WatchedViewsActive`, `RemovalNeverRaises`, `KeepersListed` with
`KeeperHearsOnce`, the refinement `Promise`, and, when there are no switchers,
the exact lists. The inductive invariant `IInv` adds to these that a view is
listed only in formats its klass lists. The heart is `WatchedViewsActive` as an
inequality of cardinalities: switching leaves occurrences behind, so the exact
count is not invariant, but "at least one occurrence per viewer" is, and it is
what makes removal safe (the klass is listed) and the promise hold (the view
runs). The refinement maps `sub` to `want`, `filters` to `screen` and the commits
sent to `heard`; `entry` is the same variable in both, so that relaying an entry is
shown to be `Deliver` of that entry, or `Break` if it raises, and each other action
a step without one. Without
switchers the inequality becomes an equation, and with it `ActiveExact`,
`KeepersExact` and `StrictPromise` hold: a format that runs a view its klass does
not list does so for a keeper.

`StartupProofs` proves, for all scripts, directories and groups, what `Registry`
assumes of its constants (`Topology`: a loaded name is a defined name, each
`define_*` only adds to what the others index), one feeder per group and port
(`Fed`, `RemovesRegistered`, from the invariant `Feeding`: who accepts or waits
to be removed is registered, and ports are distinct), and that layered scripts
never raise and what is up then is what they define (`LayeredStarts`,
`LoadedExactly`). The last two need `Progress`, which relates the tables to the
calls made so far: the directories walked, the files found in this one and the
part of the current script that has run. A call that needs a definition finds it
in an earlier directory. `LoadedExactly` is exact for groups, formats and klasses.
A klass or format that is defined again starts afresh, so of extractors and
views it has two bounds: what is certain to follow the last such definition is
up (`Kept`), what is certain to be followed by one is not (`Lost`). They meet unless a
definition and what it renews stand in different scripts of one directory, whose
order the file system decides.

`SplitterProofs` proves all five properties of `Splitter` for any feeds, messages
and reads. The invariant `Cut` says that the leftovers are a tail of what arrived
that begins before its last signature (`Short`), and that the entries handed over
are a route through the entries of the whole (`HandsOver`): each is at most one
further than the one before, starting at the first, and the farthest so far is
the last that is complete. The lemmas compare the signatures of a text with those of
its tails: dropping a prefix drops the signatures that start in it, appending
text keeps the earlier ones, and so the entries of the leftovers and the new text are a
stretch of the entries of the whole that starts no later than where the last
call ended. `StaleBounded` then follows, because
what a call leaves is shorter than the text by the distance of its signatures.
`Signatures` is defined by recursion over the text; `Induction` shows that such functions
exist and unfold, from the well-foundedness of the subsets of a finite set.

`PeersProofs` is about the process and its peers. Of `Lifecycle` it proves types
with lock ownership, `LateCallsOfOneHandler` and `CleanExit` for any number of handlers
and sends. The invariant `Stages` says how far the threads can be apart: `kernel::stop` runs
once, on a kernel that came online; the worker is gone only after the
`io_service` was stopped.

Of `Bridge` it proves all four invariants of the run, `BridgeTypeOK`,
`InSequence`, `PassedOnUntilSplit` and `SincePurge`, for any number of objects,
sizes, kinds and reads. `InSequence` is not inductive: that the next
object comes in its place depends on what the parser and `@data` hold. The
invariant says which of three things is so. Every read so far completed an
object, and the parser stands in the stream where the reads ended (`Fresh`); or
one did not, and `@data` begins with bytes the parser has had (`Held`), which the
next read feeds it again; or that happened, and the parser completes nothing any
more (`Lost`). That a byte fed again never continues the object is about the
offsets of the bytes, which grow within an object (`FeedNext`, `FeedStuck`,
`OffsetsGrow`). `Archived` says that the archive is what was passed on, without
commands, from the last purge on. A read and what it passes on are folds;
`Induction` and the lemmas `FoldRuns`, `FeedFolds` and `KeepFolds` say what they
are after each element, `StreamIs` and `StreamBytes` what the flattened stream is.
The names of `Bridge`'s specification begin with `Bridge` so that one module can
extend both.

`BootProofs` proves for any number of arguments and any arguments of the calls:
`LoggersAgree`, from `Levelled` (once online, the threshold is the one the
configuration names) and a comparison of the two orders by rank; and
`StackBalanced`. Its invariant `StackInv` says what is on the stack at each step
of `pass_to_lua` (`Shape`), that nothing has been run before the configuration
(`Fresh`) and that a call is under way only while Lua is open (`Engaged`); the
shapes are concatenations, and popping what was pushed last is one lemma
(`PopPushed`). `Parsed` compares the walk of `main`, which skips an operand, with
`Option`, which says of every argument by recursion whether it is an operand.
`Induction` gives the recursion its value (`OptionIs`). The invariant `Reading`
says that the walk stands on an option or behind the last argument, and that the
path and the level it keeps follow the last `-c` and the last `-l` before it.

`BindingProofs` proves all three properties of `Binding` for any number of
objects and userdata. For `DestroyedByOwner`, the invariant `Good` says that a
userdata with the flag points to an object a
script made and has a metatable, hence a destructor (`Owners`), that no object
has two such (`Sole`), and that an object was freed as often as userdata that
owned it were collected (`Counted`); `Classified`, that a class is registered
only with its type, gives a constructor's result its metatable. The lemmas are
about the lists of objects and userdata alone, one for each way they change.

`TypesAgree` and `UsesAccounted` need more (`BindInv`). The table of types is
empty, and then no userdata is left, or it is the one `lua_grind` brings
(`Tables`). A kernel is followed by its configuration and a configuration that is
a part names its kernel (`Kernels`, `Parts`), so that `cfg` gets what it is
declared to get. C++ makes all connections and ends nothing else (`Enders`).
Every userdata, collected or not, has the type of its object (`Typed`), and what
a script made by itself has one userdata (`Single`), so that it cannot be freed
while Lua still holds it. That a userdata pushed by C++ gets the right type is
about the look-up by a readable name: the search by halves finds nothing,
because no mangled name is equal to it and it is behind all of them (`NotMangled`),
and then exactly one type has the name (`Pushed`). The search is recursive: the
function that is 0 everywhere satisfies its equation, so that the one chosen
satisfies it too.

`ConnectionsProofs` proves all five safety properties of `Connections` for any
finite sets of watchers and feeder connections and any bounds. The invariant
`Inv` has four parts. `Types` includes the `Shape` of the `io_service`: a strand is locked exactly when its turn is in the queue, once, and
then has something to do. `Known` says who knows a watcher: Lua registers only
what is listed and not stopped, a listed watcher that was stopped has a close
posted, and one that was neither started nor stopped occurs nowhere (a slot
that is handed out is really fresh). `Feeding` says that at most one accept of the
feeder is queued, and none after it was refused; without it a second
`do_remove_feeder` or an accept on a deleted feeder could not be excluded.
`Beginning` says that at most one connection is in the accept handler, and that it is
listed, and until the stop still open; while it is, the worker runs nothing else.
`LuaPointersLive` follows from `Known`. `WrittenInOrder` needs `Sending` besides:
of a watcher that is open, what was written, what is ready and what waits in the
strand are one sequence of numbers. `AllDisconnected` needs `Walking`: what
`kernel::stop` found listed and added and is still registered lies in the list at or
behind the node the loop stands on, whatever `do_close` erases and the accept handler
appends meanwhile.

`Accounted`, that a handler runs on a destroyed connection in two cases only, needs to
know in which order the queue holds what is left of a watcher (`Leaving`, by `Leaves`).
Once its close is the next thing the kernel's strand will do, its reads come before that
turn of the strand: `stop` cancels the socket before it calls the close handler. Its
sends come before it too, or there is another close for after them, or a read is still
queued that will fail and post one: a failed write calls `stop` from within the
watcher's own strand, whose next turn goes to the end of the queue, behind the first
close. A watcher that is open always has a read under way or queued, or is in the accept
handler that will read (`Awaited`), so that
the failed write does find one of the two. A command read after `stop` breaks this,
because it is answered; these watchers are in `late`. `FeedReads` says the simpler fact
for feeder connections, that one which is no longer held has no read left. `Kept`
collects what no other handler changes about a watcher's place in the queue, with a
lemma for each way the queue changes.

The lemmas of `ConnectionsProofs` are about the operators: what posting, running a turn and
cancelling do to the queue (`Posts`, `Runs`, `Grows`), what a sequence of sends
posts (by `Induction`), and a list from a node on (`From`). That the connections
are finitely many is assumed because their sets are turned into sequences.

Every invariant and action property of the passing runs is proved. Only
model-checked: liveness (`SignalStops`, `Reclaimed`), which the provers cannot do.

## Not modelled

* The browser client and the page scripts: presentation, but for the handlers of
  `grind.js`, which are planned. The Sinatra pages and the Keeper's query API only read.
* View contexts and formatters: user code. What `Registry` says of commits holds
  for formatters that do not depend on how often they run.
* Conversions at the Lua boundary: `lua_pushfstring` takes text as a format, so the
  models are about text without percent signs or NUL. Layout of log lines.
* Of the bindings: packed objects, base classes, constants and variables, of which
  `lua_grind` has none, and `swig_type`, `swig_equals` and `__tostring`, which
  change nothing. Writing the terminator one past the buffer
  (`connection.cpp:117`) has no effect on any state here.
* `script_engine::restart`, which has no caller; `utility.hpp` and `exception.hpp`,
  which keep no state; StackTracePlus and the bundled JavaScript libraries, which
  are not the project's code; the kyoto keeper and the ncurses watcher, which are stubs.

## Plan

Done: the registry and its contract, the splitter, the life cycle, start-up, the
Ruby receivers, connections, the boot sequence and the bindings. Left:

1. `Client`: the page's `connected`, its handler lists and websockets, and the
   bridge's channel for each; a second `connect` while the first is under way.
2. `Contexts`: views that aggregate entries, with several viewers and a keeper.
