---------------------------- MODULE Connections -----------------------------
(***************************************************************************)
(* The connections of watchers and of one feeder, as the handlers of the   *)
(* io_service see them: what is queued, what holds a connection object     *)
(* alive, and what Lua still knows of it.                                  *)
(*                                                                         *)
(* One action is one handler run by the worker, one step of kernel::stop   *)
(* on the main thread, or something a peer does.  The accept of a watcher  *)
(* is the one handler of three steps: it lists the connection, tells Lua   *)
(* and reads, and main, which takes no lock, may run its loop in between.  *)
(* A connection lives as long as a shared_ptr holds it (Held); the         *)
(* handlers of connection.cpp are bound to a raw pointer, so one may run   *)
(* on an object that is gone.  What it does then is undefined: it goes     *)
(* unnoticed or takes the process down, and `wild' records it.             *)
(***************************************************************************)
EXTENDS Naturals, Sequences, SequencesExt, FiniteSets

CONSTANTS
  Watchers, Feeds,       \* the connections that may be made, of both kinds
  MaxReads,              \* bound on the reads peers complete
  StopReads,             \* and on those before kernel::stop
  MaxSends               \* bound on what is sent to one watcher

Conns == Watchers \cup Feeds
None == "none"
Kernel == "kernel"       \* the kernel's strand; the others are the watchers'

ASSUME ConnsAssumption ==
  /\ IsFiniteSet(Conns)
  /\ Watchers \cap Feeds = {} /\ {None, Kernel} \cap Conns = {}
  /\ {MaxReads, StopReads, MaxSends} \subseteq Nat

VARIABLES
  io,                    \* the handlers: the queue, and each strand's own two
  reading,               \* connections with an async_read_some under way
  shut,                  \* connections that stop() has shut down
  gone,                  \* watchers that have left
  listed,                \* kernel::connections_
  next,                  \* kernel::new_watcher_connection_, until it is listed
  starting, started,     \* the one on_watcher_accepted is at add_watcher, or
                         \* at read(), with
  flisted, fnext,        \* connections_ and conn_ of the feeder
  feeder,                \* "up", "refused" an accept, "deleted"
  registered,            \* grind.watchers: a userdata per watcher
  subscribed,            \* the watchers in grind.subscriptions
  pcM, node,             \* where kernel::stop is, and the node its loop is at
  proc,                  \* "alive" or "aborted"
  wild,                  \* connections used after they were destroyed
  lost,                  \* the loop of kernel::stop stands on an erased node
  late,                  \* watchers read from after they were stopped
  known,                 \* watchers listed, and added, when kernel::stop began
  reads, posted, written \* reads so far; what was sent and what was written

lua == <<registered, subscribed>>
owners == <<listed, next, starting, started, flisted, fnext, feeder>>
main == <<pcM, node, known, lost>>
traffic == <<posted, written>>
vars == <<io, reading, shut, gone, owners, lua, main, proc, wild, late, reads,
          traffic>>

(***************************************************************************)
(* The io_service.  A strand queues itself once, for the handlers that are *)
(* ready; what is posted meanwhile waits for its next turn.                *)
(***************************************************************************)
Enqueue(q, h) == [q EXCEPT !.queue = Append(@, h)]

Post(q, s, h) ==
  IF q.strand[s].locked
  THEN [q EXCEPT !.strand[s].waiting = Append(@, h)]
  ELSE Enqueue([q EXCEPT !.strand[s] = [locked |-> TRUE, ready |-> <<h>>,
                                        waiting |-> <<>>]],
               [h |-> "strand", s |-> s])

\* The handler at the head of the queue has run.
Popped(q) == [q EXCEPT !.queue = Tail(@)]

\* The first ready handler of the strand at the head of the queue has run.
Finished(q, s) ==
  LET rest == Tail(q.strand[s].ready)
      waiting == q.strand[s].waiting
      turn == [locked |-> waiting # <<>>, ready |-> waiting, waiting |-> <<>>]
  IN  CASE rest # <<>> -> [q EXCEPT !.strand[s].ready = rest]
        [] rest = <<>> /\ waiting = <<>> ->
             Popped([q EXCEPT !.strand[s] = turn])
        [] rest = <<>> /\ waiting # <<>> ->
             Enqueue(Popped([q EXCEPT !.strand[s] = turn]), Head(q.queue))

HeadIs(kind) ==
  /\ proc = "alive" /\ pcM # "down" /\ {starting, started} = {None}
  /\ io.queue # <<>> /\ Head(io.queue).h = kind

StrandIs(s, kind) ==
  /\ HeadIs("strand") /\ Head(io.queue).s = s
  /\ Head(io.strand[s].ready).h = kind

(***************************************************************************)
(* The objects.                                                            *)
(***************************************************************************)
Closing(c) ==
  \E q \in {io.strand[Kernel].ready, io.strand[Kernel].waiting} :
    \E i \in DOMAIN q : q[i] = [h |-> "close", c |-> c]

\* A shared_ptr holds the connection.
Held(c) == \/ c \in ToSet(listed) \cup flisted \cup {next, fnext}
           \/ Closing(c)

\* A call on the members of S: those that are gone are noted, and if there
\* are any the outcome is open.
Uses(S) ==
  LET freed == {c \in S : ~Held(c)}
  IN  /\ wild' = wild \cup freed
      /\ proc' \in IF freed = {} THEN {"alive"} ELSE {"alive", "aborted"}

\* A handler whose own object is gone has no effect that can be told.
UsesFreed(c, q) ==
  /\ ~Held(c)
  /\ Uses({c})
  /\ io' = q
  /\ UNCHANGED <<reading, shut, gone, owners, lua, main, late, reads, traffic>>

\* A connection that has not been used yet, or none if all have.
Fresh(S, used) == IF S \subseteq used THEN None ELSE CHOOSE c \in S \ used : TRUE

Init ==
  /\ io = [queue |-> <<>>,
           strand |-> [s \in Watchers \cup {Kernel} |->
                        [locked |-> FALSE, ready |-> <<>>, waiting |-> <<>>]]]
  /\ reading = {} /\ shut = {} /\ gone = {}
  /\ listed = <<>> /\ flisted = {} /\ feeder = "up"
  /\ next = Fresh(Watchers, {}) /\ fnext = Fresh(Feeds, {})
  /\ starting = None /\ started = None
  /\ registered = {} /\ subscribed = {}
  /\ pcM = "up" /\ node = None /\ known = {} /\ lost = FALSE
  /\ proc = "alive" /\ wild = {} /\ late = {} /\ reads = 0
  /\ posted = [c \in Watchers |-> 0] /\ written = [c \in Watchers |-> <<>>]

Used == ToSet(listed) \cup {next} \cup flisted \cup {fnext} \cup reading
        \cup shut \cup gone

(***************************************************************************)
(* What peers do.                                                          *)
(***************************************************************************)
Accepting == \A i \in DOMAIN io.queue : io.queue[i].h # "accept"
FeederAccepting == \A i \in DOMAIN io.queue : io.queue[i].h # "on_accept"

\* (What peers do while kernel::stop runs is taken to come before it.)
Peer(q) ==
  /\ proc = "alive" /\ pcM = "up"
  /\ io' = q
  /\ UNCHANGED <<shut, owners, lua, main, proc, wild, late, traffic>>

(* A watcher's accept completes, or a feeder's, well or with an error.     *)
Connects ==
  /\ next # None /\ Accepting
  /\ Peer(Enqueue(io, [h |-> "accept"]))
  /\ UNCHANGED <<reading, gone, reads>>

FeederConnects(ok) ==
  /\ feeder = "up" /\ fnext # None /\ FeederAccepting
  /\ Peer(Enqueue(io, [h |-> "on_accept", ok |-> ok]))
  /\ UNCHANGED <<reading, gone, reads>>

(* A read completes with data.                                             *)
PeerWrites(c) ==
  /\ c \in reading /\ reads < MaxReads
  /\ Peer(Enqueue(io, [h |-> "read", c |-> c, ok |-> TRUE]))
  /\ reading' = reading \ {c}
  /\ reads' = reads + 1
  /\ UNCHANGED gone

(* A watcher leaves: a later write may fail, and once what it had written  *)
(* is read, a read ends.  (Nothing is written to a feed.)                  *)
PeerLeaves(c) ==
  /\ c \in ToSet(listed) \ gone
  /\ Peer(io)
  /\ gone' = gone \cup {c}
  /\ UNCHANGED <<reading, reads>>

ReadEnds(c) ==
  /\ c \in reading \cap (gone \cup Feeds)
  /\ Peer(Enqueue(io, [h |-> "read", c |-> c, ok |-> FALSE]))
  /\ reading' = reading \ {c}
  /\ UNCHANGED <<gone, reads>>

(***************************************************************************)
(* connection::stop and connection::send.                                  *)
(***************************************************************************)
\* Cancelling or destroying the connections S ends their reads.
Aborted(q, S) ==
  LET ended == SetToSeq(S \cap reading)
  IN  [q EXCEPT !.queue = @ \o [k \in DOMAIN ended |->
                                  [h |-> "read", c |-> ended[k], ok |-> FALSE]]]

\* Mutant: the close is posted before the socket is cancelled.
StopIOClosesFirst(q, c) ==
  IF c \in Watchers THEN Aborted(Post(q, Kernel, [h |-> "close", c |-> c]), {c})
                    ELSE Aborted(q, {c})

\* Mutant: no close handler was assigned.
StopIONoClose(q, c) == Aborted(q, {c})

\* The socket is cancelled and shut down, the close handler called:
\* kernel::close posts, feeder::close removes at once.
StopIO(q, c) ==
  IF c \in Watchers THEN Post(Aborted(q, {c}), Kernel, [h |-> "close", c |-> c])
                    ELSE Aborted(q, {c})

\* Mutant: the socket is shut down without cancelling what is under way.
StopUncancelled(c) ==
  /\ Uses(IF c \in Watchers THEN registered \cup {c} ELSE {c})
  /\ shut' = shut \cup {c}
  /\ registered' = registered \ {c}
  /\ subscribed' = subscribed \ {c}
  /\ flisted' = flisted \ {c}
  /\ UNCHANGED <<reading, gone, listed, next, starting, started, fnext, feeder,
                 late, reads, traffic>>

\* Mutant: Lua is not told.
StopUntold(c) ==
  /\ Uses({c})
  /\ reading' = reading \ {c}
  /\ shut' = shut \cup {c}
  /\ flisted' = flisted \ {c}
  /\ UNCHANGED <<lua, gone, listed, next, starting, started, fnext, feeder, late,
                 reads, traffic>>

\* grind.remove_watcher asks every registered watcher for its name.
Stop(c) ==
  /\ Uses(IF c \in Watchers THEN registered \cup {c} ELSE {c})
  /\ reading' = reading \ {c}
  /\ shut' = shut \cup {c}
  /\ registered' = registered \ {c}
  /\ subscribed' = subscribed \ {c}
  /\ flisted' = flisted \ {c}
  /\ UNCHANGED <<gone, listed, next, starting, started, fnext, feeder, late,
                 reads, traffic>>

Send(acc, w) == [q |-> Post(acc.q, w, [h |-> "send", n |-> acc.n[w] + 1]),
                 n |-> [acc.n EXCEPT ![w] = @ + 1]]

\* Lua calls send on each of ws in turn; on one that is gone it is undefined.
Sends(ws, q) ==
  LET acc[i \in 0..Len(ws)] ==
        IF i = 0 THEN [q |-> q, n |-> posted]
        ELSE IF Held(ws[i]) THEN Send(acc[i - 1], ws[i]) ELSE acc[i - 1]
  IN acc[Len(ws)]

\* read(): on a socket that is shut down it ends at once.
ReadsOn(c, q) == IF c \in shut
                 THEN Enqueue(q, [h |-> "read", c |-> c, ok |-> FALSE]) ELSE q

(***************************************************************************)
(* Handlers run by the worker.                                             *)
(***************************************************************************)
(* push_back: the connection is the list's from here on, whether or not    *)
(* main has reset new_watcher_connection_ meanwhile.                       *)
OnWatcherAccepted ==
  /\ HeadIs("accept") /\ next # None
  /\ listed' = Append(listed, next)
  /\ starting' = next
  /\ next' = None
  /\ io' = Popped(io)
  /\ UNCHANGED <<reading, shut, gone, started, flisted, fnext, feeder, lua, main,
                 proc, wild, late, reads, traffic>>

\* The second half of the handler, at the connection c.
Starts(c) == proc = "alive" /\ pcM # "down" /\ c # None

(* grind.add_watcher, also of one that main's loop has stopped by now.     *)
AddWatcher ==
  /\ Starts(starting)
  /\ Uses({starting})
  /\ registered' = registered \cup ({starting} \cap {c \in Watchers : Held(c)})
  /\ starting' = None /\ started' = starting
  /\ UNCHANGED <<io, reading, shut, gone, listed, next, flisted, fnext, feeder,
                 subscribed, main, late, reads, traffic>>

(* read(), and accept_watcher; once kernel::stop has cleared the list no   *)
(* accept follows.                                                         *)
StartReads ==
  /\ Starts(started)
  /\ Uses({started})
  /\ IF Held(started)
     THEN /\ reading' = reading \cup ({started} \ shut)
          /\ io' = ReadsOn(started, io)
     ELSE UNCHANGED <<reading, io>>
  /\ next' = IF pcM = "io" THEN None ELSE Fresh(Watchers, Used)
  /\ started' = None
  /\ UNCHANGED <<shut, gone, listed, starting, flisted, fnext, feeder, lua, main,
                 late, reads, traffic>>

(* The accept failed, or the peer is gone, or the socket shut by main,     *)
(* when start() asks for its address: an exception nobody handles.  After  *)
(* kernel::stop has reset new_watcher_connection_ there is nothing to      *)
(* list or to start.                                                       *)
WatcherAcceptThrows ==
  /\ \/ HeadIs("accept") /\ io' = Popped(io)
     \/ Starts(starting) /\ UNCHANGED io
  /\ proc' = "aborted"
  /\ UNCHANGED <<reading, shut, gone, owners, lua, main, wild, late, reads, traffic>>

OnAccept ==
  /\ HeadIs("on_accept") /\ Head(io.queue).ok /\ feeder = "up"
  /\ flisted' = flisted \cup {fnext}
  /\ reading' = reading \cup {fnext}
  /\ fnext' = Fresh(Feeds, Used)
  /\ io' = Popped(io)
  /\ UNCHANGED <<shut, gone, listed, next, starting, started, feeder, lua, main,
                 proc, wild, late, reads, traffic>>

OnAcceptFails ==
  /\ HeadIs("on_accept") /\ ~Head(io.queue).ok
  /\ feeder' = "refused"
  /\ io' = Post(Popped(io), Kernel, [h |-> "remove"])
  /\ UNCHANGED <<reading, shut, gone, listed, next, starting, started, flisted,
                 fnext, lua, main, proc, wild, late, reads, traffic>>

\* A read that brought data, on a connection that still exists.
OnRead(c) ==
  /\ HeadIs("read") /\ Head(io.queue).ok /\ c = Head(io.queue).c /\ Held(c)
  /\ UNCHANGED <<shut, gone, owners, registered, main, reads, written>>

(* A watcher's command.  It may subscribe, is answered, and a purge asks   *)
(* every registered watcher for its name first and is sent to those that   *)
(* are subscribed to everything.                                           *)
OnCommand(c) ==
  /\ OnRead(c) /\ c \in Watchers
  /\ subscribed' \in {subscribed, subscribed \cup {c}}
  /\ late' = IF c \in shut THEN late \cup {c} ELSE late
  /\ reading' = IF c \in shut THEN reading ELSE reading \cup {c}
  /\ \E asked \in {{}, registered} : \E keepers \in SUBSET (asked \cap subscribed) :
       /\ Uses(asked)
       /\ LET acc == Sends(Append(SetToSeq(keepers), c), Popped(io))
          IN  /\ \A w \in Watchers : acc.n[w] <= MaxSends
              /\ posted' = acc.n
              /\ io' = ReadsOn(c, acc.q)

(* Log text: the entries it completes are relayed to some of the           *)
(* subscribers, one after the other.                                       *)
OnFeed(c) ==
  /\ OnRead(c) /\ c \in Feeds
  /\ reading' = reading \cup {c}
  /\ \E to \in SUBSET subscribed, entries \in 1..2 :
       /\ Uses(to)
       /\ \E ws \in SetToSeqs(to) :
            LET acc == Sends(IF entries = 1 THEN ws ELSE ws \o ws, Popped(io))
            IN  /\ \A w \in Watchers : acc.n[w] <= MaxSends
                /\ posted' = acc.n
                /\ io' = acc.q
  /\ UNCHANGED <<subscribed, late>>

(* Lua raises, on a command that does not decode for one.                  *)
LuaRaises(c) ==
  /\ OnRead(c)
  /\ proc' = "aborted"
  /\ io' = Popped(io)
  /\ UNCHANGED <<reading, subscribed, wild, late, posted>>

OnReadFails(c) ==
  /\ HeadIs("read") /\ ~Head(io.queue).ok /\ c = Head(io.queue).c /\ Held(c)
  /\ Stop(c)
  /\ io' = StopIO(Popped(io), c)
  /\ UNCHANGED main

OnReadFreed(c) == /\ HeadIs("read") /\ c = Head(io.queue).c
                  /\ UsesFreed(c, Popped(io))

DoSend(c) ==
  /\ StrandIs(c, "send") /\ Held(c) /\ c \notin shut
  /\ written' = [written EXCEPT ![c] = Append(@, Head(io.strand[c].ready).n)]
  /\ io' = Finished(io, c)
  /\ UNCHANGED <<reading, shut, gone, owners, lua, main, proc, wild, late,
                 reads, posted>>

\* Mutant: a failed write is passed over.
DoSendFailsGoesOn(c) ==
  /\ StrandIs(c, "send") /\ Held(c)
  /\ io' = Finished(io, c)
  /\ UNCHANGED <<reading, shut, gone, owners, lua, main, proc, wild, late,
                 reads, traffic>>

(* The socket is shut, the peer gone, or its buffer full: sockets are      *)
(* non-blocking, and would_block is an error.                              *)
DoSendFails(c) ==
  /\ StrandIs(c, "send") /\ Held(c)
  /\ Stop(c)
  /\ io' = Finished(StopIO(io, c), c)
  /\ UNCHANGED main

DoSendFreed(c) == StrandIs(c, "send") /\ UsesFreed(c, Finished(io, c))

\* A connection is listed once at most, so remove() removes the first.
DoClose ==
  /\ StrandIs(Kernel, "close")
  /\ listed' = RemoveFirst(listed, Head(io.strand[Kernel].ready).c)
  /\ io' = Finished(io, Kernel)
  /\ UNCHANGED <<reading, shut, gone, next, starting, started, flisted, fnext,
                 feeder, lua, main, proc, wild, late, reads, traffic>>

(* The feeder goes, and with it the connections it holds.                  *)
DoRemoveFeeder ==
  /\ StrandIs(Kernel, "remove")
  /\ feeder' = "deleted" /\ flisted' = {} /\ fnext' = None
  /\ reading' = reading \ flisted
  /\ io' = Finished(Aborted(io, flisted), Kernel)
  /\ UNCHANGED <<shut, gone, listed, next, starting, started, lua, main, proc,
                 wild, late, reads, traffic>>

(***************************************************************************)
(* kernel::stop, on the main thread.                                       *)
(***************************************************************************)
Main(from, to) == proc = "alive" /\ pcM = from /\ pcM' = to

StopBegins ==
  /\ Main("up", "walk") /\ reads <= StopReads
  /\ known' = ToSet(listed) \ {starting}
  /\ node' = IF listed = <<>> THEN None ELSE Head(listed)
  /\ UNCHANGED <<io, reading, shut, gone, owners, lua, lost, proc, wild, late,
                 reads, traffic>>

StopListed ==
  /\ Main("walk", "step") /\ node \in ToSet(listed)
  /\ Stop(node)
  /\ io' = StopIO(io, node)
  /\ UNCHANGED <<node, known, lost>>

\* Mutant: the iterator is advanced twice.
StepOnTwice ==
  /\ Main("step", "walk") /\ node \in ToSet(listed)
  /\ LET i == CHOOSE i \in DOMAIN listed : listed[i] = node
     IN  node' = IF i + 2 > Len(listed) THEN None ELSE listed[i + 2]
  /\ UNCHANGED <<io, reading, shut, gone, owners, lua, known, lost, proc, wild,
                 late, reads, traffic>>

\* ++conn
StepOn ==
  /\ Main("step", "walk") /\ node \in ToSet(listed)
  /\ LET i == CHOOSE i \in DOMAIN listed : listed[i] = node
     IN  node' = IF i = Len(listed) THEN None ELSE listed[i + 1]
  /\ UNCHANGED <<io, reading, shut, gone, owners, lua, known, lost, proc, wild,
                 late, reads, traffic>>

(* do_close has erased the node: the loop goes on anywhere or nowhere.     *)
LosePlace ==
  /\ \E from \in {"walk", "step"} : Main(from, "walk")
  /\ node # None /\ node \notin ToSet(listed)
  /\ lost' = TRUE /\ node' = None
  /\ proc' \in {"alive", "aborted"}
  /\ UNCHANGED <<io, reading, shut, gone, owners, lua, known, wild, late,
                 reads, traffic>>

(* The loop ends.  feeder::stop clears the close handlers, so only the     *)
(* list is cleared.                                                        *)
StopFeeders ==
  /\ Main("walk", "clear") /\ node = None
  /\ shut' = shut \cup flisted
  /\ reading' = reading \ flisted
  /\ flisted' = {}
  /\ io' = Aborted(io, flisted)
  /\ UNCHANGED <<gone, listed, next, starting, started, fnext, feeder, lua, node,
                 known, lost, proc, wild, late, reads, traffic>>

ClearConnections ==
  /\ Main("clear", "io")
  /\ next' = None /\ listed' = <<>>
  /\ LET dropped == {c \in Watchers : ~Closing(c)}
     IN  /\ reading' = reading \ dropped
         /\ io' = Aborted(io, dropped)
  /\ UNCHANGED <<shut, gone, starting, started, flisted, fnext, feeder, lua, node,
                 known, lost, proc, wild, late, reads, traffic>>

StopService ==
  /\ Main("io", "down")
  /\ UNCHANGED <<io, reading, shut, gone, owners, lua, node, known, lost, proc,
                 wild, late, reads, traffic>>

Peers == \/ Connects \/ \E ok \in BOOLEAN : FeederConnects(ok)
         \/ \E c \in Conns : PeerWrites(c) \/ PeerLeaves(c) \/ ReadEnds(c)

Worker ==
  \/ OnWatcherAccepted \/ AddWatcher \/ StartReads \/ WatcherAcceptThrows
  \/ OnAccept \/ OnAcceptFails
  \/ \E c \in Conns : \/ OnCommand(c) \/ OnFeed(c) \/ LuaRaises(c)
                       \/ OnReadFails(c) \/ OnReadFreed(c)
  \/ \E c \in Watchers : DoSend(c) \/ DoSendFails(c) \/ DoSendFreed(c)
  \/ DoClose \/ DoRemoveFeeder

StopKernel == \/ StopListed \/ StepOn \/ LosePlace \/ StopFeeders
              \/ ClearConnections \/ StopService

Next == Peers \/ Worker \/ StopBegins \/ StopKernel

Spec == Init /\ [][Next]_vars

(* The worker runs what is queued; peers and signals need never come, and  *)
(* main may stop anywhere within kernel::stop.                             *)
FairSpec == Spec /\ WF_vars(Worker)

-----------------------------------------------------------------------------
(***************************************************************************)
(* Properties                                                              *)
(***************************************************************************)
TypeOK ==
  /\ reading \subseteq Conns /\ shut \subseteq Conns /\ gone \subseteq Watchers
  /\ ToSet(listed) \subseteq Watchers /\ next \in Watchers \cup {None}
  /\ flisted \subseteq Feeds /\ fnext \in Feeds \cup {None}
  /\ feeder \in {"up", "refused", "deleted"}
  /\ registered \subseteq Watchers /\ subscribed \subseteq Watchers
  /\ pcM \in {"up", "walk", "step", "clear", "io", "down"}
  /\ proc \in {"alive", "aborted"}
  /\ reading \cap shut = {}

(* Until it is stopped, the kernel runs handlers on a destroyed connection *)
(* in two cases only: a command was read after stop() (connection.cpp:102  *)
(* binds a raw this), or the feeder was deleted with connections open      *)
(* (kernel.cpp:245).                                                       *)
Accounted ==
  pcM = "up" => wild \subseteq late \cup (IF feeder = "deleted" THEN Feeds ELSE {})

(* grind.watchers, whose members remove_watcher and purge call, holds      *)
(* pointers to live connections only; grind.subscriptions too, but for a   *)
(* watcher whose subscribe was read after its stop().                      *)
LuaPointersLive ==
  pcM = "up" => /\ \A c \in registered : Held(c)
                /\ \A c \in subscribed \ late : Held(c)

(* What a watcher is sent is written in the order Lua sent it, without a   *)
(* gap (connection.cpp:136: sends go through the strand).                  *)
WrittenInOrder ==
  \A c \in Watchers : \A i \in DOMAIN written[c] : written[c][i] = i

(* kernel::stop leaves no watcher that it found listed registered in Lua,  *)
(* unless its loop lost its place to do_close (kernel.cpp:144), or the     *)
(* watcher was listed but not yet added (kernel.cpp:175, connection.cpp:   *)
(* 65): add_watcher may then follow the remove_watcher of the loop.        *)
AllDisconnected == pcM = "down" /\ ~lost => known \cap registered = {}

(* Every watcher connection that was stopped is destroyed in the end:      *)
(* neither repeated closes nor queued handlers keep it (kernel.cpp:169).   *)
Reclaimed ==
  []<>(proc = "aborted" \/ pcM = "down" \/ \A c \in Watchers \cap shut : ~Held(c))
=============================================================================
