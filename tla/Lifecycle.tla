----------------------------- MODULE Lifecycle ------------------------------
(***************************************************************************)
(* The threads of a grind process, from kernel::init to the return of      *)
(* main: the main thread, which waits for a signal and then stops the      *)
(* kernel; the thread that runs kernel::start; and the worker that runs    *)
(* the io_service and calls into Lua.                                      *)
(*                                                                         *)
(* Two mutexes are modelled: mtx_ of script_engine, held during a call     *)
(* into Lua, and conn_mtx_ of a feeder.  One watcher connection and one    *)
(* feeder connection stand for all of them.  An undefined outcome (a call  *)
(* on a closed Lua state, a feeder used after its deletion) either takes   *)
(* the process down or goes unnoticed.                                     *)
(***************************************************************************)
EXTENDS Naturals

CONSTANTS
  MaxEvents,             \* bound on the handlers the io_service runs
  MaxSends               \* bound on the do_sends that wait on the strand

ASSUME EventAssumption == MaxEvents \in Nat /\ MaxSends \in Nat

VARIABLES
  pcM, pcS, pcW,         \* where main, kernel::start and kernel::work are
  job,                   \* the kind of handler the worker is in
  running,               \* kernel::running_
  ioStopped,             \* io_service_.stop() has been called
  mtx,                   \* who holds script_engine::mtx_
  connMtx,               \* who holds feeder::conn_mtx_
  lua,                   \* the Lua state: "open", "stopped" by grind.stop, "closed"
  feeders,               \* "registered", or "deleted" by cleanup
  conns,                 \* the connections that are listed
  closing,               \* a do_close of a watcher is queued
  queued,                \* do_sends that wait for a turn of the strand
  ready,                 \* do_sends left in the turn under way
  proc,                  \* "alive", "exited" from main, "aborted"
  events,                \* handlers run so far
  late                   \* the handlers that called into Lua after grind.stop

watches == <<conns, closing>>
turns == <<queued, ready>>
threads == <<pcM, pcS, pcW>>
locks == <<mtx, connMtx>>
vars == <<pcM, pcS, pcW, job, running, ioStopped, mtx, connMtx, lua, feeders,
          conns, closing, queued, ready, proc, events, late>>

(* The types, and who holds a mutex where.                                 *)
TypeOK ==
  /\ pcM \in {"init", "sigwait", "check", "conns", "feeders", "unlock", "io",
              "grind.stop", "lua_close", "offline", "cleanup", "join", "done"}
  /\ pcS \in {"none", "open", "online", "spawn", "join", "done"}
  /\ pcW \in {"none", "run", "relay", "send", "lock", "lua", "close", "done"}
  /\ job \in {"none", "feed", "add", "command", "end", "send"}
  /\ running \in BOOLEAN /\ ioStopped \in BOOLEAN
  /\ mtx \in {"free", "worker"} /\ connMtx \in {"free", "main"}
  /\ lua \in {"open", "stopped", "closed"}
  /\ feeders \in {"registered", "deleted"}
  /\ conns \subseteq {"watcher", "feeder"}
  /\ closing \in BOOLEAN /\ queued \in 0..MaxSends /\ ready \in 0..MaxSends
  /\ proc \in {"alive", "exited", "aborted"}
  /\ events \in 0..MaxEvents /\ late \subseteq 0..MaxEvents
  /\ mtx = "worker" <=> pcW = "lua"
  /\ connMtx = "main" <=> pcM = "unlock"

Init ==
  /\ pcM = "init" /\ pcS = "none" /\ pcW = "none" /\ job = "none"
  /\ running = FALSE /\ ioStopped = FALSE
  /\ mtx = "free" /\ connMtx = "free"
  /\ lua = "open" /\ feeders = "registered" /\ conns = {} /\ closing = FALSE
  /\ queued = 0 /\ ready = 0
  /\ proc = "alive" /\ events = 0 /\ late = {}

Alive == proc = "alive"

(***************************************************************************)
(* main                                                                    *)
(***************************************************************************)
Main(from, to) == Alive /\ pcM = from /\ pcM' = to

(* kernel::init has run the scripts and registered the feeders: go on, or  *)
(* clean up and return 1.  A script that raises has closed the Lua state,  *)
(* a grind.start that refuses the configuration has not.                   *)
InitSucceeds ==
  /\ Main("init", "sigwait")
  /\ pcS' = "open"
  /\ UNCHANGED <<pcW, job, running, ioStopped, locks, lua, feeders,
                 watches, proc, events, late, turns>>

InitFails ==
  /\ Main("init", "done")
  /\ feeders' = "deleted"
  /\ lua' \in {"open", "closed"}
  /\ proc' = "exited"
  /\ UNCHANGED <<pcS, pcW, job, running, ioStopped, locks, watches, events,
                 late, turns>>

Signal ==
  /\ Main("sigwait", "check")
  /\ UNCHANGED <<pcS, pcW, job, running, ioStopped, locks, lua, feeders,
                 watches, proc, events, late, turns>>

(* if (kernel.is_running()) kernel.stop();                                 *)
CheckRunning ==
  /\ Main("check", IF running THEN "conns" ELSE "cleanup")
  /\ UNCHANGED <<pcS, pcW, job, running, ioStopped, locks, lua, feeders,
                 watches, proc, events, late, turns>>

(* Each watcher connection is stopped, which calls grind.remove_watcher    *)
(* and queues its do_close.  Its read, now cancelled, still completes and  *)
(* stops it again (EndWatcher).                                            *)
StopWatchers ==
  /\ Main("conns", "feeders")
  /\ "watcher" \in conns => mtx = "free"
  /\ closing' = (closing \/ "watcher" \in conns)
  /\ UNCHANGED <<pcS, pcW, job, running, ioStopped, locks, lua, feeders,
                 conns, turns, proc, events, late>>

(* feeder::stop holds conn_mtx_ and stops each connection without a close  *)
(* handler: feeder::close would take the mutex again.                      *)
LockFeeder ==
  /\ Main("feeders", "unlock")
  /\ connMtx = "free"
  /\ connMtx' = "main"
  /\ UNCHANGED <<pcS, pcW, job, running, ioStopped, mtx, lua, feeders,
                 watches, proc, events, late, turns>>

\* Slips in feeder::stop: the mutex is not released, or the connections keep
\* their close handler, feeder::close, which waits for the mutex.
StopFeederLocked ==
  /\ Main("unlock", "io")
  /\ conns' = conns \ {"feeder"}
  /\ UNCHANGED <<pcS, pcW, job, running, ioStopped, locks, lua, feeders,
                 proc, events, late, turns, closing>>
StopFeederReenters ==
  /\ Main("unlock", "io")
  /\ "feeder" \in conns => connMtx = "free"
  /\ conns' = conns \ {"feeder"}
  /\ connMtx' = "free"
  /\ UNCHANGED <<pcS, pcW, job, running, ioStopped, mtx, lua, feeders,
                 proc, events, late, turns, closing>>

StopFeeder ==
  /\ Main("unlock", "io")
  /\ conns' = conns \ {"feeder"}
  /\ connMtx' = "free"
  /\ UNCHANGED <<pcS, pcW, job, running, ioStopped, mtx, lua, feeders,
                 proc, events, late, turns, closing>>

\* A slip in kernel::stop: the io_service is not stopped.
StopServiceForgotten ==
  /\ Main("io", "grind.stop")
  /\ conns' = conns \ {"watcher"}
  /\ UNCHANGED <<pcS, pcW, job, running, ioStopped, locks, lua, feeders,
                 proc, events, late, turns, closing>>

(* connections_ is cleared and the io_service told to stop.                *)
StopService ==
  /\ Main("io", "grind.stop")
  /\ conns' = conns \ {"watcher"}
  /\ ioStopped' = TRUE
  /\ UNCHANGED <<pcS, pcW, job, running, locks, lua, feeders, proc, events,
                 late, turns, closing>>

(* script_engine::stop: the call of grind.stop takes mtx_, lua_close does  *)
(* not.                                                                    *)
StopLua ==
  /\ Main("grind.stop", "lua_close")
  /\ mtx = "free"
  /\ lua' = "stopped"
  /\ UNCHANGED <<pcS, pcW, job, running, ioStopped, locks, feeders,
                 watches, proc, events, late, turns>>

CloseLua ==
  /\ Main("lua_close", "offline")
  /\ lua' = "closed"
  /\ UNCHANGED <<pcS, pcW, job, running, ioStopped, locks, feeders,
                 watches, proc, events, late, turns>>

GoOffline ==
  /\ Main("offline", "cleanup")
  /\ running' = FALSE
  /\ UNCHANGED <<pcS, pcW, job, ioStopped, locks, lua, feeders, watches,
                 proc, events, late, turns>>

(* cleanup stops a kernel that has come online since the check.            *)
CleanupStops ==
  /\ Main("cleanup", "conns")
  /\ running
  /\ UNCHANGED <<pcS, pcW, job, running, ioStopped, locks, lua, feeders,
                 watches, proc, events, late, turns>>

DeleteFeeders ==
  /\ Main("cleanup", "join")
  /\ ~running
  /\ feeders' = "deleted"
  /\ UNCHANGED <<pcS, pcW, job, running, ioStopped, locks, lua, watches,
                 proc, events, late, turns>>

\* A slip in main: it returns without joining the thread.
JoinNobody ==
  /\ Main("join", "done")
  /\ proc' = "exited"
  /\ UNCHANGED <<pcS, pcW, job, running, ioStopped, locks, lua, feeders,
                 watches, events, late, turns>>

Join ==
  /\ Main("join", "done")
  /\ pcS = "done"
  /\ proc' = "exited"
  /\ UNCHANGED <<pcS, pcW, job, running, ioStopped, locks, lua, feeders,
                 watches, events, late, turns>>

(***************************************************************************)
(* kernel::start                                                           *)
(***************************************************************************)
Start(from, to) == Alive /\ pcS = from /\ pcS' = to

Open ==
  /\ Start("open", "online")
  /\ UNCHANGED <<pcM, pcW, job, running, ioStopped, locks, lua, feeders,
                 watches, proc, events, late, turns>>

(* bind or listen throws, and nothing catches it.                          *)
OpenFails ==
  /\ Start("open", "done")
  /\ proc' = "aborted"
  /\ UNCHANGED <<pcM, pcW, job, running, ioStopped, locks, lua, feeders,
                 watches, events, late, turns>>

GoOnline ==
  /\ Start("online", "spawn")
  /\ running' = TRUE
  /\ UNCHANGED <<pcM, pcW, job, ioStopped, locks, lua, feeders, watches,
                 proc, events, late, turns>>

Spawn ==
  /\ Start("spawn", "join")
  /\ pcW' = "run"
  /\ UNCHANGED <<pcM, job, running, ioStopped, locks, lua, feeders,
                 watches, proc, events, late, turns>>

JoinWorker ==
  /\ Start("join", "done")
  /\ pcW = "done"
  /\ UNCHANGED <<pcM, pcW, job, running, ioStopped, locks, lua, feeders,
                 watches, proc, events, late, turns>>

(***************************************************************************)
(* kernel::work                                                            *)
(***************************************************************************)
Work(from, to) == Alive /\ pcW = from /\ pcW' = to

(* io_service::run takes up the next handler unless it is stopped.         *)
Take(to, j) ==
  /\ Work("run", to)
  /\ ~ioStopped
  /\ events < MaxEvents
  /\ events' = events + 1
  /\ job' = j
  /\ UNCHANGED <<pcM, pcS, running, ioStopped, locks, lua, feeders, proc, late>>

(* A connection is accepted; for a watcher, grind.add_watcher is called.   *)
AcceptWatcher == /\ Take("lock", "add")
                 /\ conns' = conns \cup {"watcher"}
                 /\ UNCHANGED <<closing, turns>>
AcceptFeeder == /\ Take("run", "none")
                /\ feeders = "registered"
                /\ conns' = conns \cup {"feeder"}
                /\ UNCHANGED <<closing, turns>>

(* Deleting a feeder aborts the accept it has pending; the handler then    *)
(* calls kernel::remove_feeder through a deleted feeder.                   *)
AbortedAccept ==
  /\ Work("run", "run")
  /\ ~ioStopped
  /\ feeders = "deleted"
  /\ proc' \in {"alive", "aborted"}
  /\ UNCHANGED <<pcM, pcS, job, running, ioStopped, locks, lua, feeders,
                 watches, events, late, turns>>

(* A watcher's command, or the end of its connection, is a call into Lua.  *)
ReadWatcher == /\ Take("lock", "command")
               /\ "watcher" \in conns
               /\ UNCHANGED <<watches, turns>>
EndWatcher == /\ Take("lock", "end")
              /\ "watcher" \in conns
              /\ UNCHANGED <<watches, turns>>

(* The do_close that a stop has queued takes the watcher off the list.     *)
DoClose == /\ Take("run", "none")
           /\ closing
           /\ closing' = FALSE
           /\ conns' = conns \ {"watcher"}
           /\ UNCHANGED turns

(* A turn of the strand runs every do_send that was ready, one after the   *)
(* other, whether or not the io_service is stopped in between.             *)
StrandTurn == /\ Take("send", "send")
              /\ ready' \in 1..queued
              /\ queued' = queued - ready'
              /\ UNCHANGED watches

ReadFeeder == /\ Take("relay", "feed")
              /\ "feeder" \in conns
              /\ UNCHANGED <<watches, turns>>

(* The end of a feeder connection: connection::stop, feeder::close.        *)
EndFeeder == /\ Take("close", "none")
             /\ "feeder" \in conns
             /\ UNCHANGED <<watches, turns>>

(* What comes of a call on the feeder, which may have been deleted.        *)
UseFeeder ==
  proc' \in IF feeders = "registered" THEN {"alive"} ELSE {"alive", "aborted"}

CloseFeeder ==
  /\ Work("close", "run")
  /\ connMtx = "free"
  /\ conns' = conns \ {"feeder"}
  /\ UseFeeder
  /\ UNCHANGED <<pcM, pcS, job, running, ioStopped, locks, lua, feeders,
                 events, late, turns, closing>>

(* script_engine::relay reads the feeder's label.                          *)
Relay ==
  /\ Work("relay", "lock")
  /\ UseFeeder
  /\ UNCHANGED <<pcM, pcS, job, running, ioStopped, locks, lua, feeders,
                 watches, events, late, turns>>

(* do_send is bound to a raw connection, which the end of its listing may  *)
(* have destroyed.                                                         *)
UseWatcher ==
  proc' \in IF "watcher" \in conns THEN {"alive"} ELSE {"alive", "aborted"}

DoSend ==
  /\ Work("send", "send")
  /\ ready > 0
  /\ ready' = ready - 1
  /\ UseWatcher
  /\ UNCHANGED <<pcM, pcS, job, running, ioStopped, locks, lua, feeders,
                 watches, queued, events, late>>

(* The write fails, as it does on every socket that main has shut: the     *)
(* connection is stopped, and the next do_send of the turn follows.        *)
DoSendFails ==
  /\ Work("send", "lock")
  /\ ready > 0
  /\ ready' = ready - 1
  /\ UseWatcher
  /\ UNCHANGED <<pcM, pcS, job, running, ioStopped, locks, lua, feeders,
                 watches, queued, events, late>>

TurnEnds ==
  /\ Work("send", "run")
  /\ ready = 0
  /\ job' = "none"
  /\ UNCHANGED <<pcM, pcS, running, ioStopped, locks, lua, feeders, watches,
                 turns, proc, events, late>>

EnterLua ==
  /\ Work("lock", "lua")
  /\ mtx = "free"
  /\ mtx' = "worker"
  /\ late' = IF lua = "open" THEN late ELSE late \cup {events}
  /\ UNCHANGED <<pcM, pcS, job, running, ioStopped, connMtx, lua, feeders,
                 watches, turns, proc, events>>

(* The call ends, or raises: handle_error throws and the worker terminates *)
(* the process.  After grind.stop an entry always raises, since its group  *)
(* is gone and the assertion in grind.handle fails.  A command raises when *)
(* it is not JSON; a removal finds the tables empty and does not, but any  *)
(* call on a watcher then uses a connection that was cleared before.  On a *)
(* closed state anything can happen.                                       *)
Outcomes == IF lua = "stopped" /\ job = "feed" THEN {"aborted"}
                                              ELSE {"alive", "aborted"}

(* An entry or a command may send a watcher any number of messages; the    *)
(* end of a watcher queues its do_close.                                   *)
LeaveLua ==
  /\ Work("lua", IF job = "send" THEN "send" ELSE "run")
  /\ mtx' = "free"
  /\ job' = IF job = "send" THEN "send" ELSE "none"
  /\ proc' \in Outcomes
  /\ IF job \in {"feed", "command"} /\ "watcher" \in conns
     THEN queued' \in queued..MaxSends
     ELSE UNCHANGED queued
  /\ closing' = (closing \/ job \in {"end", "send"})
  /\ UNCHANGED <<pcM, pcS, running, ioStopped, connMtx, lua, feeders, conns,
                 ready, events, late>>

Return ==
  /\ Work("run", "done")
  /\ ioStopped
  /\ UNCHANGED <<pcM, pcS, job, running, ioStopped, locks, lua, feeders,
                 watches, proc, events, late, turns>>

StopKernel == \/ StopWatchers \/ LockFeeder \/ StopFeeder \/ StopService
              \/ StopLua \/ CloseLua \/ GoOffline

MainNext == \/ InitSucceeds \/ InitFails \/ CheckRunning \/ StopKernel
            \/ CleanupStops \/ DeleteFeeders \/ Join

StartNext == Open \/ OpenFails \/ GoOnline \/ Spawn \/ JoinWorker

Handler == \/ AcceptWatcher \/ AcceptFeeder \/ AbortedAccept
           \/ ReadWatcher \/ EndWatcher \/ DoClose \/ StrandTurn
           \/ ReadFeeder \/ EndFeeder

WorkNext == \/ CloseFeeder \/ Relay \/ DoSend \/ DoSendFails \/ TurnEnds
            \/ EnterLua \/ LeaveLua \/ Return

Next == MainNext \/ Signal \/ StartNext \/ Handler \/ WorkNext

Spec == Init /\ [][Next]_vars

(* Every thread that can take a step is scheduled; no signal and no        *)
(* traffic need ever come.                                                 *)
FairSpec == Spec /\ WF_vars(MainNext) /\ WF_vars(StartNext) /\ WF_vars(WorkNext)

-----------------------------------------------------------------------------
(***************************************************************************)
(* Properties                                                              *)
(***************************************************************************)
(* A process that returns from main has no thread left in grind, holds no  *)
(* mutex, has deleted its feeders and, if it was ever started, closed Lua. *)
CleanExit ==
  proc = "exited" => /\ pcS \in {"none", "done"} /\ pcW \in {"none", "done"}
                     /\ mtx = "free" /\ connMtx = "free"
                     /\ feeders = "deleted"
                     /\ pcS = "done" => lua = "closed"

(* kernel::stop stops the io_service before Lua (kernel.cpp:153-155), so   *)
(* that after grind.stop no second handler gets into Lua: whatever calls   *)
(* are made then, several of them when the sends of one turn of the strand *)
(* fail one after the other, are made by the last handler taken up, which  *)
(* was under way when the io_service was told to stop.                     *)
LateCallsOfOneHandler == late \subseteq {events}

(* A signal to a kernel that is online ends the process: neither mutex nor *)
(* the joins leave two threads waiting for each other.                     *)
SignalStops == (pcM = "check" /\ running) ~> ~Alive

(* Expected of the code by its own words, and not so.                      *)

(* "wait for signal indicating time to shut down" (main.cpp:105).          *)
SignalEnds == (pcM = "check") ~> ~Alive
=============================================================================
