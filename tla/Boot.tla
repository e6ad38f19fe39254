--------------------------------- MODULE Boot ---------------------------------
(***************************************************************************)
(* From the command line to the calls into Lua: main reads its arguments,  *)
(* kernel::init has the script engine find and run the configuration,      *)
(* grind.start sets what the configuration says, and from then on the      *)
(* kernel passes feeds and commands to Lua until it stops.                 *)
(*                                                                         *)
(* Two things are kept twice.  The logging threshold is a letter in C++    *)
(* and a name in Lua, each with an order of its own.  The Lua stack is     *)
(* what pass_to_lua, its extractors and handle_error, which push and pop   *)
(* by count, take it to be.                                                *)
(*                                                                         *)
(* Calls into Lua come one at a time; the threads are those of Lifecycle.  *)
(***************************************************************************)
EXTENDS Naturals, Sequences, SequencesExt

CONSTANT MaxArgs            \* bound on the arguments of the program

ASSUME BootAssumption == MaxArgs \in Nat

(***************************************************************************)
(* The loggers                                                             *)
(***************************************************************************)
\* Mutant: two levels in the other order.
LevelsSwapped == <<"D", "I", "W", "N", "E", "A", "C">>

\* By letter, in C++, and by name, in Lua: each has its own idea of the last two.
Levels == <<"D", "I", "N", "W", "E", "A", "C">>
OrderedLevels == <<"debug", "info", "notice", "warn", "error", "crit", "alert">>

Token == [debug |-> "D", info |-> "I", notice |-> "N", warn |-> "W",
          error |-> "E", crit |-> "C", alert |-> "A"]

\* A level that is not in the order is a threshold nothing reaches.
Reaches(order, threshold, lvl) ==
  \E i, j \in DOMAIN order : i <= j /\ order[i] = threshold /\ order[j] = lvl

(***************************************************************************)
(* What the outside offers: arguments, with the letter each starts with,   *)
(* the files they name, and configurations.                                *)
(***************************************************************************)
Args == {"-c", "-l", "-h", "W", "cfg", "dir"}
Letter(a) == IF a = "W" THEN "W" ELSE "?"
File(a) == CASE a = "cfg" -> "script" [] a = "dir" -> "directory" [] OTHER -> "missing"

\* What log_level can be, and the letter in upper case that it starts with.
LevelNames == DOMAIN Token \cup {"Warn", "verbose", "a number", "unset"}
Initial(name) == CASE name \in DOMAIN Token -> Token[name]
                   [] name = "Warn" -> "W"
                   [] OTHER -> "?"

Confs == [arbitrator : BOOLEAN,      \* helpers.lua was loaded
          bound : BOOLEAN,           \* lua_grind was required
          kernel : {"complete", "partial", "missing"},
          log_level : LevelNames,
          results : {0, 1}]     \* the values config.lua returns

Unread == [arbitrator |-> FALSE, bound |-> FALSE, kernel |-> "missing",
           log_level |-> "unread", results |-> 0]

VARIABLES
  pc,            \* main and kernel::init
  argv, i,       \* the arguments, and the index of the next
  config_file,   \* main's, "" or an argument
  log_level,     \* kernel.cfg.log_level
  threshold,     \* the C++ logger's
  conf,          \* the configuration that was run
  lua,           \* "null", "open" or "closed"
  running, stopping,       \* of the script engine
  stack, base,   \* the Lua stack, and what config.lua left on it
  lost,          \* values popped that were not there
  call, args     \* the step of pass_to_lua, and the kinds of its arguments

parse == <<argv, i, config_file>>
engine == <<lua, running, stopping>>
Rest == <<threshold, conf, engine, stack, base, lost, call, args>>
vars == <<pc, argv, i, config_file, log_level, threshold, conf, lua, running,
          stopping, stack, base, lost, call, args>>

\* What each logger prints: C++ by the kernel's level, Lua by the configuration's.
Logs(lvl) == Reaches(Levels, threshold, Token[lvl])
LuaLogs(lvl) == Reaches(OrderedLevels, conf.log_level, lvl)

\* The kernel has a level of its own, and the logger has one too.
Init ==
  /\ pc = "args" /\ argv \in UNION {[1..n -> Args] : n \in 0..MaxArgs} /\ i = 1
  /\ config_file = "" /\ log_level = "D" /\ threshold = "D" /\ conf = Unread
  /\ lua = "null" /\ running = FALSE /\ stopping = FALSE
  /\ stack = <<>> /\ base = <<>> /\ lost = 0 /\ call = "none" /\ args = <<>>

(***************************************************************************)
(* main: the arguments.  Its test for a missing operand, argc < i + 1, is  *)
(* never true: the operand of a last option is the null pointer.           *)
(***************************************************************************)
Parsing == pc = "args" /\ i <= Len(argv)

\* Mutant: the operand is looked at again.
ParseConfigAgain ==
  /\ Parsing /\ argv[i] = "-c"
  /\ i' = i + 1
  /\ IF i = Len(argv) THEN pc' = "down" /\ UNCHANGED config_file
     ELSE config_file' = argv[i + 1] /\ UNCHANGED pc
  /\ UNCHANGED <<argv, log_level, Rest>>

ParseConfig ==
  /\ Parsing /\ argv[i] = "-c"
  /\ i' = i + 2
  /\ IF i = Len(argv) THEN pc' = "down" /\ UNCHANGED config_file
     ELSE config_file' = argv[i + 1] /\ UNCHANGED pc
  /\ UNCHANGED <<argv, log_level, Rest>>

ParseHelp ==
  /\ Parsing /\ argv[i] = "-h"
  /\ pc' = "exited"
  /\ UNCHANGED <<parse, log_level, Rest>>

ParseLevel ==
  /\ Parsing /\ argv[i] = "-l"
  /\ i' = i + 2
  /\ IF i = Len(argv) THEN pc' = "down" /\ UNCHANGED log_level
     ELSE log_level' = Letter(argv[i + 1]) /\ UNCHANGED pc
  /\ UNCHANGED <<argv, config_file, Rest>>

ParseOther ==
  /\ Parsing /\ argv[i] \notin {"-c", "-h", "-l"}
  /\ i' = i + 1
  /\ UNCHANGED <<pc, argv, config_file, log_level, Rest>>

\* kernel::init
InitKernel ==
  /\ pc = "args" /\ i > Len(argv)
  /\ pc' = "config"
  /\ threshold' = log_level
  /\ UNCHANGED <<parse, log_level, conf, engine, stack, base, lost, call, args>>

(***************************************************************************)
(* The Lua stack.  A pop of more than there is leaves an empty stack here. *)
(***************************************************************************)
Pop(s, n) == SubSeq(s, 1, Len(s) - n)
Missing(s, n) == IF n > Len(s) THEN n - Len(s) ELSE 0

\* handle_error pops the message, if it is one, and what is below it;
\* stop(FALSE) closes Lua, unless it is stopping.  The exception ends in
\* kernel::init, or else ends the process.
HandleError(s) ==
  /\ LET n == IF Last(s) = "text" THEN 2 ELSE 1
     IN  /\ lost' = lost + Missing(s, n)
         /\ IF stopping THEN stack' = Pop(s, n) /\ UNCHANGED lua
            ELSE stack' = <<>> /\ lua' = "closed"
  /\ running' = FALSE /\ call' = "none" /\ args' = <<>>
  /\ pc' = IF pc \in {"config", "starting"} THEN "refused" ELSE "down"
  /\ UNCHANGED stopping

(***************************************************************************)
(* script_engine::start                                                    *)
(***************************************************************************)
\* The configuration it was given, or one found in a default directory.
Found == IF config_file = "" THEN {"script", "directory", "missing"} ELSE {File(config_file)}

LocateFails ==
  /\ pc = "config"
  /\ \E file \in Found :
       \/ file = "missing"
       \/ file = "directory" /\ config_file # ""
  /\ pc' = "refused"
  /\ UNCHANGED <<parse, log_level, Rest>>

\* A directory by the name of config.lua, or a script with an error in it.
ConfigFails ==
  /\ pc = "config"
  /\ \/ "script" \in Found /\ \E e \in {"text", "table"} : HandleError(<<e>>)
     \/ config_file = "" /\ HandleError(<<"text">>)
  /\ UNCHANGED <<parse, log_level, threshold, conf, base>>

\* A call of pass_to_lua begins with the function that prints errors.
PassToLua(s, kinds) ==
  /\ stack' = Append(s, "printer")
  /\ call' = "arbitrator" /\ args' = kinds

ConfigRuns ==
  /\ pc = "config" /\ "script" \in Found
  /\ conf' \in Confs
  /\ lua' = "open" /\ running' = TRUE /\ pc' = "starting"
  /\ base' = [k \in 1..conf'.results |-> "value"]
  /\ PassToLua(base', <<"grind::kernel">>)
  /\ UNCHANGED <<parse, log_level, threshold, stopping, lost>>

(***************************************************************************)
(* script_engine::pass_to_lua                                              *)
(***************************************************************************)
FindArbitrator ==
  /\ call = "arbitrator"
  /\ IF conf.arbitrator
     THEN /\ stack' = Append(stack, "arbitrator") /\ call' = "push"
          /\ UNCHANGED <<pc, engine, lost, args>>
     ELSE HandleError(Append(stack, "nil"))
  /\ UNCHANGED <<parse, log_level, threshold, conf, base>>

\* A string, or a userdata of a type of lua_grind, which must be there.
PushArguments ==
  /\ call = "push"
  /\ IF conf.bound \/ \A k \in DOMAIN args : args[k] = "std::string"
     THEN stack' = Append(stack, "name") \o args /\ call' = "invoke" /\ UNCHANGED pc
     ELSE pc' = "down" /\ call' = "none" /\ UNCHANGED stack
  /\ UNCHANGED <<parse, log_level, threshold, conf, engine, base, lost, args>>

\* lua_pcall replaces the arbitrator and its arguments by the results.
Invoked(results) == Pop(stack, Len(args) + 2) \o results

InvokeRaises ==
  /\ call = "invoke"
  /\ \E e \in {"text", "table"} : HandleError(Invoked(<<e>>))
  /\ UNCHANGED <<parse, log_level, threshold, conf, base>>

\* Mutant: the extractor leaves the result to its caller.
OnGrindStartLeaves(s, started) ==
  /\ running' = started
  /\ stack' = Pop(s, 1)

\* grind.start's result is popped by its extractor, the printer by pass_to_lua.
OnGrindStart(s, started) ==
  /\ running' = started
  /\ stack' = Pop(Pop(s, 1), 1)

\* grind.start: the options of the kernel, then the level.
GrindStart ==
  /\ call = "invoke" /\ pc = "starting" /\ conf.kernel # "missing"
  /\ conf.kernel = "complete" => conf.log_level # "a number"
  /\ LET started == conf.kernel = "complete"
         set == started /\ conf.log_level # "unset"
     IN  /\ log_level' = IF set THEN Initial(conf.log_level) ELSE log_level
         /\ threshold' = IF set THEN Initial(conf.log_level) ELSE threshold
         /\ OnGrindStart(Invoked(<<"result">>), started)
         /\ pc' = IF started THEN "online" ELSE "refused"
  /\ call' = "none" /\ args' = <<>>
  /\ UNCHANGED <<parse, conf, lua, stopping, base, lost>>

\* The others return nothing.
Invoke ==
  /\ call = "invoke" /\ pc \in {"online", "stopping"}
  /\ stack' = Pop(Invoked(<<>>), 1)
  /\ call' = "none" /\ args' = <<>>
  /\ UNCHANGED <<pc, parse, log_level, threshold, conf, engine, base, lost>>

(***************************************************************************)
(* The kernel is online: feeds, commands, and a signal to stop.            *)
(***************************************************************************)
Online == pc = "online" /\ call = "none"

Relay ==
  /\ Online
  /\ PassToLua(stack, <<"std::string", "std::string">>)
  /\ UNCHANGED <<pc, parse, log_level, threshold, conf, engine, base, lost>>

HandleCmd ==
  /\ Online
  /\ PassToLua(stack, <<"std::string", "grind::connection">>)
  /\ UNCHANGED <<pc, parse, log_level, threshold, conf, engine, base, lost>>

StopEngine ==
  /\ Online
  /\ pc' = "stopping" /\ stopping' = TRUE
  /\ PassToLua(stack, <<>>)
  /\ UNCHANGED <<parse, log_level, threshold, conf, lua, running, base, lost>>

CloseLua ==
  /\ pc = "stopping" /\ call = "none"
  /\ pc' = "exited" /\ lua' = "null" /\ stopping' = FALSE
  /\ stack' = <<>> /\ base' = <<>>
  /\ UNCHANGED <<parse, log_level, threshold, conf, running, lost, call, args>>

\* main cleans up the kernel that was not initialized.
CleanUp ==
  /\ pc = "refused"
  /\ pc' = "failed"
  /\ UNCHANGED <<parse, log_level, Rest>>

Parse == ParseConfig \/ ParseHelp \/ ParseLevel \/ ParseOther \/ InitKernel
Engine == LocateFails \/ ConfigFails \/ ConfigRuns \/ StopEngine \/ CloseLua
Pass == FindArbitrator \/ PushArguments \/ InvokeRaises \/ GrindStart \/ Invoke

Next == Parse \/ Engine \/ Pass \/ Relay \/ HandleCmd \/ CleanUp

Spec == Init /\ [][Next]_vars

-----------------------------------------------------------------------------
(***************************************************************************)
(* Properties                                                              *)
(***************************************************************************)
(* The options of a command line are the arguments that are none's         *)
(* operand.                                                                *)
Option[p \in 1..MaxArgs] ==
  p <= Len(argv) /\ (p > 1 => ~(Option[p - 1] /\ argv[p - 1] \in {"-c", "-l"}))

Given(o) == {p \in DOMAIN argv : Option[p] /\ argv[p] = o}
LastOf(o) == CHOOSE p \in Given(o) : \A q \in Given(o) : q <= p

(* However options and operands mix, main takes the last of each, prints   *)
(* help if that is asked for and goes down on an option without operand    *)
(* (main.cpp:61-83).                                                       *)
Parsed ==
  /\ pc = "config" =>
       /\ Given("-h") = {}
       /\ config_file = IF Given("-c") = {} THEN "" ELSE argv[LastOf("-c") + 1]
       /\ threshold = IF Given("-l") = {} THEN "D" ELSE Letter(argv[LastOf("-l") + 1])
  /\ pc = "down" /\ lua = "null" =>
       /\ Given("-h") = {}
       /\ Len(argv) \in Given("-c") \cup Given("-l")
  /\ pc = "exited" /\ i <= Len(argv) => Given("-h") # {}

(* When grind is online with a level by its name, both loggers print the   *)
(* same messages, whatever -l said, but for alert messages at crit and     *)
(* crit messages at alert, which the one prints and the other does not     *)
(* (logger.cpp:29, logger.lua:11).                                         *)
LoggersAgree ==
  Online /\ conf.log_level \in DOMAIN Token =>
    \A lvl \in DOMAIN Token :
      (LuaLogs(lvl) <=> Logs(lvl)) <=> {lvl, conf.log_level} # {"crit", "alert"}

(* A call into Lua invokes the arbitrator with the printer below it, and   *)
(* leaves the stack as it found it, or Lua closed, or the process down;    *)
(* and only the failure of the configuration pops more than there is       *)
(* (script_engine.cpp:283).                                                *)
StackBalanced ==
  /\ pc # "down" /\ call = "none" /\ lua = "open" => stack = base
  /\ call = "invoke" => /\ SubSeq(stack, 1, Len(base) + 2) = base \o <<"printer", "arbitrator">>
                        /\ Len(stack) = Len(base) + 3 + Len(args)
  /\ lost > 0 => lua = "closed" /\ conf = Unread
=============================================================================
