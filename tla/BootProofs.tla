------------------------------ MODULE BootProofs ------------------------------
(***************************************************************************)
(* Theorems about Boot, for any number of arguments: the two loggers agree *)
(* once grind is online, the Lua stack is balanced between calls, and main *)
(* reads its options as their grammar says.                                *)
(***************************************************************************)
EXTENDS Boot, Induction

(***************************************************************************)
(* The loggers                                                             *)
(***************************************************************************)
(* The two orders, by rank.                                                *)
LuaRank == [debug |-> 1, info |-> 2, notice |-> 3, warn |-> 4, error |-> 5, crit |-> 6, alert |-> 7]
Rank == [debug |-> 1, info |-> 2, notice |-> 3, warn |-> 4, error |-> 5, crit |-> 7, alert |-> 6]

LEMMA NameCases == DOMAIN Token = {"debug", "info", "notice", "warn", "error", "crit", "alert"}
BY DEF Token

LEMMA LuaReaches ==
  ASSUME NEW n \in DOMAIN Token, NEW lvl \in DOMAIN Token
  PROVE  Reaches(OrderedLevels, n, lvl) <=> LuaRank[n] <= LuaRank[lvl]
<1>1. DOMAIN OrderedLevels = 1..7
  BY DEF OrderedLevels
<1>2. \A k \in 1..7 : OrderedLevels[k] \in DOMAIN Token /\ LuaRank[OrderedLevels[k]] = k
  BY DEF OrderedLevels, Token, LuaRank
<1>3. \A m \in DOMAIN Token : LuaRank[m] \in 1..7 /\ OrderedLevels[LuaRank[m]] = m
  BY DEF OrderedLevels, Token, LuaRank
<1> QED
  BY <1>1, <1>2, <1>3 DEF Reaches

LEMMA CppReaches ==
  ASSUME NEW n \in DOMAIN Token, NEW lvl \in DOMAIN Token
  PROVE  Reaches(Levels, Token[n], Token[lvl]) <=> Rank[n] <= Rank[lvl]
<1>1. DOMAIN Levels = 1..7
  BY DEF Levels
<1>2. \A k \in 1..7, m \in DOMAIN Token : Levels[k] = Token[m] <=> Rank[m] = k
  BY DEF Levels, Token, Rank
<1>3. \A m \in DOMAIN Token : Rank[m] \in 1..7
  BY DEF Token, Rank
<1> QED
  BY <1>1, <1>2, <1>3 DEF Reaches

LEMMA OrdersDiffer ==
  ASSUME NEW n \in DOMAIN Token, NEW lvl \in DOMAIN Token
  PROVE  (LuaRank[n] <= LuaRank[lvl] <=> Rank[n] <= Rank[lvl]) <=> {lvl, n} # {"crit", "alert"}
BY NameCases DEF LuaRank, Rank

(* Once online, the kernel has run a configuration, and its level, if it   *)
(* gives one, is the C++ threshold too.                                    *)
Levelled ==
  pc \in {"online", "stopping"} =>
    (conf.log_level # "unset" => threshold = Initial(conf.log_level))

LEMMA LevelledInductive == Spec => []Levelled
<1>1. Init => Levelled
  BY DEF Init, Levelled
<1>2. Levelled /\ [Next]_vars => Levelled'
  <2> SUFFICES ASSUME Levelled, [Next]_vars PROVE Levelled'
    OBVIOUS
  <2> USE DEF Levelled, parse, engine, Rest
  <2>1. CASE Parse
    BY <2>1 DEF Parse, ParseConfig, ParseHelp, ParseLevel, ParseOther, InitKernel, Parsing
  <2>2. CASE Engine
    BY <2>2 DEF Engine, LocateFails, ConfigFails, ConfigRuns, StopEngine, CloseLua, Online,
                HandleError, PassToLua
  <2>3. CASE Pass
    <3>1. CASE FindArbitrator
      BY <3>1 DEF FindArbitrator, HandleError
    <3>2. CASE PushArguments
      BY <3>2 DEF PushArguments
    <3>3. CASE InvokeRaises
      BY <3>3 DEF InvokeRaises, HandleError
    <3>4. CASE GrindStart
      BY <3>4 DEF GrindStart
    <3>5. CASE Invoke
      BY <3>5 DEF Invoke
    <3> QED
      BY <2>3, <3>1, <3>2, <3>3, <3>4, <3>5 DEF Pass
  <2>4. CASE Relay \/ HandleCmd \/ CleanUp
    BY <2>4 DEF Relay, HandleCmd, CleanUp, Online, PassToLua
  <2>5. CASE UNCHANGED vars
    BY <2>5 DEF vars
  <2> QED
    BY <2>1, <2>2, <2>3, <2>4, <2>5 DEF Next
<1> QED
  BY <1>1, <1>2, PTL DEF Spec

(* Online with a level by its name, the loggers print the same messages    *)
(* but for crit and alert (logger.cpp:29, logger.lua:11).                  *)
THEOREM LoggersAgreeAlways == Spec => []LoggersAgree
<1>1. Levelled => LoggersAgree
  <2> SUFFICES ASSUME Levelled, Online, conf.log_level \in DOMAIN Token,
                      NEW lvl \in DOMAIN Token
               PROVE  (LuaLogs(lvl) <=> Logs(lvl)) <=> {lvl, conf.log_level} # {"crit", "alert"}
    BY DEF LoggersAgree
  <2>1. threshold = Token[conf.log_level]
    BY NameCases DEF Levelled, Online, Initial
  <2>2. LuaLogs(lvl) <=> LuaRank[conf.log_level] <= LuaRank[lvl]
    BY LuaReaches DEF LuaLogs
  <2>3. Logs(lvl) <=> Rank[conf.log_level] <= Rank[lvl]
    BY <2>1, CppReaches DEF Logs
  <2> QED
    BY <2>2, <2>3, OrdersDiffer
<1> QED
  BY <1>1, LevelledInductive, PTL

(***************************************************************************)
(* The stack                                                               *)
(***************************************************************************)
Kinds == {"value", "printer", "arbitrator", "name", "result", "nil", "text", "table",
          "std::string", "grind::kernel", "grind::connection"}
Texts == Seq(Kinds)

LEMMA Lists ==
  /\ \A x \in Kinds : <<x>> \in Texts /\ Len(<<x>>) = 1
  /\ <<>> \in Texts /\ Len(<<>>) = 0
  /\ \A s \in Texts : Len(s) \in Nat /\ s \o <<>> = s
<1>1. \A S : \A x \in S : <<x>> \in Seq(S) /\ Len(<<x>>) = 1
  OBVIOUS
<1>2. <<>> \in Texts /\ Len(<<>>) = 0
  BY EmptySeq DEF Texts
<1>3. \A s \in Texts : Len(s) \in Nat
  BY LenProperties DEF Texts
<1>4. \A s \in Texts : s \o <<>> = s
  BY ConcatEmptySeq DEF Texts
<1> QED
  BY <1>1, <1>2, <1>3, <1>4 DEF Texts

LEMMA Joined ==
  /\ \A s, t \in Texts : s \o t \in Texts /\ Len(s \o t) = Len(s) + Len(t)
  /\ \A s, t, u \in Texts : (s \o t) \o u = s \o (t \o u)
<1>1. \A s, t \in Texts : s \o t \in Texts /\ Len(s \o t) = Len(s) + Len(t)
  BY ConcatProperties DEF Texts
<1>2. \A s, t, u \in Texts : (s \o t) \o u = s \o (t \o u)
  BY ConcatAssociative DEF Texts
<1> QED
  BY <1>1, <1>2

LEMMA Appended == \A s \in Texts, x \in Kinds : Append(s, x) = s \o <<x>>
<1>1. \A S : \A s \in Seq(S), x \in S : Append(s, x) = s \o <<x>>
  OBVIOUS
<1> QED
  BY <1>1 DEF Texts

LEMMA Two == \A s \in Texts, x, y \in Kinds : (s \o <<x>>) \o <<y>> = s \o <<x, y>>
<1>1. ASSUME NEW S, NEW x \in S, NEW y \in S PROVE <<x>> \o <<y>> = <<x, y>>
  <2>1. <<x>> \in Seq(S) /\ <<y>> \in Seq(S) /\ <<x, y>> \in Seq(S)
    OBVIOUS
  <2>2. Len(<<x>>) = 1 /\ Len(<<y>>) = 1 /\ Len(<<x, y>>) = 2
    OBVIOUS
  <2>3. <<x>> \o <<y>> \in Seq(S) /\ Len(<<x>> \o <<y>>) = 2
    BY <2>1, <2>2, ConcatProperties
  <2>4. \A k \in 1..2 : (<<x>> \o <<y>>)[k] = <<x, y>>[k]
    BY <2>1, <2>2, ConcatProperties
  <2> QED
    BY <2>1, <2>2, <2>3, <2>4, SeqEqual
<1>2. \A x, y \in Kinds : <<x>> \o <<y>> = <<x, y>>
  BY <1>1
<1>3. \A s \in Texts, x, y \in Kinds : (s \o <<x>>) \o <<y>> = s \o (<<x>> \o <<y>>)
  BY Lists, Joined, Zenon
<1> QED
  BY <1>2, <1>3, Zenon

(* Popping what was pushed last leaves what was there before.              *)
LEMMA PopPushed ==
  ASSUME NEW s \in Texts, NEW t \in Texts
  PROVE  Pop(s \o t, Len(t)) = s
<1>1. Len(s \o t) = Len(s) + Len(t) /\ Len(s) \in Nat /\ Len(t) \in Nat
  BY Joined, Lists
<1>2. Pop(s \o t, Len(t)) = SubSeq(s \o t, 1, Len(s))
  BY <1>1 DEF Pop
<1>3. CASE Len(s) = 0
  BY <1>1, <1>2, <1>3, SubSeqEmpty, EmptySeq DEF Texts
<1>4. CASE Len(s) # 0
  <2>1. SubSeq(s \o t, 1, Len(s)) = SubSeq(s, 1, Len(s))
    BY <1>1, <1>4, SubSeqOfConcat1 DEF Texts
  <2> QED
    BY <1>2, <2>1, SubSeqFull DEF Texts
<1> QED
  BY <1>1, <1>3, <1>4

LEMMA PopAllPushed ==
  ASSUME NEW s \in Texts, NEW t \in Texts, NEW u \in Texts, NEW v \in Texts,
         Len(t) = 1, Len(u) = 1
  PROVE  Pop(((s \o t) \o u) \o v, Len(v) + 2) = s
<1>1. t \o u \in Texts /\ Len(t \o u) = Len(t) + Len(u)
  BY Joined, Zenon
<1>2. (t \o u) \o v \in Texts /\ Len((t \o u) \o v) = Len(t \o u) + Len(v)
  BY <1>1, Joined, Zenon
<1>3. ((s \o t) \o u) \o v = s \o ((t \o u) \o v)
  <2>1. (s \o t) \o u = s \o (t \o u)
    BY Joined, Zenon
  <2>2. (s \o (t \o u)) \o v = s \o ((t \o u) \o v)
    BY <1>1, Joined, Zenon
  <2> QED
    BY <2>1, <2>2, Zenon
<1>4. Len(v) \in Nat
  BY Lists, Zenon
<1>5. Len((t \o u) \o v) = Len(v) + 2
  BY <1>1, <1>2, <1>4
<1>6. Pop(s \o ((t \o u) \o v), Len((t \o u) \o v)) = s
  BY <1>2, PopPushed, Zenon
<1> QED
  BY <1>3, <1>5, <1>6, Zenon

LEMMA Words == /\ <<"printer">> \in Texts /\ Len(<<"printer">>) = 1
               /\ <<"arbitrator">> \in Texts /\ Len(<<"arbitrator">>) = 1
               /\ <<"name">> \in Texts /\ Len(<<"name">>) = 1
               /\ <<"result">> \in Texts /\ Len(<<"result">>) = 1
               /\ <<"text">> \in Texts /\ Len(<<"text">>) = 1
               /\ <<"table">> \in Texts /\ Len(<<"table">>) = 1
<1>1. /\ "printer" \in Kinds /\ "arbitrator" \in Kinds /\ "name" \in Kinds
      /\ "result" \in Kinds /\ "text" \in Kinds /\ "table" \in Kinds
  BY DEF Kinds
<1> QED
  BY <1>1, Lists

(* What pass_to_lua has on the stack when it calls pcall, and after it.    *)
Pushed == (base \o <<"printer">>) \o <<"arbitrator">>
Ready == (Pushed \o <<"name">>) \o args

LEMMA PcallLeavesResults ==
  ASSUME base \in Texts, args \in Texts, stack = Ready
  PROVE  \A r \in Texts : Invoked(r) = (base \o <<"printer">>) \o r
<1>1. base \o <<"printer">> \in Texts
  BY Words, Joined, Zenon
<1>2. Pop(stack, Len(args) + 2) = base \o <<"printer">>
  <2> DEFINE low == base \o <<"printer">>
  <2>1. low \in Texts
    BY <1>1
  <2> HIDE DEF low
  <2>2. Pop(((low \o <<"arbitrator">>) \o <<"name">>) \o args, Len(args) + 2) = low
    BY <2>1, Words, PopAllPushed
  <2> QED
    BY <2>2 DEF Ready, Pushed, low
<1> QED
  BY <1>2 DEF Invoked

LEMMA PopTyped == \A s \in Texts, n \in Nat : Pop(s, n) \in Texts
<1> SUFFICES ASSUME NEW s \in Texts, NEW n \in Nat PROVE Pop(s, n) \in Texts
  OBVIOUS
<1>1. Len(s) \in Nat /\ Len(s) - n \in Int
  BY Lists
<1>2. \A k \in 1..(Len(s) - n) : s[k] \in Kinds
  BY <1>1, ElementOfSeq DEF Texts
<1> QED
  BY <1>1, <1>2, SubSeqProperties DEF Pop, Texts

(* The stack at each step of pass_to_lua, and when it can be short.        *)
StackTyped ==
  /\ base \in Texts /\ args \in Texts /\ stack \in Texts
  /\ lost \in Nat
  /\ call \in {"none", "arbitrator", "push", "invoke"}

Fresh ==
  pc \in {"args", "config"} =>
    /\ lua = "null" /\ call = "none" /\ lost = 0 /\ conf = Unread /\ ~stopping

Engaged ==
  /\ pc \in {"starting", "online", "stopping"} => lua = "open" /\ lost = 0
  /\ pc \in {"starting", "online"} => ~stopping
  /\ call # "none" => pc \in {"starting", "online", "stopping"}

Shape ==
  /\ pc # "down" /\ call = "none" /\ lua = "open" => stack = base
  /\ call = "arbitrator" => stack = base \o <<"printer">>
  /\ call = "push" => stack = Pushed
  /\ call = "invoke" => stack = Ready
  /\ lost > 0 => lua = "closed" /\ conf = Unread

StackInv == StackTyped /\ Fresh /\ Engaged /\ Shape

(* An error with a value below its message pops no more than there is.     *)
LEMMA ErrorKeeps ==
  ASSUME StackInv, call # "none", NEW s \in Texts, Len(s) >= 2, HandleError(s),
         base' = base, conf' = conf
  PROVE  StackInv'
<1> DEFINE n == IF Last(s) = "text" THEN 2 ELSE 1
<1>1. n \in Nat /\ n <= 2 /\ Len(s) \in Nat
  BY Lists
<1>2. Missing(s, n) = 0
  BY <1>1 DEF Missing
<1>3. lost = 0 /\ lost' = 0
  BY <1>2 DEF HandleError, StackInv, Engaged
<1>4. stack' \in Texts
  <2>1. Pop(s, n) \in Texts
    BY <1>1, PopTyped
  <2> QED
    BY <2>1, Lists DEF HandleError
<1>5. call' = "none" /\ args' = <<>> /\ pc' \in {"refused", "down"}
  BY DEF HandleError
<1>6. pc' = "refused" => lua' = "closed" \/ stopping
  BY DEF HandleError
<1>7. stopping => pc' = "down"
  BY DEF HandleError, StackInv, Engaged
<1> QED
  BY <1>3, <1>4, <1>5, <1>6, <1>7, Lists DEF StackInv, StackTyped, Fresh, Engaged, Shape, HandleError

LEMMA CallsPush ==
  ASSUME StackInv
  PROVE  /\ \A r \in Texts : call = "invoke" => Invoked(r) = (base \o <<"printer">>) \o r
         /\ \A x \in Kinds : Append(base, x) = base \o <<x>> /\ Append(base, x) \in Texts
         /\ base \o <<"printer">> \in Texts /\ Pushed \in Texts /\ Ready \in Texts
<1>1. base \in Texts /\ args \in Texts
  BY DEF StackInv, StackTyped
<1>2. base \o <<"printer">> \in Texts
  BY <1>1, Words, Joined, Zenon
<1>3. Pushed \in Texts
  BY <1>2, Words, Joined, Zenon DEF Pushed
<1>4. Pushed \o <<"name">> \in Texts
  BY <1>3, Words, Joined, Zenon
<1>5. Ready \in Texts
  BY <1>1, <1>4, Joined, Zenon DEF Ready
<1>6. \A r \in Texts : call = "invoke" => Invoked(r) = (base \o <<"printer">>) \o r
  BY <1>1, PcallLeavesResults DEF StackInv, Shape
<1>7. \A x \in Kinds : Append(base, x) = base \o <<x>> /\ Append(base, x) \in Texts
  <2> SUFFICES ASSUME NEW x \in Kinds
               PROVE  Append(base, x) = base \o <<x>> /\ Append(base, x) \in Texts
    OBVIOUS
  <2>1. Append(base, x) = base \o <<x>>
    BY <1>1, Appended
  <2>2. <<x>> \in Texts
    BY Lists
  <2>3. base \o <<x>> \in Texts
    BY <1>1, <2>2, Joined, Zenon
  <2> QED
    BY <2>1, <2>3
<1> QED
  BY <1>2, <1>3, <1>5, <1>6, <1>7

LEMMA StackInitially == Init => StackInv
<1> SUFFICES ASSUME Init PROVE StackInv
  OBVIOUS
<1>1. base \in Texts /\ args \in Texts /\ stack \in Texts
  BY Lists DEF Init
<1>2. lost = 0 /\ call = "none" /\ lua = "null" /\ pc = "args" /\ conf = Unread /\ ~stopping
  BY DEF Init
<1> QED
  BY <1>1, <1>2 DEF StackInv, StackTyped, Fresh, Engaged, Shape

LEMMA ParseKeepsStack == StackInv /\ Parse => StackInv'
BY DEF Parse, ParseConfig, ParseHelp, ParseLevel, ParseOther, InitKernel, Parsing, parse,
       Rest, engine, StackInv, StackTyped, Fresh, Engaged, Shape

LEMMA EngineKeepsStack == StackInv /\ Engine => StackInv'
<1> SUFFICES ASSUME StackInv, Engine PROVE StackInv'
  OBVIOUS
<1> USE DEF parse, Rest, engine
<1>1. CASE LocateFails
  BY <1>1 DEF LocateFails, StackInv, StackTyped, Fresh, Engaged, Shape
<1>2. CASE ConfigFails
  <2>1. PICK e \in {"text", "table"} : HandleError(<<e>>)
    BY <1>2 DEF ConfigFails
  <2>2. pc = "config" /\ UNCHANGED <<conf, base>>
    BY <1>2 DEF ConfigFails
  <2>3. Missing(<<e>>, IF Last(<<e>>) = "text" THEN 2 ELSE 1) \in Nat
    BY Words DEF Missing
  <2>4. /\ stack' = <<>> /\ lua' = "closed" /\ call' = "none" /\ args' = <<>> /\ pc' = "refused"
        /\ lost' \in Nat
    BY <2>1, <2>2, <2>3 DEF HandleError, StackInv, Fresh, StackTyped
  <2> QED
    BY <2>2, <2>4, Lists DEF StackInv, StackTyped, Fresh, Engaged, Shape
<1>3. CASE ConfigRuns
  <2>1. conf'.results \in {0, 1} /\ base' = [k \in 1..conf'.results |-> "value"]
    BY <1>3 DEF ConfigRuns, Confs
  <2>2. base' \in Texts
    <3>1. base' \in [1..conf'.results -> Kinds] /\ conf'.results \in Nat
      BY <2>1 DEF Kinds
    <3> QED
      BY <3>1, SeqDef DEF Texts
  <2>3. stack' = Append(base', "printer") /\ args' = <<"grind::kernel">> /\ call' = "arbitrator"
    BY <1>3 DEF ConfigRuns, PassToLua
  <2>4. stack' = base' \o <<"printer">> /\ stack' \in Texts /\ args' \in Texts
    <3>1. "printer" \in Kinds /\ "grind::kernel" \in Kinds
      BY DEF Kinds
    <3>2. <<"printer">> \in Texts /\ <<"grind::kernel">> \in Texts
      BY <3>1, Lists
    <3>3. stack' = base' \o <<"printer">>
      BY <2>2, <2>3, <3>1, Appended
    <3>4. base' \o <<"printer">> \in Texts
      BY <2>2, <3>2, Joined, Zenon
    <3> QED
      BY <2>3, <3>2, <3>3, <3>4
  <2>5. pc' = "starting" /\ lua' = "open" /\ lost' = 0 /\ ~stopping'
    BY <1>3 DEF ConfigRuns, StackInv, Fresh
  <2> QED
    BY <2>2, <2>3, <2>4, <2>5 DEF StackInv, StackTyped, Fresh, Engaged, Shape
<1>4. CASE StopEngine
  <2>1. stack = base /\ stack' = base \o <<"printer">> /\ stack' \in Texts
    <3>1. "printer" \in Kinds
      BY DEF Kinds
    <3> QED
      BY <1>4, <3>1, CallsPush DEF StopEngine, Online, PassToLua, StackInv, Shape, Engaged
  <2> QED
    BY <1>4, <2>1, Lists DEF StopEngine, Online, PassToLua, StackInv, StackTyped, Fresh,
                             Engaged, Shape
<1>5. CASE CloseLua
  BY <1>5, Lists DEF CloseLua, StackInv, StackTyped, Fresh, Engaged, Shape
<1> QED
  BY <1>1, <1>2, <1>3, <1>4, <1>5 DEF Engine

LEMMA ServiceKeepsStack == StackInv /\ (Relay \/ HandleCmd \/ CleanUp) => StackInv'
<1> SUFFICES ASSUME StackInv, Relay \/ HandleCmd \/ CleanUp PROVE StackInv'
  OBVIOUS
<1>1. <<"std::string", "std::string">> \in Texts /\ <<"std::string", "grind::connection">> \in Texts
  <2>1. \A S : \A x, y \in S : <<x, y>> \in Seq(S)
    OBVIOUS
  <2> QED
    BY <2>1 DEF Texts, Kinds
<1>2. CASE Relay \/ HandleCmd
  <2>1. stack = base /\ stack' = base \o <<"printer">> /\ stack' \in Texts
    <3>1. "printer" \in Kinds
      BY DEF Kinds
    <3> QED
      BY <1>2, <3>1, CallsPush DEF Relay, HandleCmd, Online, PassToLua, StackInv, Shape, Engaged
  <2>2. args' \in Texts /\ call' = "arbitrator"
    BY <1>1, <1>2, Zenon DEF Relay, HandleCmd, PassToLua
  <2>3. UNCHANGED <<pc, conf, lua, stopping, base, lost>> /\ pc = "online"
    BY <1>2 DEF Relay, HandleCmd, Online, engine
  <2> QED
    BY <2>1, <2>2, <2>3 DEF StackInv, StackTyped, Fresh, Engaged, Shape
<1>3. CASE CleanUp
  BY <1>3 DEF CleanUp, Rest, engine, StackInv, StackTyped, Fresh, Engaged, Shape
<1> QED
  BY <1>2, <1>3

(* What pass_to_lua pops at the end: the result, if there is one, and the  *)
(* printer.                                                                *)
LEMMA CallsPop ==
  ASSUME StackInv, call = "invoke"
  PROVE  /\ Pop(Invoked(<<>>), 1) = base
         /\ Pop(Pop(Invoked(<<"result">>), 1), 1) = base
<1>1. base \in Texts /\ base \o <<"printer">> \in Texts
  BY CallsPush DEF StackInv, StackTyped
<1>2. Pop(base \o <<"printer">>, 1) = base
  <2>1. Pop(base \o <<"printer">>, Len(<<"printer">>)) = base
    BY <1>1, Words, PopPushed, Zenon
  <2> QED
    BY <2>1, Words
<1>3. Pop((base \o <<"printer">>) \o <<"result">>, 1) = base \o <<"printer">>
  <2>1. Pop((base \o <<"printer">>) \o <<"result">>, Len(<<"result">>)) = base \o <<"printer">>
    BY <1>1, Words, PopPushed, Zenon
  <2> QED
    BY <2>1, Words
<1>4. Invoked(<<"result">>) = (base \o <<"printer">>) \o <<"result">>
  BY CallsPush, Words, Zenon
<1>5. Invoked(<<>>) = (base \o <<"printer">>) \o <<>>
  BY CallsPush, Lists, Zenon
<1>6. (base \o <<"printer">>) \o <<>> = base \o <<"printer">>
  BY <1>1, Lists, Zenon
<1> QED
  BY <1>2, <1>3, <1>4, <1>5, <1>6, Zenon

LEMMA PassKeepsStack == StackInv /\ Pass => StackInv'
<1> SUFFICES ASSUME StackInv, Pass PROVE StackInv'
  OBVIOUS
<1> USE DEF parse, engine
<1>1. CASE FindArbitrator /\ conf.arbitrator
  <2>1. stack = base \o <<"printer">>
    BY <1>1 DEF FindArbitrator, StackInv, Shape
  <2>2. stack' = Pushed /\ Pushed \in Texts
    <3>1. "arbitrator" \in Kinds
      BY DEF Kinds
    <3>2. Append(stack, "arbitrator") = stack \o <<"arbitrator">>
      BY <3>1, Appended DEF StackInv, StackTyped
    <3> QED
      BY <1>1, <2>1, <3>2, CallsPush DEF FindArbitrator, Pushed
  <2>3. call' = "push" /\ UNCHANGED <<pc, conf, lua, stopping, base, lost, args>>
    BY <1>1 DEF FindArbitrator
  <2>4. call = "arbitrator"
    BY <1>1 DEF FindArbitrator
  <2> QED
    BY <2>2, <2>3, <2>4 DEF StackInv, StackTyped, Fresh, Engaged, Shape, Pushed
<1>2. CASE FindArbitrator /\ ~conf.arbitrator
  <2>1. HandleError(Append(stack, "nil")) /\ UNCHANGED <<conf, base>> /\ call # "none"
    BY <1>2 DEF FindArbitrator
  <2>2. stack = base \o <<"printer">> /\ stack \in Texts /\ base \in Texts
    BY <1>2 DEF FindArbitrator, StackInv, Shape, StackTyped
  <2>3. Append(stack, "nil") = stack \o <<"nil">> /\ <<"nil">> \in Texts /\ Len(<<"nil">>) = 1
    <3>1. "nil" \in Kinds
      BY DEF Kinds
    <3> QED
      BY <2>2, <3>1, Appended, Lists
  <2>4. stack \o <<"nil">> \in Texts /\ Len(stack \o <<"nil">>) = Len(stack) + Len(<<"nil">>)
    BY <2>2, <2>3, Joined, Zenon
  <2>5. Len(stack) = Len(base) + Len(<<"printer">>)
    BY <2>2, Words, Joined, Zenon
  <2>6. Len(stack \o <<"nil">>) >= 2
    BY <2>2, <2>3, <2>4, <2>5, Words, Lists
  <2> QED
    BY <2>1, <2>3, <2>4, <2>6, ErrorKeeps
<1>3. CASE PushArguments
  <2>1. stack = Pushed /\ stack \in Texts /\ call = "push"
    BY <1>3 DEF PushArguments, StackInv, Shape, StackTyped
  <2>2. Append(stack, "name") \o args = Ready
    <3>1. "name" \in Kinds
      BY DEF Kinds
    <3>2. Append(stack, "name") = stack \o <<"name">>
      BY <2>1, <3>1, Appended
    <3> QED
      BY <2>1, <3>2, Zenon DEF Ready
  <2>3. UNCHANGED <<conf, lua, stopping, base, lost, args>>
    BY <1>3 DEF PushArguments
  <2>4. Ready \in Texts
    BY CallsPush
  <2>5. CASE call' = "invoke" /\ stack' = Ready /\ pc' = pc
    BY <2>1, <2>3, <2>4, <2>5 DEF StackInv, StackTyped, Fresh, Engaged, Shape, Ready, Pushed
  <2>6. CASE call' = "none" /\ stack' = stack /\ pc' = "down"
    BY <2>1, <2>3, <2>6 DEF StackInv, StackTyped, Fresh, Engaged, Shape
  <2> QED
    BY <1>3, <2>2, <2>5, <2>6 DEF PushArguments
<1>4. CASE InvokeRaises
  <2>1. PICK e \in {"text", "table"} : HandleError(Invoked(<<e>>))
    BY <1>4 DEF InvokeRaises
  <2>2. call = "invoke" /\ UNCHANGED <<conf, base>>
    BY <1>4 DEF InvokeRaises
  <2>3. <<e>> \in Texts /\ Len(<<e>>) = 1
    BY Words
  <2>4. Invoked(<<e>>) = (base \o <<"printer">>) \o <<e>>
    BY <2>2, <2>3, CallsPush, Zenon
  <2>5. base \in Texts /\ base \o <<"printer">> \in Texts
    BY CallsPush DEF StackInv, StackTyped
  <2>6. /\ Len(base \o <<"printer">>) = Len(base) + Len(<<"printer">>)
        /\ Len((base \o <<"printer">>) \o <<e>>) = Len(base \o <<"printer">>) + Len(<<e>>)
        /\ (base \o <<"printer">>) \o <<e>> \in Texts
    BY <2>3, <2>5, Words, Joined, Zenon
  <2>7. Len(Invoked(<<e>>)) >= 2
    BY <2>3, <2>4, <2>5, <2>6, Words, Lists
  <2>8. Invoked(<<e>>) \in Texts
    BY <2>4, <2>6
  <2> QED
    BY <2>1, <2>2, <2>7, <2>8, ErrorKeeps
<1>5. CASE GrindStart
  <2>1. stack' = base
    BY <1>5, CallsPop DEF GrindStart, OnGrindStart
  <2>2. pc = "starting" /\ call' = "none" /\ args' = <<>> /\ pc' \in {"online", "refused"}
    BY <1>5 DEF GrindStart
  <2>3. UNCHANGED <<conf, lua, stopping, base, lost>>
    BY <1>5 DEF GrindStart
  <2> QED
    BY <2>1, <2>2, <2>3, Lists DEF StackInv, StackTyped, Fresh, Engaged, Shape
<1>6. CASE Invoke
  <2>1. stack' = base
    BY <1>6, CallsPop DEF Invoke
  <2>2. call' = "none" /\ args' = <<>> /\ UNCHANGED <<pc, conf, lua, stopping, base, lost>>
    BY <1>6 DEF Invoke
  <2> QED
    BY <1>6, <2>1, <2>2, Lists DEF Invoke, StackInv, StackTyped, Fresh, Engaged, Shape
<1> QED
  BY <1>1, <1>2, <1>3, <1>4, <1>5, <1>6 DEF Pass

LEMMA StackInductive == Spec => []StackInv
<1>1. StackInv /\ [Next]_vars => StackInv'
  <2>1. StackInv /\ UNCHANGED vars => StackInv'
    BY DEF vars, StackInv, StackTyped, Fresh, Engaged, Shape, Ready, Pushed
  <2> QED
    BY <2>1, ParseKeepsStack, EngineKeepsStack, PassKeepsStack, ServiceKeepsStack DEF Next
<1> QED
  BY <1>1, StackInitially, PTL DEF Spec

(* Every call into Lua invokes the arbitrator with the printer below it,   *)
(* and leaves the stack as it found it, Lua closed or the process down;    *)
(* only a configuration that fails pops too much (script_engine.cpp:283).  *)
THEOREM StackAlwaysBalanced == Spec => []StackBalanced
<1>1. StackInv => StackBalanced
  <2> SUFFICES ASSUME StackInv PROVE StackBalanced
    OBVIOUS
  <2>1. /\ pc # "down" /\ call = "none" /\ lua = "open" => stack = base
        /\ lost > 0 => lua = "closed" /\ conf = Unread
    BY DEF StackInv, Shape
  <2>2. CASE call = "invoke"
    <3>1. stack = Ready /\ base \in Texts /\ args \in Texts /\ Pushed \in Texts
      BY <2>2, CallsPush DEF StackInv, Shape, StackTyped
    <3>2. Pushed = base \o <<"printer", "arbitrator">>
      <4>1. "printer" \in Kinds /\ "arbitrator" \in Kinds
        BY DEF Kinds
      <4> QED
        BY <3>1, <4>1, Two, Zenon DEF Pushed
    <3>3. Ready = Pushed \o (<<"name">> \o args) /\ <<"name">> \o args \in Texts
      <4>1. (Pushed \o <<"name">>) \o args = Pushed \o (<<"name">> \o args)
        <5>1. \A t \in Texts : (Pushed \o t) \o args = Pushed \o (t \o args)
          BY <3>1, Joined, Zenon
        <5> QED
          BY <5>1, Words, Zenon
      <4>2. <<"name">> \o args \in Texts
        BY <3>1, Words, Joined, Zenon
      <4> QED
        BY <4>1, <4>2, Zenon DEF Ready
    <3>4. /\ Len(Ready) = Len(Pushed) + Len(<<"name">> \o args)
          /\ Len(<<"name">> \o args) = Len(<<"name">>) + Len(args)
      BY <3>1, <3>3, Words, Joined, Zenon
    <3>5. /\ Len(Pushed) = Len(base \o <<"printer">>) + Len(<<"arbitrator">>)
          /\ Len(base \o <<"printer">>) = Len(base) + Len(<<"printer">>)
      BY <3>1, Words, Joined, Zenon DEF Pushed
    <3>6. Len(base) \in Nat /\ Len(args) \in Nat
      BY <3>1, Lists
    <3>7. Len(Pushed) = Len(base) + 2 /\ Len(Ready) = Len(base) + 3 + Len(args)
      BY <3>4, <3>5, <3>6, Words
    <3>8. SubSeq(stack, 1, Len(base) + 2) = Pushed
      <4>1. Pop(Ready, Len(<<"name">> \o args)) = Pushed
        BY <3>1, <3>3, PopPushed, Zenon
      <4>2. Len(Ready) - Len(<<"name">> \o args) = Len(base) + 2
        BY <3>4, <3>6, <3>7, Words
      <4> QED
        BY <3>1, <4>1, <4>2 DEF Pop
    <3> QED
      BY <2>1, <2>2, <3>1, <3>2, <3>7, <3>8 DEF StackBalanced
  <2> QED
    BY <2>1, <2>2 DEF StackBalanced
<1> QED
  BY <1>1, StackInductive, PTL
(***************************************************************************)
(* The arguments                                                           *)
(***************************************************************************)
TakesOperand(a) == a \in {"-c", "-l"}

\* What Option says of one argument and of the one before it.
OptionAt(p, before) == p <= Len(argv) /\ (p > 1 => ~(before /\ TakesOperand(argv[p - 1])))

LEMMA OptionIs ==
  /\ \A p \in 1..MaxArgs : Option[p] \in BOOLEAN
  /\ \A p \in 1..MaxArgs : Option[p] = OptionAt(p, Option[p - 1])
<1> DEFINE step == [p \in Nat |-> [b \in BOOLEAN |-> OptionAt(p, b)]]
<1>1. step \in Steps(BOOLEAN)
  BY DEF Steps, OptionAt
<1>2. \A p \in 1..MaxArgs, b \in BOOLEAN : step[p][b] = OptionAt(p, b)
  BY BootAssumption
<1> HIDE DEF step
<1>3. PICK g \in [0..MaxArgs -> BOOLEAN] : Unfolds(g, FALSE, step, MaxArgs)
  BY <1>1, BootAssumption, FiniteRecursion
<1> DEFINE Eq(f) == f = [p \in 1..MaxArgs |-> OptionAt(p, f[p - 1])]
           f0 == [p \in 1..MaxArgs |-> g[p]]
<1>4. \A p \in 1..MaxArgs : f0[p] = OptionAt(p, f0[p - 1])
  <2> SUFFICES ASSUME NEW p \in 1..MaxArgs PROVE g[p] = OptionAt(p, f0[p - 1])
    OBVIOUS
  <2>1. g[p - 1] \in BOOLEAN /\ g[p] = step[p][g[p - 1]]
    BY <1>3, BootAssumption DEF Unfolds
  <2>2. g[p] = OptionAt(p, g[p - 1])
    BY <1>2, <2>1
  <2>3. CASE p = 1
    BY <2>2, <2>3 DEF OptionAt
  <2>4. CASE p > 1
    <3>1. f0[p - 1] = g[p - 1]
      BY <2>4, BootAssumption
    <3> QED
      BY <2>2, <3>1
  <2> QED
    BY <2>3, <2>4, BootAssumption
<1>5. Eq(f0)
  <2> HIDE DEF f0
  <2>1. f0 = [p \in 1..MaxArgs |-> f0[p]]
    BY DEF f0
  <2> QED
    BY <1>4, <2>1
<1>6. Option = CHOOSE f : Eq(f)
  BY DEF Option, OptionAt, TakesOperand
<1>7. Eq(Option)
  <2> HIDE DEF f0, Eq
  <2> QED
    BY <1>5, <1>6
<1>8. \A p \in 1..MaxArgs : Option[p] = OptionAt(p, Option[p - 1])
  BY <1>7
<1>9. \A p, b : OptionAt(p, b) \in BOOLEAN
  BY DEF OptionAt
<1> QED
  BY <1>8, <1>9

\* The word after an option with an operand is none, and other words after
\* which no operand is due are.
LEMMA OptionSteps ==
  ASSUME Len(argv) \in 0..MaxArgs, NEW p \in 1..Len(argv), Option[p]
  PROVE  /\ TakesOperand(argv[p]) /\ p + 1 <= Len(argv) => ~Option[p + 1]
         /\ TakesOperand(argv[p]) /\ p + 2 <= Len(argv) => Option[p + 2]
         /\ ~TakesOperand(argv[p]) /\ p + 1 <= Len(argv) => Option[p + 1]
<1>1. MaxArgs \in Nat /\ Len(argv) \in Nat /\ p \in 1..MaxArgs
  BY BootAssumption
<1>2. ASSUME p + 1 <= Len(argv) PROVE Option[p + 1] <=> ~TakesOperand(argv[p])
  <2>1. p + 1 \in 1..MaxArgs /\ (p + 1) - 1 = p /\ p + 1 > 1
    BY <1>1, <1>2
  <2>2. Option[p + 1] = OptionAt(p + 1, Option[(p + 1) - 1])
    BY <2>1, OptionIs
  <2>3. Option[p + 1] = OptionAt(p + 1, Option[p])
    BY <2>1, <2>2
  <2> QED
    BY <1>2, <2>1, <2>3 DEF OptionAt
<1>3. ASSUME TakesOperand(argv[p]), p + 2 <= Len(argv) PROVE Option[p + 2]
  <2>1. p + 2 \in 1..MaxArgs /\ (p + 2) - 1 = p + 1 /\ p + 1 <= Len(argv)
    BY <1>1, <1>3
  <2>2. Option[p + 2] = OptionAt(p + 2, Option[(p + 2) - 1])
    BY <2>1, OptionIs
  <2>3. ~Option[p + 1]
    BY <1>2, <1>3, <2>1
  <2>4. Option[p + 2] = OptionAt(p + 2, Option[p + 1])
    BY <2>1, <2>2
  <2> QED
    BY <1>3, <2>3, <2>4 DEF OptionAt
<1> QED
  BY <1>2, <1>3

\* x is what follows the last o before argument n, or d if there is none.
Latest(o, n, x, d) ==
  \/ x = d /\ \A p \in Given(o) : ~(p < n)
  \/ \E p \in Given(o) : p < n /\ x = argv[p + 1] /\ \A q \in Given(o) : q < n => q <= p

NoFile == ""

\* main is at an option or done with the arguments, and what it has kept is
\* what the options so far say.
Upto(n, f, l) ==
  /\ \A p \in Given("-h") : ~(p < n)
  /\ Latest("-c", n, f, NoFile)
  /\ \/ l = "D" /\ \A p \in Given("-l") : ~(p < n)
     \/ \E p \in Given("-l") : /\ p < n /\ l = Letter(argv[p + 1])
                               /\ \A q \in Given("-l") : q < n => q <= p

Reading ==
  /\ Len(argv) \in 0..MaxArgs /\ argv \in Seq(Args)
  /\ i \in Nat \ {0}
  /\ pc = "args" => /\ i <= Len(argv) + 1
                    /\ i <= Len(argv) => Option[i]
                    /\ Upto(i, config_file, log_level)
  /\ pc \notin {"args", "exited", "down"} => i > Len(argv)

LEMMA GivenIs ==
  ASSUME Reading, NEW o
  PROVE  \A p : p \in Given(o) <=> p \in 1..Len(argv) /\ Option[p] /\ argv[p] = o
<1>1. DOMAIN argv = 1..Len(argv)
  BY DEF Reading
<1> QED
  BY <1>1 DEF Given

\* The arguments at the end of the walk.
LEMMA WalkEnds ==
  ASSUME Reading, Upto(Len(argv) + 1, config_file, log_level)
  PROVE  /\ Given("-h") = {}
         /\ config_file = IF Given("-c") = {} THEN NoFile ELSE argv[LastOf("-c") + 1]
         /\ log_level = IF Given("-l") = {} THEN "D" ELSE Letter(argv[LastOf("-l") + 1])
<1>1. \A o : \A p \in Given(o) : p \in Nat /\ p < Len(argv) + 1
  BY GivenIs DEF Reading
<1>2. ASSUME NEW o, NEW p \in Given(o), \A q \in Given(o) : q < Len(argv) + 1 => q <= p
      PROVE  Given(o) # {} /\ LastOf(o) = p
  <2>1. \A q \in Given(o) : q <= p
    BY <1>1, <1>2
  <2>2. \A r \in Given(o) : (\A q \in Given(o) : q <= r) => r = p
    BY <1>1, <2>1
  <2> QED
    BY <2>1, <2>2 DEF LastOf
<1>3. Given("-h") = {}
  BY <1>1 DEF Upto
<1>4. config_file = IF Given("-c") = {} THEN NoFile ELSE argv[LastOf("-c") + 1]
  <2>1. CASE config_file = NoFile /\ Given("-c") = {}
    BY <2>1
  <2>2. CASE \E p \in Given("-c") : /\ config_file = argv[p + 1]
                                   /\ \A q \in Given("-c") : q < Len(argv) + 1 => q <= p
    BY <1>2, <2>2
  <2> QED
    BY <1>1, <2>1, <2>2 DEF Upto, Latest
<1>5. log_level = IF Given("-l") = {} THEN "D" ELSE Letter(argv[LastOf("-l") + 1])
  <2>1. CASE log_level = "D" /\ Given("-l") = {}
    BY <2>1
  <2>2. CASE \E p \in Given("-l") : /\ log_level = Letter(argv[p + 1])
                                   /\ \A q \in Given("-l") : q < Len(argv) + 1 => q <= p
    BY <1>2, <2>2
  <2> QED
    BY <1>1, <2>1, <2>2 DEF Upto
<1> QED
  BY <1>3, <1>4, <1>5

\* Of the options before the next word to look at, the one at hand is new.
LEMMA GivenNext ==
  ASSUME Reading, pc = "args", i <= Len(argv), NEW o
  PROVE  /\ i \in Given(o) <=> argv[i] = o
         /\ \A p \in Given(o) : p \in Nat
         /\ TakesOperand(argv[i]) => \A p \in Given(o) : p < i + 2 => p < i \/ p = i
         /\ \A p \in Given(o) : p < i + 1 => p < i \/ p = i
<1>1. i \in 1..Len(argv) /\ Option[i] /\ Len(argv) \in 0..MaxArgs /\ MaxArgs \in Nat
  BY BootAssumption DEF Reading
<1>2. TakesOperand(argv[i]) => ~(i + 1 \in Given(o))
  BY <1>1, GivenIs, OptionSteps
<1>3. (i \in Given(o) <=> argv[i] = o) /\ \A p \in Given(o) : p \in 1..Len(argv)
  BY <1>1, GivenIs
<1>4. \A p \in 1..Len(argv) : (p < i + 2 => p < i \/ p = i \/ p = i + 1) /\ (p < i + 1 => p < i \/ p = i)
  BY <1>1
<1> QED
  BY <1>2, <1>3, <1>4, <1>1

LEMMA UptoConfig ==
  ASSUME Reading, pc = "args", i <= Len(argv), argv[i] = "-c"
  PROVE  Upto(i + 2, argv[i + 1], log_level)
<1>1. Upto(i, config_file, log_level) /\ i \in Nat /\ TakesOperand(argv[i])
  BY DEF Reading, TakesOperand
<1>2. \A p \in Given("-h") : ~(p < i + 2)
  BY <1>1, GivenNext DEF Upto
<1>3. /\ i \in Given("-c") /\ i < i + 2
      /\ \A q \in Given("-c") : q < i + 2 => q <= i
  BY <1>1, GivenNext
<1>4. Latest("-c", i + 2, argv[i + 1], NoFile)
  BY <1>3 DEF Latest
<1>5. \A p \in Given("-l") : p \in Nat /\ (p < i + 2 <=> p < i)
  BY <1>1, GivenNext
<1> QED
  BY <1>1, <1>2, <1>4, <1>5 DEF Upto

LEMMA UptoLevel ==
  ASSUME Reading, pc = "args", i <= Len(argv), argv[i] = "-l"
  PROVE  Upto(i + 2, config_file, Letter(argv[i + 1]))
<1>1. Upto(i, config_file, log_level) /\ i \in Nat /\ TakesOperand(argv[i])
  BY DEF Reading, TakesOperand
<1>2. \A p \in Given("-h") : ~(p < i + 2)
  BY <1>1, GivenNext DEF Upto
<1>3. \A p \in Given("-c") : p \in Nat /\ (p < i + 2 <=> p < i)
  BY <1>1, GivenNext
<1>4. Latest("-c", i + 2, config_file, NoFile)
  BY <1>1, <1>3 DEF Upto, Latest
<1>5. /\ i \in Given("-l") /\ i < i + 2
      /\ \A q \in Given("-l") : q < i + 2 => q <= i
  BY <1>1, GivenNext
<1> QED
  BY <1>1, <1>2, <1>4, <1>5 DEF Upto

LEMMA UptoOther ==
  ASSUME Reading, pc = "args", i <= Len(argv), argv[i] \notin {"-c", "-h", "-l"}
  PROVE  Upto(i + 1, config_file, log_level)
<1>1. Upto(i, config_file, log_level) /\ i \in Nat
  BY DEF Reading
<1>2. ASSUME NEW o \in {"-c", "-h", "-l"}
      PROVE  \A p \in Given(o) : p \in Nat /\ (p < i + 1 <=> p < i)
  BY <1>1, GivenNext
<1>3. Latest("-c", i + 1, config_file, NoFile)
  BY <1>1, <1>2 DEF Upto, Latest
<1> QED
  BY <1>1, <1>2, <1>3 DEF Upto

LEMMA SameArguments ==
  ASSUME argv' = argv
  PROVE  /\ Option' = Option /\ \A o : Given(o)' = Given(o)
         /\ \A n, f, l : Upto(n, f, l)' <=> Upto(n, f, l)
<1>1. Option' = Option
  BY DEF Option
<1>2. \A o : Given(o)' = Given(o)
  BY <1>1 DEF Given
<1> QED
  BY <1>1, <1>2 DEF Upto, Latest

\* Nothing but Parse looks at the arguments or changes them.
LEMMA AfterParsing ==
  ASSUME StackInv, Reading, Engine \/ Pass \/ Relay \/ HandleCmd \/ CleanUp
  PROVE  /\ argv' = argv /\ i' = i /\ i > Len(argv)
         /\ pc' \notin {"args", "config"} /\ (pc' = "down" => lua' # "null")
<1> USE DEF parse, Rest, engine
<1>1. /\ ConfigFails => pc = "config" /\ UNCHANGED parse /\ \E s : HandleError(s)
      /\ LocateFails => pc = "config" /\ pc' = "refused" /\ UNCHANGED parse
      /\ ConfigRuns => pc = "config" /\ pc' = "starting" /\ UNCHANGED parse
      /\ StopEngine => pc = "online" /\ pc' = "stopping" /\ UNCHANGED parse
      /\ CloseLua => pc = "stopping" /\ pc' = "exited" /\ UNCHANGED parse
      /\ CleanUp => pc = "refused" /\ pc' = "failed" /\ UNCHANGED parse
      /\ Relay \/ HandleCmd => pc = "online" /\ pc' = "online" /\ UNCHANGED parse
  BY Zenon DEF ConfigFails, LocateFails, ConfigRuns, StopEngine, CloseLua, CleanUp,
               Relay, HandleCmd, Online
<1>2. /\ FindArbitrator => /\ call = "arbitrator" /\ UNCHANGED parse
                           /\ pc' = pc \/ \E s : HandleError(s)
      /\ PushArguments => /\ call = "push" /\ UNCHANGED <<parse, lua>>
                          /\ pc' = pc \/ pc' = "down"
      /\ InvokeRaises => /\ call = "invoke" /\ UNCHANGED parse /\ \E s : HandleError(s)
      /\ Invoke => call = "invoke" /\ UNCHANGED parse /\ pc' = pc
  BY Zenon DEF FindArbitrator, PushArguments, InvokeRaises, Invoke
<1>3. GrindStart => /\ call = "invoke" /\ UNCHANGED parse
                    /\ pc' = "online" \/ pc' = "refused"
  <2> SUFFICES ASSUME GrindStart PROVE UNCHANGED parse /\ call = "invoke"
                                       /\ (pc' = "online" \/ pc' = "refused")
    OBVIOUS
  <2>1. pc' = IF conf.kernel = "complete" THEN "online" ELSE "refused"
    BY Zenon DEF GrindStart
  <2>2. call = "invoke" /\ UNCHANGED parse
    BY Zenon DEF GrindStart
  <2> QED
    BY <2>1, <2>2
<1>4. \A s : HandleError(s) =>
        /\ pc' = "refused" \/ pc' = "down"
        /\ pc = "config" => pc' = "refused"
        /\ lua = "open" => lua' # "null"
  BY DEF HandleError
<1>5. call # "none" => lua = "open" /\ pc \in {"starting", "online", "stopping"}
  BY DEF StackInv, Engaged
<1> HIDE DEF parse, Rest, engine
<1>6. UNCHANGED parse /\ pc \notin {"args", "exited", "down"}
  BY <1>1, <1>2, <1>3, <1>5 DEF Engine, Pass
<1>7. i > Len(argv) /\ argv' = argv /\ i' = i
  BY <1>6 DEF Reading, parse
<1>8. UNCHANGED parse /\ pc' \notin {"args", "config"} /\ (pc' = "down" => lua' # "null")
  <2>1. CASE Engine \/ CleanUp \/ Relay \/ HandleCmd
    BY <1>1, <1>4, <2>1 DEF Engine
  <2>2. CASE Pass
    <3>1. lua = "open" /\ pc \in {"starting", "online", "stopping"}
      BY <1>2, <1>3, <1>5, <2>2 DEF Pass
    <3>2. CASE \E s : HandleError(s)
      BY <1>4, <1>6, <3>1, <3>2
    <3>3. CASE ~\E s : HandleError(s)
      BY <1>2, <1>3, <1>6, <2>2, <3>1, <3>3 DEF Pass
    <3> QED
      BY <3>2, <3>3
  <2> QED
    BY <2>1, <2>2
<1> QED
  BY <1>7, <1>8

\* Where a step of main leaves the walk.
ReadTo(n, f, l) ==
  /\ n \in Nat \ {0} /\ n <= Len(argv) + 1
  /\ n <= Len(argv) => Option[n]
  /\ Upto(n, f, l)

LEMMA ParseReads ==
  ASSUME Reading, ParseConfig \/ ParseLevel \/ ParseOther, pc' = "args"
  PROVE  ReadTo(i', config_file', log_level')
<1>1. i \in 1..Len(argv) /\ Len(argv) \in 0..MaxArgs /\ MaxArgs \in Nat /\ Option[i]
  BY BootAssumption DEF Reading, ParseConfig, ParseLevel, ParseOther, Parsing
<1> USE DEF Rest
<1>2. CASE ParseConfig
  <2>1. argv[i] = "-c" /\ pc = "args" /\ i < Len(argv)
    BY <1>1, <1>2 DEF ParseConfig, Parsing
  <2>2. i' = i + 2 /\ config_file' = argv[i + 1] /\ log_level' = log_level
    BY <1>2, <2>1 DEF ParseConfig
  <2>3. TakesOperand(argv[i])
    BY <2>1 DEF TakesOperand
  <2> QED
    BY <1>1, <2>1, <2>2, <2>3, UptoConfig, OptionSteps DEF ReadTo
<1>3. CASE ParseLevel
  <2>1. argv[i] = "-l" /\ pc = "args" /\ i < Len(argv)
    BY <1>1, <1>3 DEF ParseLevel, Parsing
  <2>2. i' = i + 2 /\ log_level' = Letter(argv[i + 1]) /\ config_file' = config_file
    BY <1>3, <2>1 DEF ParseLevel
  <2>3. TakesOperand(argv[i])
    BY <2>1 DEF TakesOperand
  <2> QED
    BY <1>1, <2>1, <2>2, <2>3, UptoLevel, OptionSteps DEF ReadTo
<1>4. CASE ParseOther
  <2>1. argv[i] \notin {"-c", "-h", "-l"} /\ pc = "args"
    BY <1>4 DEF ParseOther, Parsing
  <2>2. i' = i + 1 /\ log_level' = log_level /\ config_file' = config_file
    BY <1>4 DEF ParseOther
  <2>3. ~TakesOperand(argv[i])
    BY <2>1 DEF TakesOperand
  <2> QED
    BY <1>1, <2>1, <2>2, <2>3, UptoOther, OptionSteps DEF ReadTo
<1> QED
  BY <1>2, <1>3, <1>4

LEMMA ReadingInductive == StackInv /\ Reading /\ [Next]_vars => Reading'
<1> SUFFICES ASSUME StackInv, Reading, [Next]_vars PROVE Reading'
  OBVIOUS
<1> USE DEF Rest, parse, engine
<1>1. argv' = argv
  BY AfterParsing DEF Next, Parse, ParseConfig, ParseHelp, ParseLevel, ParseOther, InitKernel, vars
<1>2. CASE Engine \/ Pass \/ Relay \/ HandleCmd \/ CleanUp
  BY <1>2, AfterParsing DEF Reading
<1>3. CASE ParseConfig \/ ParseLevel \/ ParseOther
  <2>1. pc' \in {"args", "down"} /\ i' \in Nat \ {0}
    BY <1>3 DEF Reading, ParseConfig, ParseLevel, ParseOther, Parsing
  <2>2. pc' = "args" => ReadTo(i', config_file', log_level')
    BY <1>3, ParseReads
  <2>3. pc' = "args" => /\ i' <= Len(argv) + 1 /\ (i' <= Len(argv) => Option'[i'])
                        /\ Upto(i', config_file', log_level')
    BY <1>1, <2>2, SameArguments DEF ReadTo
  <2>4. Upto(i', config_file', log_level') => Upto(i, config_file, log_level)'
    BY <1>1, SameArguments
  <2> QED
    BY <1>1, <2>1, <2>3, <2>4 DEF Reading
<1>4. CASE ParseHelp \/ InitKernel
  BY <1>1, <1>4 DEF Reading, ParseHelp, InitKernel
<1>5. CASE UNCHANGED vars
  BY <1>1, <1>5, SameArguments DEF Reading, vars
<1> QED
  BY <1>2, <1>3, <1>4, <1>5 DEF Next, Parse

\* Parsed, by its cases.
Heard ==
  /\ pc = "config" =>
       /\ Given("-h") = {}
       /\ config_file = IF Given("-c") = {} THEN NoFile ELSE argv[LastOf("-c") + 1]
       /\ threshold = IF Given("-l") = {} THEN "D" ELSE Letter(argv[LastOf("-l") + 1])
  /\ pc = "down" /\ lua = "null" =>
       /\ Given("-h") = {}
       /\ Len(argv) \in Given("-c") \cup Given("-l")
  /\ pc = "exited" /\ i <= Len(argv) => Given("-h") # {}

LEMMA HeardIs == Heard <=> Parsed
BY Zenon DEF Heard, Parsed, NoFile

LEMMA HeardInductive == StackInv /\ Reading /\ Heard /\ [Next]_vars => Heard'
<1> SUFFICES ASSUME StackInv, Reading, Heard, [Next]_vars PROVE Heard'
  OBVIOUS
<1> USE DEF Rest, parse, engine
<1>1. argv' = argv /\ Option' = Option /\ \A o : Given(o)' = Given(o)
  BY AfterParsing, SameArguments
     DEF Next, Parse, ParseConfig, ParseHelp, ParseLevel, ParseOther, InitKernel, vars
<1>2. \A o : LastOf(o)' = LastOf(o)
  BY <1>1 DEF LastOf
<1>3. CASE Engine \/ Pass \/ Relay \/ HandleCmd \/ CleanUp
  <2>1. i' > Len(argv') /\ pc' # "config" /\ (pc' = "down" => lua' # "null")
    BY <1>3, AfterParsing
  <2>2. i' \in Nat /\ Len(argv') \in Nat
    BY <1>1, <1>3, AfterParsing, BootAssumption DEF Reading
  <2>3. ~(i' <= Len(argv'))
    BY <2>1, <2>2
  <2> QED
    BY <2>1, <2>3 DEF Heard
<1>4. CASE ParseConfig \/ ParseLevel \/ ParseOther
  <2>1. pc' = "args" \/ (pc' = "down" /\ i = Len(argv) /\ argv[i] \in {"-c", "-l"})
    BY <1>4 DEF ParseConfig, ParseLevel, ParseOther, Parsing
  <2>2. CASE pc' = "down"
    <3>1. i = Len(argv) /\ argv[i] \in {"-c", "-l"} /\ pc = "args"
      BY <1>4, <2>1, <2>2 DEF ParseConfig, ParseLevel, ParseOther, Parsing
    <3>2. Len(argv) \in Given("-c") \cup Given("-l")
      BY <3>1, GivenNext
    <3>3. Given("-h") = {}
      <4>1. \A p \in Given("-h") : p \in 1..Len(argv) /\ p # i
        BY <3>1, GivenIs
      <4>2. \A p \in Given("-h") : ~(p < i)
        BY <3>1 DEF Reading, Upto
      <4> QED
        BY <3>1, <4>1, <4>2 DEF Reading
    <3> QED
      BY <1>1, <2>2, <3>2, <3>3 DEF Heard
  <2> QED
    BY <2>1, <2>2 DEF Heard
<1>5. CASE ParseHelp
  <2>1. i \in Given("-h")
    BY <1>5, GivenNext DEF ParseHelp, Parsing
  <2> QED
    BY <1>1, <1>5, <2>1 DEF ParseHelp, Heard
<1>6. CASE InitKernel
  <2>1. i = Len(argv) + 1 /\ Upto(i, config_file, log_level)
    BY <1>6 DEF InitKernel, Reading
  <2>2. /\ Given("-h") = {}
        /\ config_file = IF Given("-c") = {} THEN NoFile ELSE argv[LastOf("-c") + 1]
        /\ log_level = IF Given("-l") = {} THEN "D" ELSE Letter(argv[LastOf("-l") + 1])
    BY <2>1, WalkEnds
  <2>3. pc' = "config" /\ config_file' = config_file /\ threshold' = log_level
    BY <1>6 DEF InitKernel
  <2> QED
    BY <1>1, <1>2, <2>2, <2>3, Zenon DEF Heard
<1>7. CASE UNCHANGED vars
  BY <1>1, <1>2, <1>7, Zenon DEF Heard, vars
<1> QED
  BY <1>3, <1>4, <1>5, <1>6, <1>7 DEF Next, Parse

LEMMA ReadingInitially == Init => Reading /\ Heard
<1> SUFFICES ASSUME Init PROVE Reading /\ Heard
  OBVIOUS
<1>1. PICK n \in 0..MaxArgs : argv \in [1..n -> Args]
  <2>1. argv \in UNION {[1..n -> Args] : n \in 0..MaxArgs}
    BY Zenon DEF Init
  <2> QED
    BY <2>1
<1>2. n \in Nat
  BY BootAssumption
<1>3. Len(argv) = n /\ argv \in Seq(Args)
  BY <1>1, <1>2
<1>4. config_file = NoFile /\ log_level = "D" /\ pc = "args" /\ i = 1
  BY Zenon DEF Init, NoFile
<1>5. \A o : \A p \in Given(o) : p \in 1..n
  BY <1>1 DEF Given
<1>6. \A o : \A p \in Given(o) : ~(p < 1)
  BY <1>2, <1>5
<1>7. Upto(i, config_file, log_level)
  BY <1>4, <1>6 DEF Upto, Latest
<1>8. i <= Len(argv) => Option[i]
  BY <1>1, <1>2, <1>3, <1>4, OptionIs, BootAssumption DEF OptionAt
<1> QED
  BY <1>1, <1>2, <1>3, <1>4, <1>7, <1>8 DEF Reading, Heard

(* However options and operands mix, main takes the last of each, prints   *)
(* help if that is asked for and goes down on an option without operand    *)
(* (main.cpp:61-83).                                                       *)
THEOREM ArgumentsParsed == Spec => []Parsed
<1>1. Reading /\ Heard /\ StackInv /\ [Next]_vars => (Reading /\ Heard)'
  BY ReadingInductive, HeardInductive
<1>2. Heard => Parsed
  BY HeardIs
<1> QED
  BY <1>1, <1>2, ReadingInitially, StackInductive, PTL DEF Spec
=============================================================================
