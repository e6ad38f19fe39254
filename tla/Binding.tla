------------------------------- MODULE Binding -------------------------------
(***************************************************************************)
(* What Lua holds of the C++ objects: the lua_grind module that SWIG       *)
(* generated, its table of types, the userdata that point to connections,  *)
(* kernels, their configurations and strings, and the wrappers Lua calls   *)
(* on them.                                                                *)
(*                                                                         *)
(* A userdata has the type of what it points to and a flag: if set, the    *)
(* collector destroys the object with it.  Two parties destroy objects,    *)
(* then, C++ and the collector, and neither knows what the other holds.    *)
(* lua_grind is the only SWIG module that is loaded.                       *)
(***************************************************************************)
EXTENDS Naturals, Sequences, SequencesExt, FiniteSets

CONSTANTS MaxObjects, MaxData    \* bounds on the objects and the userdata

ASSUME BindingAssumption == MaxObjects \in Nat /\ MaxData \in Nat /\ MaxObjects >= 2

None == "none"

(***************************************************************************)
(* The classes.  An argument is a "string" (a Lua string or number), a     *)
(* "nilstring" (that or nil), an "int" (a number, or a string of digits)   *)
(* or a pointer to a class (a userdata or nil).                            *)
(***************************************************************************)
StringMethods == [size |-> <<>>, length |-> <<>>, empty |-> <<>>, c_str |-> <<>>,
                  data |-> <<>>, assign |-> <<"nilstring">>]

StringClass == [methods |-> StringMethods, attributes |-> [n \in {} |-> None]]

InterfaceAttributes == [feeder_interface |-> "string", watcher_interface |-> "string"]
OtherAttributes == [watcher_port |-> "string", log_level |-> "nilstring"]

CfgClass == [methods |-> [n \in {} |-> <<>>],
             attributes |-> [n \in DOMAIN InterfaceAttributes \cup DOMAIN OtherAttributes |->
                              IF n \in DOMAIN OtherAttributes THEN OtherAttributes[n]
                                                              ELSE InterfaceAttributes[n]]]

KernelMethods == [is_running |-> <<>>, is_port_available |-> <<"int">>,
                  is_feeder_registered |-> <<"string">>,
                  register_feeder |-> <<"string", "int">>,
                  set_logging_threshold |-> <<"nilstring">>]

KernelClass == [methods |-> KernelMethods, attributes |-> [cfg |-> "kernel_cfg_t"]]

ConnectionMethods == [send |-> <<"string">>, whois |-> <<>>]

ConnectionClass == [methods |-> ConnectionMethods, attributes |-> [n \in {} |-> None]]

Class == [connection |-> ConnectionClass, kernel |-> KernelClass,
          kernel_cfg_t |-> CfgClass, string |-> StringClass]

\* All classes but connection have a constructor.
Constructible == {"kernel", "kernel_cfg_t", "string"}

(***************************************************************************)
(* The types, by name.  Mangled names are in order; every readable name,   *)
(* which starts with a letter, comes after them.                           *)
(***************************************************************************)
Type(c, mangled, str) == [class |-> c, name |-> mangled, str |-> str, cast |-> {mangled}]

TypeInitial ==
  <<Type("connection", "_p_grind__connection", {"grind::connection *"}),
    Type("kernel", "_p_grind__kernel", {"grind::kernel *"}),
    Type("kernel_cfg_t", "_p_grind__kernel_cfg_t", {"grind::kernel_cfg_t *"}),
    Type("string", "_p_std__string", {"std::string *", "string_t *"})>>

VARIABLES
  lua,           \* the interpreter: "closed", "open", "over"
  types,         \* the type table the interpreter's registry points to
  classes,       \* the classes with a metatable in its registry
  objs,          \* the C++ objects; a configuration is part of its kernel
  data,          \* the userdata
  proc,          \* "alive" or "down"
  wild,          \* objects used after they ended
  strange        \* uses of an object by a wrapper of another class

vars == <<lua, types, classes, objs, data, proc, wild, strange>>

Object(c, by, part) == [class |-> c, by |-> by, part |-> part,
                         ended |-> FALSE, freed |-> 0]
Objects == 1..Len(objs)
Live == {i \in 1..Len(data) : data[i].there}

\* C++ has ended the object, or the collector has freed it.
Gone(o) == objs[o].ended \/ objs[o].freed > 0

\* A kernel is two objects, itself and its cfg.
Made(c, by) == IF c = "kernel"
               THEN <<Object("kernel", by, 0), Object("kernel_cfg_t", by, Len(objs) + 1)>>
               ELSE <<Object(c, by, 0)>>
CfgOf(o) == o + 1

Ended(o) == Gone(o) \/ (objs[o].part # 0 /\ Gone(objs[o].part))

(***************************************************************************)
(* Looking up a type: by mangled name in halves, or else by readable name. *)
(***************************************************************************)
Less(name, other) ==
  \E i, j \in 1..Len(types) : i < j /\ types[i].name = name /\ types[j].name = other

MangledTypeQuery(name) ==
  LET search[p \in (0..Len(types)) \X (0..(Len(types) - 1))] ==
        LET l == p[1]
            r == p[2]
            i == (l + r) \div 2
            other == types[i + 1].name
        IN  CASE l > r -> 0
              [] l <= r /\ name = other -> i + 1
              [] l <= r /\ Less(name, other) -> IF i = 0 THEN 0 ELSE search[<<l, i - 1>>]
              [] OTHER -> search[<<i + 1, r>>]
  IN  IF types = <<>> THEN 0 ELSE search[<<0, Len(types) - 1>>]

TypeQuery(name) ==
  LET named == {i \in 1..Len(types) : name \in types[i].str}
  IN  IF MangledTypeQuery(name) # 0 THEN MangledTypeQuery(name)
      ELSE IF named = {} THEN 0 ELSE CHOOSE i \in named : \A j \in named : i <= j

(***************************************************************************)
(* Userdata.                                                               *)
(***************************************************************************)
Metatable(t) == IF types[t].class \in classes THEN types[t].class ELSE None

NewPointerObj(o, t, own) ==
  /\ Len(data) < MaxData
  /\ data' = Append(data, [type |-> t, ptr |-> o, own |-> own,
                           meta |-> Metatable(t), there |-> TRUE])

\* Each type is cast from itself only; the entry found, put first in the
\* list, is there already.
TypeCheckStruct(from, to) == types[from].name \in types[to].cast

Nil == [is |-> "nil", u |-> 0]
Data(i) == [is |-> "userdata", u |-> i]
Scalars == {[is |-> k, u |-> 0] : k \in {"nil", "number", "text", "digits"}}

StringKinds == {"number", "text", "digits"}
IsString(v) == v.is \in StringKinds
IsNilString(v) == v.is \in StringKinds \cup {"nil"}
IsNumber(v) == v.is \in {"number", "digits"}

\* Mutant: any userdata will do.
ConvertPtrAny(v, c) == v.is \in {"nil", "userdata"}

\* ConvertPtr accepts v for class c ...
ConvertPtr(v, c) ==
  \/ v.is = "nil"
  \/ v.is = "userdata" /\ \E to \in 1..Len(types) :
       types[to].class = c /\ TypeCheckStruct(data[v.u].type, to)

\* ... and yields this pointer, 0 for nil.
Pointer(v) == IF v.is = "nil" THEN 0 ELSE data[v.u].ptr

Fits(v, kind) == CASE kind = "string" -> IsString(v)
                   [] kind = "nilstring" -> IsNilString(v)
                   [] kind = "int" -> IsNumber(v)
                   [] OTHER -> ConvertPtr(v, kind)

\* A wrapper uses objects, each as one of a class, and perhaps a null
\* pointer, which takes the process down.
Applies(uses, null) ==
  LET freed == {use[1] : use \in {x \in uses : Ended(x[1])}}
  IN  /\ proc' \in IF null THEN {"down"}
                   ELSE IF freed # {} THEN {"alive", "down"} ELSE {"alive"}
      /\ wild' = IF null THEN wild ELSE wild \cup freed
      /\ strange' = strange \cup {use \in uses : objs[use[1]].class # use[2]}

\* The use of v as a c, none if it is nil.
UseOf(v, c) == IF v.is = "userdata" THEN {<<Pointer(v), c>>} ELSE {}

\* Lua's string of a nil is a null pointer, which each wrapper follows.
NullString(args, kinds) ==
  \E k \in DOMAIN kinds : kinds[k] = "nilstring" /\ args[k] = Nil

Running == proc = "alive" /\ lua = "open"

Init ==
  /\ lua = "closed" /\ types = <<>> /\ classes = {}
  /\ objs = <<Object("kernel", "cpp", 0), Object("kernel_cfg_t", "cpp", 1)>>
  /\ data = <<>> /\ proc = "alive" /\ wild = {} /\ strange = {}

(***************************************************************************)
(* The engine: lua_open, the configuration, which requires lua_grind or    *)
(* does not, what is pushed on the stack, lua_close.                       *)
(***************************************************************************)
Open ==
  /\ proc = "alive" /\ lua = "closed"
  /\ lua' = "open"
  /\ UNCHANGED <<types, classes, objs, data, proc, wild, strange>>

InitializeModule == types' = TypeInitial
RegisterClasses == classes' = {TypeInitial[i].class : i \in 1..Len(TypeInitial)}

Require ==
  /\ Running /\ types = <<>>
  /\ InitializeModule
  /\ RegisterClasses
  /\ UNCHANGED <<lua, objs, data, proc, wild, strange>>

\* Without a module the list of modules to search is a null pointer.
PushUserdata(o) ==
  /\ Running /\ objs[o].by = "cpp" /\ ~Ended(o)
  /\ \E c \in {"kernel", "connection"} :
       /\ objs[o].class = c
       /\ IF types = <<>> THEN proc' = "down" /\ UNCHANGED data
          ELSE /\ NewPointerObj(o, TypeQuery(IF c = "kernel" THEN "grind::kernel *"
                                             ELSE "grind::connection *"), FALSE)
               /\ UNCHANGED proc
  /\ UNCHANGED <<lua, types, classes, objs, wild, strange>>

\* Mutant: the flag is not looked at.
ClassDestructAll(S) ==
  [o \in Objects |->
    [objs[o] EXCEPT !.freed = @ + Cardinality({i \in S : data[i].ptr = o})]]

\* The objects after the collector has destroyed the userdata S.
ClassDestruct(S) ==
  [o \in Objects |->
    [objs[o] EXCEPT !.freed = @ + Cardinality({i \in S : data[i].ptr = o /\ data[i].own
                                                        /\ data[i].meta # None})]]

Collected(S) ==
  /\ objs' = ClassDestruct(S)
  /\ data' = [i \in DOMAIN data |-> IF i \in S THEN [data[i] EXCEPT !.there = FALSE]
                                               ELSE data[i]]

Close ==
  /\ Running
  /\ lua' = "over" /\ types' = <<>> /\ classes' = {}
  /\ Collected(Live)
  /\ UNCHANGED <<proc, wild, strange>>

(***************************************************************************)
(* C++ makes connections, and ends them.                                   *)
(***************************************************************************)
Accept ==
  /\ Running /\ Len(objs) < MaxObjects
  /\ objs' = objs \o Made("connection", "cpp")
  /\ UNCHANGED <<lua, types, classes, data, proc, wild, strange>>

Ends(o) ==
  /\ proc = "alive" /\ objs[o].class = "connection" /\ ~Ended(o)
  /\ objs' = [objs EXCEPT ![o].ended = TRUE]
  /\ UNCHANGED <<lua, types, classes, data, proc, wild, strange>>

(***************************************************************************)
(* What a script may do.                                                   *)
(***************************************************************************)
Collect(i) ==
  /\ Running /\ i \in Live
  /\ Collected({i})
  /\ UNCHANGED <<lua, types, classes, proc, wild, strange>>

\* A string may be made from one, and a nil one is a null pointer.
Constructs(c) ==
  /\ Running /\ c \in classes \cap Constructible
  /\ \E args \in {<<>>} \cup IF c = "string" THEN {<<v>> : v \in Scalars} ELSE {} :
       /\ \A k \in DOMAIN args : IsNilString(args[k])
       /\ IF args = <<Nil>> THEN proc' = "down" /\ UNCHANGED <<objs, data>>
          ELSE /\ Len(objs) + Len(Made(c, "lua")) <= MaxObjects
               /\ objs' = objs \o Made(c, "lua")
               /\ NewPointerObj(Len(objs) + 1,
                                CHOOSE t \in 1..Len(types) : types[t].class = c, TRUE)
               /\ UNCHANGED proc
  /\ UNCHANGED <<lua, types, classes, wild, strange>>

\* The tables .get and .set, and .fn, of a class.
Attributes(c) == IF c = None THEN {} ELSE DOMAIN Class[c].attributes
Functions(c) == IF c = None THEN {} ELSE DOMAIN Class[c].methods \cup {"__disown"}

\* Mutant: the userdata owns the configuration it points to.
ClassGetOwns(i, key) ==
  /\ Running /\ i \in Live /\ key \in Attributes(data[i].meta)
  /\ LET o == data[i].ptr
     IN  /\ Applies({<<o, data[i].meta>>}, FALSE)
         /\ IF key = "cfg" /\ ~Ended(o)
            THEN NewPointerObj(CfgOf(o), CHOOSE t \in 1..Len(types) :
                                           types[t].class = "kernel_cfg_t", TRUE)
            ELSE UNCHANGED data
  /\ UNCHANGED <<lua, types, classes, objs>>

ClassGet(i, key) ==
  /\ Running /\ i \in Live /\ key \in Attributes(data[i].meta)
  /\ LET o == data[i].ptr
     IN  /\ Applies({<<o, data[i].meta>>}, FALSE)
         /\ IF key = "cfg" /\ ~Ended(o)
            THEN NewPointerObj(CfgOf(o), CHOOSE t \in 1..Len(types) :
                                           types[t].class = "kernel_cfg_t", FALSE)
            ELSE UNCHANGED data
  /\ UNCHANGED <<lua, types, classes, objs>>

\* (An attribute that does not exist is passed over without an error.)
ClassSet(i, key, v) ==
  /\ Running /\ i \in Live /\ key \in Attributes(data[i].meta)
  /\ LET kind == Class[data[i].meta].attributes[key]
     IN  /\ Fits(v, kind)
         /\ Applies({<<data[i].ptr, data[i].meta>>} \cup UseOf(v, kind), v = Nil)
  /\ UNCHANGED <<lua, types, classes, objs, data>>

\* A method of the userdata i, called on anything, nil included.
Calls(i, m, self, args) ==
  /\ Running /\ i \in Live /\ m \in Functions(data[i].meta) \ {"__disown"}
  /\ LET c == data[i].meta
         kinds == Class[c].methods[m]
     IN  /\ ConvertPtr(self, c)
         /\ Len(args) = Len(kinds) /\ \A k \in DOMAIN kinds : Fits(args[k], kinds[k])
         /\ Applies(UseOf(self, c), self = Nil \/ NullString(args, kinds))
  /\ UNCHANGED <<lua, types, classes, objs, data>>

Disown(i) ==
  /\ Running /\ i \in Live /\ "__disown" \in Functions(data[i].meta)
  /\ data' = [data EXCEPT ![i].own = FALSE]
  /\ UNCHANGED <<lua, types, classes, objs, proc, wild, strange>>

Selves == {Nil} \cup {Data(i) : i \in Live}

Script ==
  \/ \E c \in Constructible : Constructs(c)
  \/ \E i \in Live :
       \/ Collect(i) \/ Disown(i)
       \/ \E key \in Attributes(data[i].meta) :
            ClassGet(i, key) \/ \E v \in Scalars \cup Selves : ClassSet(i, key, v)
       \/ \E m \in Functions(data[i].meta), self \in Selves :
            \E args \in {<<>>} \cup {<<v>> : v \in Scalars}
                        \cup {<<v, w>> : v \in Scalars, w \in Scalars} :
              Calls(i, m, self, args)

Next == \/ Open \/ Require \/ Close \/ Accept \/ Script
        \/ \E o \in Objects : PushUserdata(o) \/ Ends(o)

Spec == Init /\ [][Next]_vars

-----------------------------------------------------------------------------
(***************************************************************************)
(* Properties                                                              *)
(***************************************************************************)

(* Every userdata has the type and the metatable of what it points to, and *)
(* a wrapper gets objects of its own class only, whatever Lua passes it    *)
(* (lua_grind_wrap.cxx:450).                                               *)
TypesAgree ==
  /\ \A i \in Live : /\ data[i].meta = objs[data[i].ptr].class
                     /\ types[data[i].type].class = data[i].meta
  /\ strange = {}

(* The collector frees what a script made and has not disowned, once, and  *)
(* nothing else: not the kernel, its configuration or a connection; and    *)
(* when the engine stops nothing it owns is left (lua_grind_wrap.cxx:1230). *)
DestroyedByOwner ==
  /\ \A o \in Objects :
       objs[o].freed = Cardinality({i \in DOMAIN data :
                                     data[i].ptr = o /\ data[i].own /\ ~data[i].there})
  /\ \A o \in Objects : objs[o].freed <= IF objs[o].by = "lua" THEN 1 ELSE 0
  /\ lua = "over" => Live = {}

(* A wrapper is applied to an object that has ended in two cases only: a   *)
(* connection that C++ closed (connection.cpp:74 leaves no other, see      *)
(* Connections), and the configuration of a kernel that a script made and  *)
(* let go, since cfg points into it (lua_grind_wrap.cxx:2233).             *)
UsesAccounted ==
  \A o \in wild : \/ objs[o].class = "connection" /\ objs[o].by = "cpp"
                  \/ objs[o].part # 0 /\ objs[objs[o].part].by = "lua"
=============================================================================
