---------------------------- MODULE CSODispatch ----------------------------
(***************************************************************************)
(* OSC dispatch of the CSO control surface (libs/surfaces/cso/cso.cc): the *)
(* table of built-in handlers, the custom mappings from OSC messages to    *)
(* Lua functions, and the protected call of a mapped function with the     *)
(* message's arguments through the Lua stack.                              *)
(*                                                                         *)
(* Everything here runs on the event loop thread, one message at a time.   *)
(* Strings are sequences of tokens.  The arguments of a message are        *)
(* abstracted to the type each is read as; flags, addresses and hooks are  *)
(* the state of CSOFeedback, threads that of CSOLifecycle.                 *)
(***************************************************************************)
EXTENDS Naturals, Sequences, FiniteSets

CONSTANTS
  Tokens,      \* what a path is made of, which may be the separator
  Paths,       \* OSC paths, sequences of tokens
  Types,       \* the type tag strings of messages, sequences of tags
  MapTypes,    \* the types argument of /map/add and /map/remove, any string
  Tags,        \* OSC type tag characters
  Supported,   \* the tags lua_push_lo_type knows how to push
  ReadTags,    \* those of them whose value it reads from argv (not T and F)
  Methods,     \* names of global Lua functions
  NoMapping,   \* the absence of a mapping
  NoCall,      \* no mapped function has been entered yet
  MaxMappings, \* bound: mappings present at once
  MaxFailures  \* bound: failing Lua calls in a behaviour

Sep == ";"

\* liblo refuses a message whose type string has a character that is not a
\* tag, so the separator of the key never occurs in the types of a message.
\* Nothing of the kind is known of the types argument of a request.
ASSUME TypesAssumption ==
  /\ Types \subseteq Seq(Tags) \cap MapTypes
  /\ MapTypes \subseteq Seq(Tags \cup {Sep})
  /\ Sep \notin Tags
ASSUME SupportedAssumption ==
  ReadTags \subseteq Supported /\ Supported \subseteq Tags
ASSUME PathsAssumption ==
  Paths \subseteq Seq(Tokens)
ASSUME BoundsAssumption ==
  /\ MaxMappings \in Nat \ {0}
  /\ MaxFailures \in Nat

VARIABLES
  osc_map,   \* key |-> OSCMapping, or NoMapping
  luaFn,     \* what each global Lua function does when it is called
  luaTop,    \* Lua stack slots left behind by calls that have ended
  failures,  \* number of Lua calls that failed so far
  crashed,   \* the host process is gone
  lastCall,  \* the latest entry into a mapped Lua function
  asked      \* history: the function asked for each address, or NoMapping

vars == <<osc_map, luaFn, luaTop, failures, crashed, lastCall, asked>>

-----------------------------------------------------------------------------
(* register_osc_callbacks: path and types of the built-in handlers.        *)

\* No types given (NULL): a one-tag sequence that no message carries.
AnyTypes == <<"NULL">>

BuiltinHandlers ==
  { [path |-> <<"/eval">>,              types |-> <<"s">>],
    [path |-> <<"/map/add">>,           types |-> <<"s", "s", "s">>],
    [path |-> <<"/map/remove">>,        types |-> <<"s", "s">>],
    [path |-> <<"/map/clear">>,         types |-> <<>>],
    [path |-> <<"/map/dump">>,          types |-> <<>>],
    [path |-> <<"/connect">>,           types |-> AnyTypes],
    [path |-> <<"/debug">>,             types |-> AnyTypes],
    [path |-> <<"/print/stderr">>,      types |-> AnyTypes],
    [path |-> <<"/print/osc">>,         types |-> AnyTypes],
    [path |-> <<"/print/osc/address">>, types |-> <<"s", "i">>] }

BuiltinPaths == {h.path : h \in BuiltinHandlers}

\* The built-in handlers return 0: the server looks no further, and what
\* one of them takes never reaches the catch-all handler.
TakenByBuiltin(p, t) ==
  \E h \in BuiltinHandlers : h.path = p /\ (h.types = AnyTypes \/ h.types = t)

-----------------------------------------------------------------------------
(* The mapping table: a std::map from "path;types" to OSCMapping.          *)

\* Mutant: the key without its separator.
KeyUnseparated(p, t) == p \o t

Key(p, t) == p \o <<Sep>> \o t
Keys == {Key(p, t) : p \in Paths, t \in MapTypes}
OSCMapping == [path : Paths, types : MapTypes, method : Methods]

Addresses == Paths \X Types

HoldsSep(t) == \E j \in 1 .. Len(t) : t[j] = Sep

ASSUME NoMappingAssumption == NoMapping \notin OSCMapping \cup Methods

\* Mutant: the erase is forgotten.
EraseNothing(map, k) == map

Erase(map, k) == [map EXCEPT ![k] = NoMapping]
\* std::map::insert leaves an existing entry alone.
Insert(map, k, o) == IF map[k] = NoMapping THEN [map EXCEPT ![k] = o] ELSE map

Mapped == {k \in Keys : osc_map[k] # NoMapping}

Init ==
  /\ osc_map = [k \in Keys |-> NoMapping]
  /\ luaFn \in [Methods -> {"absent", "returns", "raises"}]
  /\ luaTop = 0
  /\ failures = 0
  /\ crashed = FALSE
  /\ lastCall = NoCall
  /\ asked = [a \in Addresses |-> NoMapping]

\* /eval: the script text may define, replace or remove a function, or fail.
\* LuaState::do_command reports an error itself; whether it leaves the
\* message on the stack is not this repository's code.
Eval(m) ==
  /\ ~crashed
  /\ \/ \E b \in {"absent", "returns", "raises"} :
          /\ luaFn' = [luaFn EXCEPT ![m] = b]
          /\ UNCHANGED <<luaTop, failures>>
     \/ /\ failures < MaxFailures
        /\ failures' = failures + 1
        /\ luaTop' \in {luaTop, luaTop + 1}
        /\ UNCHANGED luaFn
  /\ UNCHANGED <<osc_map, crashed, lastCall, asked>>

\* What is asked for each address after a request for p, t.  A request with a
\* separator in its types asks, besides, that the address whose key it makes
\* is unbound: the one way in which a request reaches another address.
Asked(p, t, m) ==
  [a \in Addresses |->
     IF a = <<p, t>> THEN m
     ELSE IF HoldsSep(t) /\ Key(a[1], a[2]) = Key(p, t) THEN NoMapping
     ELSE asked[a]]

MapAdd(p, t, m) ==
  /\ ~crashed
  /\ Cardinality(Mapped \ {Key(p, t)}) < MaxMappings
  /\ osc_map' = Insert(Erase(osc_map, Key(p, t)), Key(p, t),
                       [path |-> p, types |-> t, method |-> m])
  /\ asked' = Asked(p, t, m)
  /\ UNCHANGED <<luaFn, luaTop, failures, crashed, lastCall>>

MapRemove(p, t) ==
  /\ ~crashed
  /\ osc_map' = Erase(osc_map, Key(p, t))
  /\ asked' = Asked(p, t, NoMapping)
  /\ UNCHANGED <<luaFn, luaTop, failures, crashed, lastCall>>

MapClear ==
  /\ ~crashed
  /\ osc_map' = [k \in Keys |-> NoMapping]
  /\ asked' = [a \in Addresses |-> NoMapping]
  /\ UNCHANGED <<luaFn, luaTop, failures, crashed, lastCall>>

-----------------------------------------------------------------------------
(* cb_osc_catchall.                                                        *)

\* Mutant: the first mapping of the path, whatever its types.
EntryByPath(p, t) ==
  LET same == {k \in Mapped : osc_map[k].path = p} IN
  IF same = {} THEN NoMapping ELSE osc_map[CHOOSE k \in same : TRUE]

Entry(p, t) == osc_map[Key(p, t)]

\* The positions for which lua_push_lo_type pushes nothing.
NotPushed(o) == {w \in 1 .. Len(o.types) : o.types[w] \notin Supported}

\* Mutant: the results of the function are kept (LUA_MULTRET).
LeavesResult(m) == 1

\* What lua_pcall leaves for a function: nothing, or its error message.
Leaves(m) == IF luaFn[m] = "raises" THEN 1 ELSE 0

\* Mutant: the function is called without protection.
EnterUnprotected(p, t, o) ==
  /\ NotPushed(o) = {}
  /\ lastCall' = [path |-> p, types |-> t, method |-> o.method, args |-> o.types]
  /\ crashed' = (luaFn[o.method] = "raises")
  /\ UNCHANGED <<luaTop, failures>>

\* Every argument was pushed: the function is what lua_pcall finds below
\* them, and it runs.
EnterMethod(p, t, o) ==
  /\ NotPushed(o) = {}
  /\ lastCall' = [path |-> p, types |-> t, method |-> o.method, args |-> o.types]
  /\ luaFn[o.method] = "raises" => failures < MaxFailures
  /\ failures' = IF luaFn[o.method] = "raises" THEN failures + 1 ELSE failures
  /\ luaTop' = luaTop + Leaves(o.method)
  /\ UNCHANGED crashed

\* Mutant: the message is taken for one of the slots of the call.
TopAfterWrongCallShort(missing) == luaTop - missing

\* The slots taken for function and arguments give way to the error message.
TopAfterWrongCall(missing) == (luaTop + 1) - missing

\* The positions at which lua_push_lo_type reads from argv what the message
\* does not have: beyond argc, or as another type.  Undefined.
Misread(t, o) ==
  {w \in 1 .. Len(o.types) :
     o.types[w] \in ReadTags /\ (w > Len(t) \/ o.types[w] # t[w])}

\* Some argument was not pushed although lua_pcall is told to expect it:
\* what it finds in the function's place is one slot lower for each of them,
\* an old error message or the bottom of the stack, which cannot be called.
\* Taking more slots than there are is undefined.
CallWrongSlot(t, o) ==
  LET missing == Cardinality(NotPushed(o)) IN
  /\ missing > 0
  /\ failures < MaxFailures
  /\ failures' = failures + 1
  /\ luaTop' = IF missing <= luaTop + 1 THEN TopAfterWrongCall(missing) ELSE 0
  /\ \/ UNCHANGED crashed
     \/ (missing > luaTop + 1 \/ Misread(t, o) # {}) /\ crashed' = TRUE
  /\ UNCHANGED lastCall

TryMethod(p, t, o) ==
  /\ o # NoMapping
  /\ luaFn[o.method] # "absent"
  /\ EnterMethod(p, t, o) \/ CallWrongSlot(t, o)
  /\ UNCHANGED <<osc_map, luaFn, asked>>

\* Without a mapping or a function of its name there is only a warning.
Catchall(p, t) ==
  /\ ~crashed
  /\ ~TakenByBuiltin(p, t)
  /\ TryMethod(p, t, Entry(p, t))

Next ==
  \/ \E m \in Methods : Eval(m)
  \/ \E p \in Paths, t \in MapTypes, m \in Methods : MapAdd(p, t, m)
  \/ \E p \in Paths, t \in MapTypes : MapRemove(p, t)
  \/ MapClear
  \/ \E p \in Paths, t \in Types : Catchall(p, t)

Spec == Init /\ [][Next]_vars

-----------------------------------------------------------------------------
(* Properties.                                                             *)

CallRecord ==
  [path : Paths, types : Types, method : Methods, args : MapTypes]

\* The state has its type: every key is absent or holds a mapping made by
\* /map/add, and the counters are naturals (cso.cc, osc_map and lua_State).
TypeOK ==
  /\ osc_map \in [Keys -> OSCMapping \cup {NoMapping}]
  /\ luaFn \in [Methods -> {"absent", "returns", "raises"}]
  /\ luaTop \in Nat
  /\ failures \in 0 .. MaxFailures
  /\ crashed \in BOOLEAN
  /\ lastCall \in CallRecord \cup {NoCall}
  /\ asked \in [Addresses -> Methods \cup {NoMapping}]

\* What the catch-all finds under the key of a message is a mapping of that
\* message's path and types, or one that was added with a separator in its
\* types: the key "path;types" is confused in no other way.
KeyedByAddress ==
  \A p \in Paths, t \in Types :
    LET o == osc_map[Key(p, t)] IN
    o # NoMapping => (o.path = p /\ o.types = t) \/ HoldsSep(o.types)

\* A mapped Lua function is entered with the message's arguments, all of
\* them, in order and each read as the type it was sent as, also when the
\* entry under the message's key was added for another path and with other
\* types.  (cb_osc_catchall goes by o->types, whatever the length of the
\* message, and then does read argv beyond argc: what keeps the function from
\* being entered is only that the separator is not a tag it can push.)
ExactArguments ==
  lastCall # NoCall => lastCall.args = lastCall.types

\* A message that a built-in handler takes never enters a mapped function,
\* whatever /map/add put into the table.
SignaturesReserved ==
  lastCall # NoCall => ~TakenByBuiltin(lastCall.path, lastCall.types)

\* The comment in register_osc_callbacks and the README: "the above pathes
\* can't be re-defined in lua".  (Refuted: only the signatures are safe.)
BuiltinPathsReserved ==
  lastCall # NoCall => lastCall.path \notin BuiltinPaths

\* cb_osc_catchall never pops the error message of a failed call.  What
\* accumulates on the Lua stack is at most one slot for each failed call:
\* successful calls, mappings and lookups leave nothing, and a call that goes
\* to the wrong slot takes at least as much as it leaves.
StackLeakBounded == luaTop <= failures

\* A failing call does not take the host down, but for two kinds of mapping:
\* one with two or more unsupported tags, more than there are slots to mistake
\* for its function, and one with a separator in its types, which the
\* catch-all finds for a message with fewer arguments than it then reads.
CallErrorsContained ==
  [][crashed' # crashed =>
       \E k \in Mapped : \/ Cardinality(NotPushed(osc_map[k])) >= 2
                         \/ HoldsSep(osc_map[k].types)]_vars

\* The dispatch implements the abstract mapping table.  An address is bound by
\* a mapping of its own; one of another address under its key leaves it
\* unbound, so that the request which put it there unbinds the address.
Bindings ==
  [a \in Addresses |->
     LET o == osc_map[Key(a[1], a[2])] IN
     IF o # NoMapping /\ o.path = a[1] /\ o.types = a[2]
       THEN o.method ELSE NoMapping]
Table == INSTANCE OscMap WITH bind <- Bindings, NoMethod <- NoMapping
ImplementsOscMap == Table!Spec

\* The latest request for an address wins: the table binds every address to
\* what was last asked for it (cb_osc_map_add erases before it inserts,
\* because std::map::insert would keep an old entry).  Another address's
\* request reaches it only with a separator in its types, and then unbinds it:
\* cb_osc_map_add and cb_osc_map_remove take that string as it comes.
LatestRequestWins == Bindings = asked
=============================================================================
