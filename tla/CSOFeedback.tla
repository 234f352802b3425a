---------------------------- MODULE CSOFeedback ----------------------------
(***************************************************************************)
(* Settings and hooks of the CSO control surface (libs/surfaces/cso/cso.cc *)
(* with the defaults of cso.lua): the output flags, the feedback and print *)
(* addresses that OSC clients set, and the Lua functions of fixed name     *)
(* that C++ calls without protection, on /connect, /print/osc/address, a   *)
(* signal of the session or the timer.                                     *)
(*                                                                         *)
(* The address feedback is sent to exists twice: feedback_address in C++,  *)
(* and surface_tx, the one sendme() uses, in Lua.  A hook of cso.lua, which*)
(* scripts may override, carries the one into the other.                   *)
(***************************************************************************)
EXTENDS Naturals, Sequences

CONSTANTS
  Hosts,        \* host and port of OSC peers
  SurfaceHost,  \* localhost:9000
  PrintHost,    \* localhost:9001
  SignalHooks   \* cso_timer1 and the on_ardour_... functions

ASSUME HostsAssumption == SurfaceHost \in Hosts /\ PrintHost \in Hosts

FeedbackHook == "cso_on_feedback_address_changed"
PrintHook == "cso_on_print_address_changed"
Hooks == SignalHooks \cup {FeedbackHook, PrintHook}

VARIABLES
  osc_debug_enabled, lua_print_stderr_enabled, lua_print_osc_enabled,
  feedback_address, print_address, \* C++: lo_address
  surface_tx,  \* Lua: the address sendme() sends to
  hookFn,      \* what the Lua function of each hook does
  crashed,     \* the host process is gone
  touched      \* history: a script replaced FeedbackHook or set surface_tx

flags == <<osc_debug_enabled, lua_print_stderr_enabled, lua_print_osc_enabled>>
vars == <<flags, feedback_address, print_address, surface_tx, hookFn,
          crashed, touched>>

\* Mutant: lo_address_new gets no host.
OwnedNowhere(h) == [host |-> "NULL", owned |-> TRUE]

\* An address made by lo_address_new belongs to the surface; the source of a
\* message is freed by liblo once its handler has returned.
Owned(h) == [host |-> h, owned |-> TRUE]
SourceOf(h) == [host |-> h, owned |-> FALSE]

Behaviours == {"absent", "default", "returns", "raises"}

Init ==
  /\ osc_debug_enabled \in BOOLEAN       \* cso_params
  /\ lua_print_stderr_enabled = TRUE
  /\ lua_print_osc_enabled = FALSE
  /\ feedback_address = Owned(SurfaceHost)
  /\ print_address = Owned(PrintHost)
  /\ surface_tx = SurfaceHost
  /\ hookFn = [h \in Hooks |-> "default"]
  /\ crashed = FALSE
  /\ touched = FALSE

\* LuaRef() lets the error of a Lua function escape as an exception that
\* nobody catches.  A function that is not there is only warned about.
CallHook(h) == crashed' = (hookFn[h] = "raises")

-----------------------------------------------------------------------------
(* OSC handlers.                                                           *)

\* Mutant: /print/osc/address registered with NULL, like /connect.
RegisteredForAny(path, types) == TRUE

\* The types a handler is registered for; NULL takes any.
RegisteredFor(path, types) ==
  path = "/print/osc/address" => types = <<"s", "i">>

\* int_from_argv_iTF on the first tag of the message and its int argument.
IntFromArgv(types, i) ==
  IF types # <<>> /\ (types[1] = "T" \/ (types[1] = "i" /\ i = 1)) THEN 1 ELSE 0

SetBoolFromInt(i) == i # 0

OscDebug(types, i) ==
  /\ ~crashed
  /\ osc_debug_enabled' = SetBoolFromInt(IntFromArgv(types, i))
  /\ UNCHANGED <<lua_print_stderr_enabled, lua_print_osc_enabled,
                 feedback_address, print_address, surface_tx, hookFn, crashed, touched>>

OscPrint(types, i) ==
  /\ ~crashed
  /\ lua_print_stderr_enabled' = SetBoolFromInt(IntFromArgv(types, i))
  /\ UNCHANGED <<osc_debug_enabled, lua_print_osc_enabled,
                 feedback_address, print_address, surface_tx, hookFn, crashed, touched>>

OscPrintOsc(types, i) ==
  /\ ~crashed
  /\ lua_print_osc_enabled' = SetBoolFromInt(IntFromArgv(types, i))
  /\ UNCHANGED <<osc_debug_enabled, lua_print_stderr_enabled,
                 feedback_address, print_address, surface_tx, hookFn, crashed, touched>>

\* Mutant: the hook of cso.lua makes no new address.
SurfaceKept(addr) == surface_tx

\* The hook of cso.lua follows the address; another does what it likes.
SurfaceAfter(addr) ==
  IF hookFn[FeedbackHook] = "default" THEN addr.host ELSE surface_tx

SetFeedbackAddress(addr) ==
  /\ feedback_address' = addr
  /\ surface_tx' = SurfaceAfter(addr)
  /\ CallHook(FeedbackHook)
  /\ UNCHANGED <<flags, print_address, hookFn, touched>>

SetPrintAddress(addr) ==
  /\ print_address' = addr
  /\ CallHook(PrintHook)
  /\ UNCHANGED <<flags, feedback_address, surface_tx, hookFn, touched>>

\* /connect without arguments takes the sender's address, with "si" the one
\* in the message (arg), and ignores anything else.
OscConnect(types, sender, arg) ==
  /\ ~crashed
  /\ RegisteredFor("/connect", types)
  /\ \/ types = <<>> /\ SetFeedbackAddress(SourceOf(sender))
     \/ types = <<"s", "i">> /\ SetFeedbackAddress(Owned(arg))

\* The same two cases in the code, but the handler is registered for "si".
OscPrintOscAddress(types, sender, arg) ==
  /\ ~crashed
  /\ RegisteredFor("/print/osc/address", types)
  /\ \/ types = <<>> /\ SetPrintAddress(SourceOf(sender))
     \/ types = <<"s", "i">> /\ SetPrintAddress(Owned(arg))

-----------------------------------------------------------------------------
(* Signals of the session, the timer, and what scripts may change.         *)

OnSignal(h) ==
  /\ ~crashed
  /\ CallHook(h)
  /\ UNCHANGED <<flags, feedback_address, print_address, surface_tx, hookFn, touched>>

\* print() in any Lua code.  With the address of a message's source lo_send
\* would use freed memory, which may go well or not.
LuaPrint ==
  /\ ~crashed
  /\ IF lua_print_osc_enabled /\ ~print_address.owned
     THEN crashed' \in BOOLEAN ELSE UNCHANGED crashed
  /\ UNCHANGED <<flags, feedback_address, print_address, surface_tx, hookFn, touched>>

ScriptSetsHook(h, b) ==
  /\ ~crashed
  /\ hookFn' = [hookFn EXCEPT ![h] = b]
  /\ touched' = (touched \/ (h = FeedbackHook /\ b # "default"))
  /\ UNCHANGED <<flags, feedback_address, print_address, surface_tx, crashed>>

ScriptSetsSurface(host) ==
  /\ ~crashed
  /\ surface_tx' = host
  /\ touched' = TRUE
  /\ UNCHANGED <<flags, feedback_address, print_address, hookFn, crashed>>

Next ==
  \/ \E types \in {<<>>, <<"i">>, <<"T">>, <<"F">>}, i \in 0 .. 2 :
       OscDebug(types, i) \/ OscPrint(types, i) \/ OscPrintOsc(types, i)
  \/ \E types \in {<<>>, <<"s", "i">>}, sender \in Hosts, arg \in Hosts :
       OscConnect(types, sender, arg) \/ OscPrintOscAddress(types, sender, arg)
  \/ LuaPrint
  \/ \E h \in SignalHooks : OnSignal(h)
  \/ \E h \in Hooks, b \in Behaviours : ScriptSetsHook(h, b)
  \/ \E host \in Hosts : ScriptSetsSurface(host)

Spec == Init /\ [][Next]_vars

-----------------------------------------------------------------------------
(* Properties.                                                             *)

Address == [host : Hosts, owned : BOOLEAN]

\* The state has its type (the members of CSO that the handlers assign).
TypeOK ==
  /\ {osc_debug_enabled, lua_print_stderr_enabled, lua_print_osc_enabled,
      crashed, touched} \subseteq BOOLEAN
  /\ feedback_address \in Address
  /\ print_address \in Address
  /\ surface_tx \in Hosts
  /\ hookFn \in [Hooks -> Behaviours]

\* The address lua_print reads long after the message that set it is gone is
\* one the surface owns.
PrintAddressOwned == print_address.owned

\* Until a script replaces the hook or assigns surface_tx, sendme() in Lua
\* sends to the address C++ reports as the feedback address: the defaults of
\* cso.cc and cso.lua agree, and every /connect goes through the hook.
FeedbackAgrees == ~touched => surface_tx = feedback_address.host

\* cso.lua: "there is no error if a function for a signal is not defined".
\* The host goes down only while a hook that is there raises an error.  In
\* particular no print() takes it down: cb_osc_print_osc_address would store
\* the address of the message's source, as cb_osc_connect does, and only the
\* types it is registered with keep that branch from being reached.
OnlyRaisingHooksCrash ==
  [][crashed' # crashed => \E h \in Hooks : hookFn[h] = "raises"]_vars
=============================================================================
