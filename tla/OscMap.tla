------------------------------- MODULE OscMap -------------------------------
(***************************************************************************)
(* What the custom OSC mappings of a CSO promise to the author of a        *)
(* surface script: an address, that is a path together with the exact type *)
(* tags of the message, is bound to at most one Lua function; the latest   *)
(* /map/add for an address wins; a function is entered only on behalf of   *)
(* an address that is bound to it at that moment, and receives exactly the *)
(* arguments the message carried.                                          *)
(*                                                                         *)
(* The module knows nothing of string keys, handler tables or the Lua      *)
(* stack.  CSODispatch implements it, and so does SurfaceStart.            *)
(***************************************************************************)
CONSTANTS Paths,    \* OSC paths
          Types,    \* type tag strings
          Methods,  \* names of Lua functions
          NoMethod, \* the value of an unbound address, no method
          NoCall    \* no function has been entered yet

VARIABLES bind,     \* address |-> Lua function bound to it, or NoMethod
          lastCall  \* the latest entry into a bound Lua function

vars == <<bind, lastCall>>

\* A call identifies the message (path and types), the function entered and
\* the arguments it got, each argument named by the type it was read as.
Call(p, t, m) == [path |-> p, types |-> t, method |-> m, args |-> t]

Init ==
  /\ bind = [a \in Paths \X Types |-> NoMethod]
  /\ lastCall = NoCall

Add(p, t, m) ==
  /\ bind' = [bind EXCEPT ![<<p, t>>] = m]
  /\ UNCHANGED lastCall

Remove(p, t) ==
  /\ bind' = [bind EXCEPT ![<<p, t>>] = NoMethod]
  /\ UNCHANGED lastCall

Clear ==
  /\ bind' = [a \in Paths \X Types |-> NoMethod]
  /\ UNCHANGED lastCall

Invoke(p, t) ==
  /\ bind[<<p, t>>] # NoMethod
  /\ lastCall' = Call(p, t, bind[<<p, t>>])
  /\ UNCHANGED bind

Next ==
  \/ \E p \in Paths, t \in Types : Remove(p, t) \/ Invoke(p, t)
  \/ \E p \in Paths, t \in Types, m \in Methods : Add(p, t, m)
  \/ Clear

Spec == Init /\ [][Next]_vars
=============================================================================
