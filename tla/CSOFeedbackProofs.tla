------------------------- MODULE CSOFeedbackProofs -------------------------
(***************************************************************************)
(* Proofs about CSOFeedback, for every set of peers and signal hooks.      *)
(***************************************************************************)
EXTENDS CSOFeedback, TLAPS

\* Why the two addresses agree: an untouched hook is the one of cso.lua.
HookIntact == ~touched => hookFn[FeedbackHook] = "default"

\* The type invariant and the safety properties, inductive together.
Inv == TypeOK /\ HookIntact /\ PrintAddressOwned /\ FeedbackAgrees

\* The defaults of cso.cc and cso.lua satisfy the invariant.
LEMMA InvInit == Init => Inv
<1> SUFFICES ASSUME Init PROVE Inv
  OBVIOUS
<1>1. HookIntact /\ PrintAddressOwned /\ FeedbackAgrees
  BY DEF Init, HookIntact, PrintAddressOwned, FeedbackAgrees, Owned, Hooks
<1>2. TypeOK
  <2>1. {osc_debug_enabled, lua_print_stderr_enabled, lua_print_osc_enabled,
         crashed, touched} \subseteq BOOLEAN
    BY DEF Init
  <2>2. feedback_address \in Address /\ print_address \in Address /\ surface_tx \in Hosts
    BY HostsAssumption DEF Init, Owned, Address
  <2>3. hookFn \in [Hooks -> Behaviours]
    BY DEF Init, Behaviours
  <2> QED
    BY <2>1, <2>2, <2>3 DEF TypeOK
<1> QED
  BY <1>1, <1>2 DEF Inv

\* Every handler, hook and script action keeps the invariant.
LEMMA InvStep ==
  ASSUME Inv, [Next]_vars
  PROVE  Inv'
<1> USE DEF Inv, TypeOK, HookIntact, PrintAddressOwned, FeedbackAgrees
<1>1. ASSUME NEW types, NEW i,
             OscDebug(types, i) \/ OscPrint(types, i) \/ OscPrintOsc(types, i)
      PROVE  Inv'
  BY <1>1 DEF OscDebug, OscPrint, OscPrintOsc, SetBoolFromInt
<1>2. ASSUME NEW types, NEW sender \in Hosts, NEW arg \in Hosts,
             OscConnect(types, sender, arg)
      PROVE  Inv'
  <2>1. PICK addr \in Address : SetFeedbackAddress(addr)
    BY <1>2 DEF OscConnect, Address, Owned, SourceOf
  <2>2. addr.host \in Hosts
    BY DEF Address
  <2>3. FeedbackAgrees' /\ HookIntact' /\ PrintAddressOwned'
    BY <2>1 DEF SetFeedbackAddress, SurfaceAfter
  <2>4. surface_tx' \in Hosts
    BY <2>1, <2>2 DEF SetFeedbackAddress, SurfaceAfter
  <2>5. crashed' \in BOOLEAN
    BY <2>1 DEF SetFeedbackAddress, CallHook
  <2>6. feedback_address' \in Address
        /\ UNCHANGED <<osc_debug_enabled, lua_print_stderr_enabled, lua_print_osc_enabled,
                       print_address, hookFn, touched>>
    BY <2>1 DEF SetFeedbackAddress, flags
  <2> QED
    BY <2>3, <2>4, <2>5, <2>6
<1>3. ASSUME NEW types, NEW sender \in Hosts, NEW arg \in Hosts,
             OscPrintOscAddress(types, sender, arg)
      PROVE  Inv'
  <2>1. types = <<"s", "i">> /\ types # <<>>
    <3>1. types = <<"s", "i">>
      BY <1>3, Zenon DEF OscPrintOscAddress, RegisteredFor
    <3> QED
      BY <3>1
  <2>2. SetPrintAddress(Owned(arg))
    BY <1>3, <2>1 DEF OscPrintOscAddress
  <2>3. Owned(arg) \in Address /\ Owned(arg).owned
    BY DEF Owned, Address
  <2>4. crashed' \in BOOLEAN
    BY <2>2 DEF SetPrintAddress, CallHook
  <2> QED
    BY <2>2, <2>3, <2>4 DEF SetPrintAddress, flags
<1>4. ASSUME NEW h \in SignalHooks, OnSignal(h)
      PROVE  Inv'
  <2>1. crashed' \in BOOLEAN
    BY <1>4 DEF OnSignal, CallHook
  <2> QED
    BY <1>4, <2>1 DEF OnSignal, flags
<1>5. ASSUME NEW h \in Hooks, NEW b \in Behaviours, ScriptSetsHook(h, b)
      PROVE  Inv'
  <2>1. HookIntact'
    <3>1. touched' = (touched \/ (h = FeedbackHook /\ b # "default"))
      BY <1>5 DEF ScriptSetsHook
    <3>2. hookFn' = [hookFn EXCEPT ![h] = b] /\ FeedbackHook \in Hooks
      BY <1>5 DEF ScriptSetsHook, Hooks
    <3>3. CASE h = FeedbackHook
      BY <3>1, <3>2, <3>3
    <3>4. CASE h # FeedbackHook
      <4>1. hookFn'[FeedbackHook] = hookFn[FeedbackHook]
        BY <3>2, <3>4
      <4> QED
        BY <3>1, <3>4, <4>1
    <3> QED
      BY <3>3, <3>4
  <2>2. touched' \in BOOLEAN /\ (touched => touched')
    BY <1>5 DEF ScriptSetsHook
  <2> QED
    BY <1>5, <2>1, <2>2 DEF ScriptSetsHook, flags
<1>6. ASSUME NEW host \in Hosts, ScriptSetsSurface(host)
      PROVE  Inv'
  BY <1>6 DEF ScriptSetsSurface, flags
<1>8. CASE LuaPrint
  <2>1. crashed' \in BOOLEAN
    BY <1>8 DEF LuaPrint
  <2> QED
    BY <1>8, <2>1 DEF LuaPrint, flags
<1>7. CASE UNCHANGED vars
  BY <1>7 DEF vars, flags
<1> QED
  BY <1>1, <1>2, <1>3, <1>4, <1>5, <1>6, <1>7, <1>8 DEF Next

\* All parts of the invariant hold in every reachable state.
THEOREM Invariance == Spec => []Inv
BY InvInit, InvStep, PTL DEF Spec

\* The state has its type (TypeOK).
THEOREM TypeCorrect == Spec => []TypeOK
BY Invariance, PTL DEF Inv

\* print() never sends to an address that liblo has freed (PrintAddressOwned):
\* cb_osc_print_osc_address is only ever called with "si".
THEOREM PrintAddressSafe == Spec => []PrintAddressOwned
BY Invariance, PTL DEF Inv

\* As long as scripts leave hook and surface_tx alone, sendme() sends to the
\* feedback address that set_feedback_address reports (FeedbackAgrees).
THEOREM FeedbackFollowsConnect == Spec => []FeedbackAgrees
BY Invariance, PTL DEF Inv

\* A hook that is not defined is harmless; the host is lost only by a hook that
\* raises an error (OnlyRaisingHooksCrash, on_signal_generic).
THEOREM AbsentHooksHarmless == Spec => OnlyRaisingHooksCrash
<1>1. Inv /\ [Next]_vars =>
        [crashed' # crashed => \E h \in Hooks : hookFn[h] = "raises"]_vars
  <2> SUFFICES ASSUME Inv, Next, crashed' # crashed
               PROVE  \E h \in Hooks : hookFn[h] = "raises"
    OBVIOUS
  <2>1. \E h \in Hooks : CallHook(h) /\ ~crashed
    BY DEF Inv, PrintAddressOwned, LuaPrint, Next, OscDebug, OscPrint, OscPrintOsc, OscConnect, OscPrintOscAddress,
           SetFeedbackAddress, SetPrintAddress, OnSignal, ScriptSetsHook,
           ScriptSetsSurface, Hooks
  <2> QED
    BY <2>1 DEF CallHook, Inv, TypeOK
<1> QED
  BY <1>1, Invariance, PTL DEF Spec, OnlyRaisingHooksCrash
=============================================================================
