---------------------------- MODULE CSOLifecycle ----------------------------
(***************************************************************************)
(* Threads and lifetime of the CSO control surface: libs/surfaces/cso,     *)
(* cso.cc and interface.cc, on top of BaseUI/AbstractUI, glib and liblo,   *)
(* which are external and modelled from how the surface uses them.         *)
(*                                                                         *)
(* The host thread creates the object, activates it (start) and deletes it *)
(* (stop).  The event loop thread, begun by start and joined by stop, waits*)
(* for three kinds of sources: the socket of the OSC server, the timer, and*)
(* the requests that signals of the session leave for it.  Both threads    *)
(* call into the one Lua state, and there is no lock around it.            *)
(***************************************************************************)
EXTENDS Naturals

CONSTANTS
  MaxInbox,    \* capacity of the server's socket; what exceeds it is lost
  MaxRequests, \* capacity of the request buffers; what exceeds it is lost
  MaxSignals,  \* bound: signals emitted in the life of an object
  QuitRequests,\* whether somebody sends the surface a Quit request
  IOErrors     \* whether the socket may report an error or a hangup

ASSUME LifecycleAssumption ==
  /\ MaxInbox \in Nat \ {0}
  /\ MaxRequests \in Nat \ {0}
  /\ MaxSignals \in Nat
  /\ QuitRequests \in BOOLEAN
  /\ IOErrors \in BOOLEAN

VARIABLES
  hostPc,      \* where the host thread is in the methods of the object
  evPc,        \* where the event loop thread is
  active,      \* ControlProtocol::_active
  osc_server,  \* "null", "open" or "freed"
  loopQuit,    \* the main loop was told to quit
  ready,       \* sources the current iteration still has to dispatch
  ioSource,    \* the socket's source is attached to the loop
  timer1,      \* the timer's source is attached
  timer1_interval_ms, \* from cso_params; only whether it is 0 matters
  session_connections,\* slots connected to the session's signals
  exported,    \* the slot connected to Exported, which is not one of them
  inbox,       \* datagrams in the socket
  requests,    \* requests waiting for the event loop
  emitted,     \* signals emitted so far
  ioError,     \* the socket is in error
  late,        \* which signals have called into the destroyed AbstractUI
  stopped,     \* history: the loop thread has begun to carry out a Quit request
  crashed      \* the host process is gone

hostVars == <<hostPc, active, timer1_interval_ms>>
loopVars == <<evPc, loopQuit, ready, ioSource>>
wiring == <<timer1, session_connections, exported>>
outside == <<inbox, requests, emitted, ioError, late, stopped>>
vars == <<hostVars, loopVars, wiring, outside, osc_server, crashed>>

HostInLua == hostPc \in {"cso_start", "cso_shutdown"}
EventInLua == evPc \in {"osc", "timer", "slot", "cso_shutdown"}

\* Two threads in one Lua state is a data race: it may go well or not.
HostEntersLua == IF EventInLua THEN crashed' \in BOOLEAN ELSE UNCHANGED crashed
EventEntersLua == IF HostInLua THEN crashed' \in BOOLEAN ELSE UNCHANGED crashed

Sources == {"io", "io_error", "timer", "requests"}

\* Mutants: the timer is attached before cso_start is called, or not at all.
StartOrderTimerFirst ==
  [run |-> "add_timer", add_timer |-> "cso_start", cso_start |-> "connect", connect |-> "idle"]
StartOrderNoTimer ==
  [run |-> "cso_start", cso_start |-> "connect", add_timer |-> "connect", connect |-> "idle"]

\* What start does after each of its steps.
StartOrder ==
  [run |-> "cso_start", cso_start |-> "add_timer", add_timer |-> "connect", connect |-> "idle"]

\* Mutants: the thread is told to quit but not joined; the server is freed
\* before the thread is joined.
StopOrderUnjoined == [quit |-> "free", join |-> "free", free |-> "destroy_ui"]
StopOrderFreeFirst == [quit |-> "free", free |-> "join", join |-> "destroy_ui"]

\* What stop does after each of its steps.
StopOrder == [quit |-> "join", join |-> "free", free |-> "destroy_ui"]

\* Mutant: the connections are left alone.
DropNothing == UNCHANGED session_connections

\* stop: session_connections.drop_connections.
DropConnections == session_connections' = FALSE

\* Mutant: the test is inverted.
NoServer == osc_server = "null"

\* thread_init binds the socket's source to the server it finds, if any.
ServerThere == osc_server # "null"

\* Mutant: quit does not look whether the loop runs.
LoopAssumedRunning == TRUE

LoopRunning == evPc \notin {"none", "ended"} /\ ~loopQuit

Init ==
  /\ hostPc = "none" /\ evPc = "none" /\ active = FALSE
  /\ osc_server = "null" /\ loopQuit = FALSE /\ ready = {}
  /\ ioSource = FALSE /\ timer1 = FALSE /\ timer1_interval_ms = 250
  /\ session_connections = FALSE /\ exported = FALSE
  /\ inbox = 0 /\ requests = 0 /\ emitted = 0 /\ ioError = FALSE
  /\ late = {} /\ stopped = FALSE /\ crashed = FALSE

-----------------------------------------------------------------------------
(* Host thread: construction and activation.                               *)

\* new CSO: lua_init runs the scripts while no other thread knows the object.
New ==
  /\ hostPc = "none"
  /\ hostPc' = "idle"
  /\ timer1_interval_ms' \in {0, 250}
  /\ UNCHANGED <<active, loopVars, wiring, outside, osc_server, crashed>>

\* set_active(false) only clears the flag.
Deactivate ==
  /\ hostPc = "idle"
  /\ active
  /\ active' = FALSE
  /\ UNCHANGED <<hostPc, timer1_interval_ms, loopVars, wiring, outside,
                 osc_server, crashed>>

\* set_active(true) of a surface that has a server: start has nothing to do.
Reactivate ==
  /\ hostPc = "idle"
  /\ ~active
  /\ osc_server # "null"
  /\ active' = TRUE
  /\ UNCHANGED <<hostPc, timer1_interval_ms, loopVars, wiring, outside,
                 osc_server, crashed>>

\* set_active(true) otherwise: lo_server_new fails, or start goes on with the
\* built-in handlers and BaseUI::run, which begins the event loop thread.
Activate ==
  /\ hostPc = "idle"
  /\ ~active
  /\ osc_server = "null"
  /\ \/ UNCHANGED <<hostPc, osc_server, evPc>>
     \/ /\ osc_server' = "open"
        /\ hostPc' = "run"
        /\ evPc' = "init"
  /\ UNCHANGED <<active, timer1_interval_ms, loopQuit, ready, ioSource, wiring,
                 outside, crashed>>

\* BaseUI::run returns when the loop runs.  start then calls cso_start.
RunReturns ==
  /\ hostPc = "run"
  /\ evPc \notin {"none", "init"}
  /\ hostPc' = StartOrder["run"]
  /\ HostEntersLua
  /\ UNCHANGED <<active, timer1_interval_ms, loopVars, wiring, outside, osc_server>>

StartReturns ==
  /\ hostPc = "cso_start"
  /\ hostPc' = StartOrder["cso_start"]
  /\ UNCHANGED <<active, timer1_interval_ms, loopVars, wiring, outside,
                 osc_server, crashed>>

AddTimer ==
  /\ hostPc = "add_timer"
  /\ timer1' = (timer1_interval_ms > 0)
  /\ hostPc' = StartOrder["add_timer"]
  /\ UNCHANGED <<active, timer1_interval_ms, loopVars, session_connections,
                 exported, outside, osc_server, crashed>>

\* register_signal_callbacks; set_active then sets the flag.
ConnectSignals ==
  /\ hostPc = "connect"
  /\ session_connections' = TRUE
  /\ exported' = TRUE
  /\ active' = TRUE
  /\ hostPc' = StartOrder["connect"]
  /\ UNCHANGED <<timer1_interval_ms, loopVars, timer1, outside, osc_server, crashed>>

-----------------------------------------------------------------------------
(* Host thread: destruction.  The destructor of CSO is stop().             *)

\* stop: drop_connections, then cso_shutdown, whether start was called or not.
Delete ==
  /\ hostPc = "idle"
  /\ hostPc' = "cso_shutdown"
  /\ DropConnections
  /\ HostEntersLua
  /\ UNCHANGED <<active, timer1_interval_ms, loopVars, timer1, exported,
                 outside, osc_server>>

\* BaseUI::quit tells a running loop to quit and joins its thread.
Quit ==
  /\ hostPc = "cso_shutdown"
  /\ IF LoopRunning
     THEN loopQuit' = TRUE /\ hostPc' = StopOrder["quit"]
     ELSE hostPc' = StopOrder["join"] /\ UNCHANGED loopQuit
  /\ UNCHANGED <<active, timer1_interval_ms, evPc, ready, ioSource, wiring,
                 outside, osc_server, crashed>>

Join ==
  /\ hostPc = "join"
  /\ evPc = "ended"
  /\ hostPc' = StopOrder["join"]
  /\ UNCHANGED <<active, timer1_interval_ms, loopVars, wiring, outside,
                 osc_server, crashed>>

\* lo_server_free takes a null pointer.  The member keeps its value, and what
\* comes of freeing the same server again is undefined.
LoServerFree ==
  /\ osc_server' = IF osc_server = "open" THEN "freed" ELSE osc_server
  /\ inbox' = 0
  /\ IF osc_server = "freed" THEN crashed' \in BOOLEAN ELSE UNCHANGED crashed

FreeServer ==
  /\ hostPc = "free"
  /\ LoServerFree
  /\ hostPc' = StopOrder["free"]
  /\ UNCHANGED <<active, timer1_interval_ms, loopVars, wiring, requests,
                 emitted, ioError, late, stopped>>

\* The bases are destroyed in reverse: AbstractUI with its loop first, then
\* ControlProtocol with the list of connections Exported is in.  What becomes
\* of a thread that still uses the loop is undefined.
DestroyUI ==
  /\ hostPc = "destroy_ui"
  /\ hostPc' = "destroy_cp"
  /\ evPc' = "none" /\ loopQuit' = FALSE /\ ready' = {} /\ ioSource' = FALSE
  /\ timer1' = FALSE /\ requests' = 0
  /\ crashed' \in {FALSE, evPc \notin {"none", "ended"}}
  /\ UNCHANGED <<active, timer1_interval_ms, session_connections, exported,
                 inbox, emitted, ioError, late, stopped, osc_server>>

DestroyCP ==
  /\ hostPc = "destroy_cp"
  /\ hostPc' = "none" /\ active' = FALSE /\ exported' = FALSE
  /\ osc_server' = "null" /\ emitted' = 0 /\ ioError' = FALSE /\ late' = {}
  /\ stopped' = FALSE
  /\ UNCHANGED <<timer1_interval_ms, loopVars, timer1, session_connections,
                 inbox, requests, crashed>>

-----------------------------------------------------------------------------
(* Event loop thread.                                                      *)

\* thread_init attaches the socket's source; the loop then runs.
ThreadInit ==
  /\ evPc = "init"
  /\ ioSource' = ServerThere
  /\ evPc' = "poll"
  /\ UNCHANGED <<hostVars, loopQuit, ready, wiring, outside, osc_server, crashed>>

\* An iteration of the loop collects every source that is ready and then
\* dispatches each, in any order; between iterations a quit is noticed.
Poll ==
  /\ evPc = "poll"
  /\ ~loopQuit
  /\ \E due \in BOOLEAN :
       ready' = {s \in Sources :
                   \/ s = "io" /\ ioSource /\ inbox > 0 /\ ~ioError
                   \/ s = "io_error" /\ ioSource /\ ioError
                   \/ s = "timer" /\ timer1 /\ due
                   \/ s = "requests" /\ requests > 0}
  /\ evPc' = IF ready' = {} THEN "poll" ELSE "dispatch"
  /\ UNCHANGED <<hostVars, loopQuit, ioSource, wiring, outside, osc_server, crashed>>

LoopEnds ==
  /\ evPc = "poll"
  /\ loopQuit
  /\ evPc' = "ended"
  /\ UNCHANGED <<hostVars, loopQuit, ready, ioSource, wiring, outside,
                 osc_server, crashed>>

IterationEnds ==
  /\ evPc = "dispatch"
  /\ ready = {}
  /\ evPc' = "poll"
  /\ UNCHANGED <<hostVars, loopQuit, ready, ioSource, wiring, outside,
                 osc_server, crashed>>

\* Mutant: two messages are received for one readiness.
TwoReceived == inbox - 2

Received == inbox - 1

\* osc_input_handler: one message is received; its handler may call into Lua.
DispatchIO ==
  /\ evPc = "dispatch"
  /\ "io" \in ready
  /\ osc_server = "open"
  /\ ready' = ready \ {"io"}
  /\ inbox' = Received
  /\ \/ UNCHANGED <<evPc, crashed>>
     \/ evPc' = "osc" /\ EventEntersLua
  /\ UNCHANGED <<hostVars, loopQuit, ioSource, wiring, requests, emitted,
                 ioError, late, stopped, osc_server>>

\* osc_input_handler of a server that was freed meanwhile: undefined.
DispatchIOFreed ==
  /\ evPc = "dispatch"
  /\ "io" \in ready
  /\ osc_server = "freed"
  /\ ready' = ready \ {"io"}
  /\ crashed' \in BOOLEAN
  /\ UNCHANGED <<hostVars, evPc, loopQuit, ioSource, wiring, outside, osc_server>>

\* osc_input_handler: a condition other than input removes the source for good.
DispatchIOError ==
  /\ evPc = "dispatch"
  /\ "io_error" \in ready
  /\ ready' = ready \ {"io_error"}
  /\ ioSource' = FALSE
  /\ UNCHANGED <<hostVars, evPc, loopQuit, wiring, outside, osc_server, crashed>>

\* cb_timer1 returns true: the timer stays.
DispatchTimer ==
  /\ evPc = "dispatch"
  /\ "timer" \in ready
  /\ ready' = ready \ {"timer"}
  /\ evPc' = "timer"
  /\ EventEntersLua
  /\ UNCHANGED <<hostVars, loopQuit, ioSource, wiring, outside, osc_server>>

\* handle_ui_requests calls do_request for every request in the buffer.
DispatchRequest ==
  /\ evPc = "dispatch"
  /\ "requests" \in ready
  /\ requests > 0
  /\ requests' = requests - 1
  /\ \/ evPc' = "slot" /\ UNCHANGED <<session_connections, stopped>>
     \/ QuitRequests /\ evPc' = "cso_shutdown" /\ stopped' = TRUE /\ DropConnections
  /\ EventEntersLua
  /\ UNCHANGED <<hostVars, loopQuit, ready, ioSource, timer1, exported, inbox,
                 emitted, ioError, late, osc_server>>

RequestsDone ==
  /\ evPc = "dispatch"
  /\ "requests" \in ready
  /\ requests = 0
  /\ ready' = ready \ {"requests"}
  /\ UNCHANGED <<hostVars, evPc, loopQuit, ioSource, wiring, outside, osc_server, crashed>>

LuaReturns ==
  /\ evPc \in {"osc", "timer", "slot"}
  /\ evPc' = "dispatch"
  /\ UNCHANGED <<hostVars, loopQuit, ready, ioSource, wiring, outside,
                 osc_server, crashed>>

\* stop() on the loop's own thread: BaseUI::quit tells the loop to quit and
\* joins its thread, which is this one.  The join never returns (SelfJoin is
\* what glib does where the deadlock is detected).
QuitSelf ==
  /\ evPc = "cso_shutdown"
  /\ LoopRunning
  /\ loopQuit' = TRUE
  /\ evPc' = "self_join"
  /\ UNCHANGED <<hostVars, ready, ioSource, wiring, outside, osc_server, crashed>>

\* stop() on the loop's own thread when the host has told the loop to quit:
\* BaseUI::quit does nothing, stop frees the server and returns to the loop.
StopUnderLoop ==
  /\ evPc = "cso_shutdown"
  /\ ~LoopRunning
  /\ LoServerFree
  /\ evPc' = "dispatch"
  /\ UNCHANGED <<hostVars, loopQuit, ready, ioSource, wiring, requests, emitted,
                 ioError, late, stopped>>

SelfJoin ==
  /\ evPc = "self_join"
  /\ crashed' = TRUE
  /\ UNCHANGED <<hostVars, loopVars, wiring, outside, osc_server>>

-----------------------------------------------------------------------------
(* The rest of the program and the network.                                *)

\* A datagram arrives at the port; it is lost when the socket is full.
Datagram ==
  /\ osc_server = "open"
  /\ inbox < MaxInbox
  /\ inbox' = inbox + 1
  /\ UNCHANGED <<hostVars, loopVars, wiring, requests, emitted, ioError, late,
                 stopped, osc_server, crashed>>

\* A signal the surface is connected to leaves a request for the loop, or
\* nothing when the buffer is full.  After ~AbstractUI there is no loop.
Emit(signal) ==
  /\ IF signal = "Exported" THEN exported ELSE session_connections
  /\ emitted < MaxSignals
  /\ emitted' = emitted + 1
  /\ IF hostPc = "destroy_cp"
     THEN late' = late \cup {signal} /\ UNCHANGED requests
     ELSE /\ requests' = IF requests < MaxRequests THEN requests + 1 ELSE requests
          /\ UNCHANGED late
  /\ UNCHANGED <<hostVars, loopVars, wiring, inbox, ioError, stopped, osc_server,
                 crashed>>

SocketError ==
  /\ IOErrors
  /\ osc_server = "open"
  /\ ~ioError
  /\ ioError' = TRUE
  /\ UNCHANGED <<hostVars, loopVars, wiring, inbox, requests, emitted, late,
                 stopped, osc_server, crashed>>

-----------------------------------------------------------------------------
HostRuns == RunReturns \/ StartReturns \/ AddTimer \/ ConnectSignals
            \/ Quit \/ Join \/ FreeServer \/ DestroyUI \/ DestroyCP
EventRuns == ThreadInit \/ Poll \/ LoopEnds \/ IterationEnds \/ DispatchIO \/ DispatchIOFreed
             \/ DispatchIOError \/ DispatchTimer \/ DispatchRequest \/ RequestsDone \/ LuaReturns
             \/ QuitSelf \/ StopUnderLoop
Others == Datagram \/ (\E s \in {"Exported", "TransportStateChange"} : Emit(s))
          \/ SocketError

Next ==
  /\ ~crashed
  /\ \/ New \/ Activate \/ Reactivate \/ Deactivate \/ Delete
     \/ HostRuns \/ EventRuns \/ SelfJoin \/ Others

\* The threads are scheduled and Lua functions return.  Nobody has to create
\* or delete a surface, send it anything or break its socket.
Fairness == WF_vars(~crashed /\ HostRuns) /\ WF_vars(~crashed /\ EventRuns)

Spec == Init /\ [][Next]_vars /\ Fairness

-----------------------------------------------------------------------------
(* Properties.                                                             *)

HostPcs == {"none", "idle", "run", "cso_start", "add_timer", "connect",
            "cso_shutdown", "join", "free", "destroy_ui", "destroy_cp"}
EvPcs == {"none", "init", "poll", "dispatch", "osc", "timer", "slot",
          "cso_shutdown", "self_join", "ended"}
Signals == {"Exported", "TransportStateChange"}

\* The state has its type; the socket and the request buffer stay within
\* their capacities.
TypeOK ==
  /\ hostPc \in HostPcs /\ evPc \in EvPcs
  /\ osc_server \in {"null", "open", "freed"}
  /\ ready \subseteq Sources
  /\ timer1_interval_ms \in {0, 250}
  /\ active \in BOOLEAN /\ loopQuit \in BOOLEAN /\ ioSource \in BOOLEAN
  /\ timer1 \in BOOLEAN /\ session_connections \in BOOLEAN /\ exported \in BOOLEAN
  /\ ioError \in BOOLEAN /\ stopped \in BOOLEAN /\ crashed \in BOOLEAN
  /\ inbox \in 0 .. MaxInbox
  /\ requests \in 0 .. MaxRequests
  /\ emitted \in 0 .. MaxSignals
  /\ late \subseteq Signals

\* While the event loop thread can still receive, the server it is bound to is
\* open: it is there before the thread begins, and the host frees it after it
\* has joined the thread.  The one who can free it under the loop is the loop
\* itself, carrying out a Quit request while the host waits for it.
LoopOnLiveServer ==
  evPc \in {"init", "poll", "dispatch", "osc", "timer", "slot"} =>
    osc_server = "open" \/ (stopped /\ hostPc = "join")

\* Scripts build their state in cso_start.  The timer and the signals do not
\* call into Lua before it has returned, since start attaches them after it.
CallbacksAfterStart ==
  /\ evPc = "timer" => hostPc \notin {"none", "run", "cso_start", "add_timer"}
  /\ evPc = "slot" =>
       hostPc \notin {"none", "run", "cso_start", "add_timer", "connect"}

\* Without a Quit request nothing but the Lua state they share without a lock
\* lets the two threads take the host down, and that only at the edges of the
\* surface's life: cso_shutdown meeting any callback, or cso_start meeting an
\* OSC message that arrived before start was done.  In particular nothing is
\* used or freed after it was freed, and no thread outlives its loop.
LostOnlyInRaces ==
  crashed => \/ stopped
             \/ hostPc = "cso_shutdown" /\ EventInLua
             \/ hostPc = "cso_start" /\ evPc = "osc"

\* The loop thread runs stop() itself, or has: nothing brings the surface back.
QuitsItself == evPc \in {"cso_shutdown", "self_join"}

\* What the program sees of a surface: its server is there and it is active.
get_active == osc_server # "null" /\ active

\* A surface that reports to be active serves: its server is open, the loop
\* runs, and timer and signals are connected, also when it was deactivated in
\* between (start: "already started").  A Quit request alone ends that.
ActiveMeansServing ==
  get_active /\ hostPc = "idle" /\ ~QuitsItself =>
    /\ osc_server = "open" /\ LoopRunning
    /\ session_connections /\ exported
    /\ timer1 = (timer1_interval_ms > 0)

\* No signal of session_connections calls into the object when its event loop
\* is destroyed, since stop drops them first.  (Exported, connected to another
\* list, may.)
NoLateSessionSignal == late \subseteq {"Exported"}

\* Activating and deleting a surface complete: the new loop comes up, so that
\* BaseUI::run returns, and a loop told to quit notices it, however many
\* messages and timeouts keep coming, so that its thread can be joined.  That
\* the loop thread may wait for itself for ever, after a Quit request, does not
\* keep the host.
HostReturns ==
  hostPc \notin {"none", "idle"} ~> (hostPc \in {"none", "idle"} \/ crashed)

\* A full socket is read again, and requests left by the session's signals are
\* carried out or discarded: no source of the loop keeps the others from their
\* turn.  (After an error on the socket its source is gone for good.)
QueuesDrain ==
  /\ inbox = MaxInbox ~> (inbox < MaxInbox \/ ioError \/ crashed \/ QuitsItself)
  /\ requests > 0 ~> (requests = 0 \/ crashed \/ QuitsItself)
=============================================================================
