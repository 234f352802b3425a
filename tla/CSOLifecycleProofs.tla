------------------------ MODULE CSOLifecycleProofs ------------------------
(***************************************************************************)
(* Proofs about CSOLifecycle, for every capacity and bound, with or without*)
(* Quit requests and socket errors.                                        *)
(***************************************************************************)
EXTENDS CSOLifecycle, TLAPS

(***************************************************************************)
(* The inductive invariant.  What the properties say of the host's program *)
(* counter follows from how far start or stop has come, so the invariant   *)
(* says, for each place the host can be in, what has been set up.          *)
(***************************************************************************)
LoopPcs == {"poll", "dispatch", "osc", "timer", "slot", "cso_shutdown"}

\* Nothing of start has happened, or everything was undone.
NotStarted ==
  /\ osc_server = "null" /\ evPc = "none" /\ ~active /\ ~timer1
  /\ ~session_connections /\ ~exported /\ inbox = 0

\* The server is open and the loop runs on it.
Serving == osc_server = "open" /\ evPc \in LoopPcs /\ ~loopQuit

\* The loop thread has stopped the surface and waits for itself.
Stuck == osc_server = "open" /\ evPc = "self_join" /\ loopQuit

\* Neither signals nor the timer have a way to the loop.
Unwired ==
  /\ ~session_connections /\ ~exported /\ requests = 0 /\ "requests" \notin ready
  /\ evPc \notin {"slot", "cso_shutdown"} /\ ~active

NoTimer == ~timer1 /\ "timer" \notin ready /\ evPc # "timer"

\* A loop that was told to quit may still free the server itself.
MayBeFreed == osc_server = "open" \/ (osc_server = "freed" /\ stopped)

Wired == session_connections /\ exported /\ timer1 = (timer1_interval_ms > 0)

HostPhase ==
  /\ hostPc = "none" => NotStarted /\ ~loopQuit /\ Unwired /\ NoTimer
  /\ hostPc = "idle" => \/ NotStarted /\ ~loopQuit /\ Unwired /\ NoTimer
                        \/ Serving /\ (Wired \/ evPc = "cso_shutdown")
                        \/ Stuck
  /\ hostPc = "run" => /\ osc_server = "open" /\ ~loopQuit
                       /\ evPc \in LoopPcs \cup {"init"}
                       /\ Unwired /\ NoTimer
  /\ hostPc = "cso_start" => Serving /\ Unwired /\ NoTimer
  /\ hostPc = "add_timer" => Serving /\ Unwired /\ NoTimer
  /\ hostPc = "connect" => Serving /\ Unwired /\ timer1 = (timer1_interval_ms > 0)
  /\ hostPc = "cso_shutdown" => /\ (NotStarted /\ ~loopQuit) \/ Serving \/ Stuck
                                /\ ~session_connections
  /\ hostPc = "join" => /\ MayBeFreed /\ loopQuit
                        /\ evPc \in LoopPcs \cup {"ended"}
                        /\ ~session_connections
  /\ hostPc = "free" => /\ \/ osc_server = "null" /\ evPc = "none"
                           \/ MayBeFreed /\ evPc \in {"ended", "self_join"}
                        /\ ~session_connections
  /\ hostPc = "destroy_ui" => /\ osc_server # "open" /\ evPc \in {"none", "ended", "self_join"}
                              /\ ~session_connections /\ inbox = 0
  /\ hostPc = "destroy_cp" => /\ osc_server # "open" /\ evPc = "none"
                              /\ ~loopQuit /\ ready = {} /\ requests = 0
                              /\ ~session_connections /\ ~timer1 /\ inbox = 0

\* What an iteration of the loop still has to dispatch was ready, and is.
IterationInv ==
  /\ evPc \in LoopPcs \cup {"none", "init", "ended", "self_join"}
  /\ evPc \in {"none", "init", "poll", "ended"} => ready = {}
  /\ "io" \in ready => inbox > 0 \/ evPc = "self_join" \/ osc_server = "freed"
  /\ evPc \in {"cso_shutdown", "self_join"} => stopped

LateInv == late \subseteq {"Exported"} /\ (hostPc # "destroy_cp" => late = {})

IInv == TypeOK /\ HostPhase /\ IterationInv /\ LateInv

-----------------------------------------------------------------------------
\* Every step keeps the types.  Receiving needs a message in the socket.
LEMMA TypeStep ==
  ASSUME TypeOK, IterationInv, [Next]_vars
  PROVE  TypeOK'
<1> USE LifecycleAssumption
<1> USE DEF TypeOK, IterationInv, HostPcs, EvPcs, Sources, Signals,
            hostVars, loopVars, wiring, outside, HostEntersLua, EventEntersLua,
            Received, StartOrder, StopOrder, DropConnections, ServerThere, LoServerFree
<1>1. CASE New
  BY <1>1 DEF New
<1>2. CASE Activate
  BY <1>2 DEF Activate
<1>3. CASE Reactivate
  BY <1>3 DEF Reactivate
<1>4. CASE Deactivate
  <2>1. active' \in BOOLEAN
    BY <1>4, Zenon DEF Deactivate
  <2> QED
    BY <1>4, <2>1 DEF Deactivate
<1>5. CASE Delete
  <2>1. session_connections' = FALSE /\ HostEntersLua
    BY <1>5, Zenon DEF Delete, DropConnections
  <2>2. session_connections' \in BOOLEAN
    BY <2>1, Zenon
  <2>3. crashed' \in BOOLEAN
    BY <2>1
  <2> QED
    BY <1>5, <2>2, <2>3 DEF Delete
<1>6. CASE RunReturns
  BY <1>6 DEF RunReturns
<1>7. CASE StartReturns
  BY <1>7 DEF StartReturns
<1>8. CASE AddTimer
  BY <1>8 DEF AddTimer
<1>9. CASE ConnectSignals
  BY <1>9 DEF ConnectSignals
<1>10. CASE Quit
  <2>1. loopQuit' = TRUE \/ loopQuit' = loopQuit
    BY <1>10 DEF Quit
  <2>2. loopQuit' \in BOOLEAN
    BY <2>1, Zenon
  <2> QED
    BY <1>10, <2>2 DEF Quit
<1>11. CASE Join
  BY <1>11 DEF Join
<1>12. CASE FreeServer
  <2>1. crashed' \in BOOLEAN
    BY <1>12 DEF FreeServer
  <2> QED
    BY <1>12, <2>1 DEF FreeServer
<1>13. CASE DestroyUI
  <2>1. crashed' \in {FALSE, evPc \notin {"none", "ended"}}
    BY <1>13, Zenon DEF DestroyUI
  <2>2. (evPc \notin {"none", "ended"}) \in BOOLEAN
    OBVIOUS
  <2>3. crashed' \in BOOLEAN
    BY <2>1, <2>2, Zenon
  <2>4. loopQuit' \in BOOLEAN /\ ioSource' \in BOOLEAN /\ timer1' \in BOOLEAN
    BY <1>13, Zenon DEF DestroyUI
  <2> QED
    BY <1>13, <2>3, <2>4 DEF DestroyUI
<1>14. CASE DestroyCP
  <2>1. /\ active' \in BOOLEAN /\ exported' \in BOOLEAN /\ ioError' \in BOOLEAN
        /\ stopped' \in BOOLEAN
    BY <1>14, Zenon DEF DestroyCP
  <2> QED
    BY <1>14, <2>1 DEF DestroyCP
<1>15. CASE ThreadInit
  BY <1>15 DEF ThreadInit
<1>16. CASE Poll
  BY <1>16 DEF Poll
<1>17. CASE LoopEnds
  BY <1>17 DEF LoopEnds
<1>18. CASE IterationEnds
  BY <1>18 DEF IterationEnds
<1>19. CASE DispatchIO
  BY <1>19 DEF DispatchIO
<1>20. CASE DispatchIOError
  <2>1. ioSource' \in BOOLEAN
    BY <1>20, Zenon DEF DispatchIOError
  <2> QED
    BY <1>20, <2>1 DEF DispatchIOError
<1>21. CASE DispatchTimer
  BY <1>21 DEF DispatchTimer
<1>22. CASE DispatchRequest
  <2>1. EventEntersLua /\ (session_connections' = session_connections \/ session_connections' = FALSE)
    BY <1>22, Zenon DEF DispatchRequest, DropConnections
  <2>2. /\ crashed' \in BOOLEAN /\ session_connections' \in BOOLEAN
        /\ stopped' \in BOOLEAN
    <3>1. stopped' = stopped \/ stopped' = TRUE
      BY <1>22, Zenon DEF DispatchRequest
    <3>2. stopped' \in BOOLEAN
      BY <3>1, Zenon
    <3> QED
      BY <2>1, <3>2
  <2>3. requests' \in 0 .. MaxRequests /\ evPc' \in EvPcs
    BY <1>22 DEF DispatchRequest
  <2> QED
    BY <1>22, <2>2, <2>3 DEF DispatchRequest
<1>23. CASE RequestsDone
  BY <1>23 DEF RequestsDone
<1>24. CASE LuaReturns
  BY <1>24 DEF LuaReturns
<1>25. CASE QuitSelf
  BY <1>25 DEF QuitSelf
<1>26. CASE SelfJoin
  BY <1>26 DEF SelfJoin
<1>27. CASE Datagram
  BY <1>27 DEF Datagram
<1>28. CASE SocketError
  BY <1>28 DEF SocketError
<1>29. ASSUME NEW s \in Signals, Emit(s)
      PROVE  TypeOK'
  <2>1. emitted' \in 0 .. MaxSignals /\ requests' \in 0 .. MaxRequests
    BY <1>29 DEF Emit
  <2>2. late' = late \/ late' = late \cup {s}
    BY <1>29, Zenon DEF Emit
  <2>3. late' \subseteq Signals
    <3>1. late \subseteq Signals
      OBVIOUS
    <3>2. s \in Signals
      BY <1>29
    <3> HIDE DEF Signals, TypeOK, IterationInv
    <3> QED
      BY <2>2, <3>1, <3>2, Zenon
  <2> QED
    BY <1>29, <2>1, <2>3 DEF Emit
<1>30. CASE UNCHANGED vars
  BY <1>30 DEF vars
<1>31. CASE DispatchIOFreed
  BY <1>31 DEF DispatchIOFreed
<1>32. CASE StopUnderLoop
  <2>1. crashed' \in BOOLEAN
    BY <1>32 DEF StopUnderLoop
  <2> QED
    BY <1>32, <2>1 DEF StopUnderLoop
<1> QED
  BY <1>1, <1>2, <1>3, <1>4, <1>5, <1>6, <1>7, <1>8, <1>9, <1>10, <1>11, <1>12, <1>13, <1>14, <1>15, <1>16, <1>17, <1>18, <1>19, <1>20, <1>21, <1>22, <1>23, <1>24, <1>25, <1>26, <1>27, <1>28, <1>29, <1>30, <1>31, <1>32
     DEF Next, HostRuns, EventRuns, Others

\* Every step keeps the inductive invariant.
LEMMA InvStep ==
  ASSUME IInv, [Next]_vars
  PROVE  IInv'
<1>1. TypeOK'
  BY TypeStep DEF IInv
<1> USE DEF IInv, TypeOK, HostPhase, IterationInv, LateInv, NotStarted, Serving,
            Unwired, NoTimer, Wired, LoopPcs, HostPcs, EvPcs, Sources,
            hostVars, loopVars, wiring, outside, LoopRunning, Received,
            StartOrder, StopOrder, DropConnections, ServerThere, Stuck,
            MayBeFreed, LoServerFree
<1>2. CASE New
  BY <1>1, <1>2 DEF New
<1>3. CASE Activate
  BY <1>1, <1>3 DEF Activate
<1>4. CASE Reactivate
  BY <1>1, <1>4 DEF Reactivate
<1>5. CASE Deactivate
  <2>1. HostPhase'
    BY <1>5 DEF Deactivate
  <2>2. IterationInv' /\ LateInv'
    BY <1>5 DEF Deactivate
  <2> QED
    BY <1>1, <2>1, <2>2
<1>6. CASE Delete
  <2>1. HostPhase'
    BY <1>6 DEF Delete
  <2>2. IterationInv' /\ LateInv'
    BY <1>6 DEF Delete
  <2> QED
    BY <1>1, <2>1, <2>2
<1>7. CASE RunReturns
  BY <1>1, <1>7 DEF RunReturns
<1>8. CASE StartReturns
  BY <1>1, <1>8 DEF StartReturns
<1>9. CASE AddTimer
  BY <1>1, <1>9 DEF AddTimer
<1>10. CASE ConnectSignals
  BY <1>1, <1>10 DEF ConnectSignals
<1>11. CASE Quit
  <2>1. HostPhase'
    BY <1>11 DEF Quit
  <2>2. IterationInv' /\ LateInv'
    BY <1>11 DEF Quit
  <2> QED
    BY <1>1, <2>1, <2>2
<1>12. CASE Join
  BY <1>1, <1>12 DEF Join
<1>13. CASE FreeServer
  <2>1. HostPhase'
    BY <1>13 DEF FreeServer
  <2>2. IterationInv' /\ LateInv'
    BY <1>13 DEF FreeServer
  <2> QED
    BY <1>1, <2>1, <2>2
<1>14. CASE DestroyUI
  <2>1. HostPhase'
    BY <1>14 DEF DestroyUI
  <2>2. IterationInv' /\ LateInv'
    BY <1>14 DEF DestroyUI
  <2> QED
    BY <1>1, <2>1, <2>2
<1>15. CASE DestroyCP
  <2>1. HostPhase'
    BY <1>15 DEF DestroyCP
  <2>2. IterationInv' /\ LateInv'
    BY <1>15 DEF DestroyCP
  <2> QED
    BY <1>1, <2>1, <2>2
<1>16. CASE ThreadInit
  BY <1>1, <1>16 DEF ThreadInit
<1>17. CASE Poll
  BY <1>1, <1>17 DEF Poll
<1>18. CASE LoopEnds
  BY <1>1, <1>18 DEF LoopEnds
<1>19. CASE IterationEnds
  BY <1>1, <1>19 DEF IterationEnds
<1>20. CASE DispatchIO
  BY <1>1, <1>20 DEF DispatchIO
<1>21. CASE DispatchIOError
  <2>1. HostPhase'
    BY <1>21 DEF DispatchIOError
  <2>2. IterationInv' /\ LateInv'
    BY <1>21 DEF DispatchIOError
  <2> QED
    BY <1>1, <2>1, <2>2
<1>22. CASE DispatchTimer
  BY <1>1, <1>22 DEF DispatchTimer
<1>23. CASE DispatchRequest
  <2>1. HostPhase'
    BY <1>23 DEF DispatchRequest
  <2>2. IterationInv' /\ LateInv'
    BY <1>23 DEF DispatchRequest
  <2> QED
    BY <1>1, <2>1, <2>2
<1>24. CASE RequestsDone
  BY <1>1, <1>24 DEF RequestsDone
<1>25. CASE LuaReturns
  BY <1>1, <1>25 DEF LuaReturns
<1>26. CASE QuitSelf
  BY <1>1, <1>26 DEF QuitSelf
<1>27. CASE SelfJoin
  BY <1>1, <1>27 DEF SelfJoin
<1>28. CASE Datagram
  BY <1>1, <1>28 DEF Datagram
<1>29. CASE SocketError
  BY <1>1, <1>29 DEF SocketError
<1>30. ASSUME NEW s \in Signals, Emit(s)
      PROVE  IInv'
  <2>1. HostPhase'
    BY <1>30 DEF Emit
  <2>2. IterationInv'
    BY <1>30 DEF Emit
  <2>3. LateInv'
    <3>1. hostPc = "destroy_cp" => s = "Exported"
      BY <1>30 DEF Emit, Signals
    <3>2. hostPc = "destroy_cp" => late' = late \cup {s}
      BY <1>30, Zenon DEF Emit
    <3>3. hostPc # "destroy_cp" => late' = late
      BY <1>30, Zenon DEF Emit
    <3>4. late \subseteq {"Exported"} /\ (hostPc # "destroy_cp" => late = {}) /\ hostPc' = hostPc
      BY <1>30 DEF Emit
    <3> HIDE DEF IInv, TypeOK, HostPhase
    <3> QED
      BY <3>1, <3>2, <3>3, <3>4, Zenon
  <2> QED
    BY <1>1, <2>1, <2>2, <2>3
<1>31. CASE UNCHANGED vars
  BY <1>1, <1>31 DEF vars
<1>32. CASE DispatchIOFreed
  <2>1. HostPhase'
    BY <1>32 DEF DispatchIOFreed
  <2>2. IterationInv' /\ LateInv'
    BY <1>32 DEF DispatchIOFreed
  <2> QED
    BY <1>1, <2>1, <2>2
<1>33. CASE StopUnderLoop
  <2>1. HostPhase'
    BY <1>33 DEF StopUnderLoop
  <2>2. IterationInv' /\ LateInv'
    BY <1>33 DEF StopUnderLoop
  <2> QED
    BY <1>1, <2>1, <2>2
<1> QED
  BY <1>2, <1>3, <1>4, <1>5, <1>6, <1>7, <1>8, <1>9, <1>10, <1>11, <1>12, <1>13, <1>14, <1>15, <1>16, <1>17, <1>18, <1>19, <1>20, <1>21, <1>22, <1>23, <1>24, <1>25, <1>26, <1>27, <1>28, <1>29, <1>30, <1>31, <1>32, <1>33
     DEF Next, HostRuns, EventRuns, Others, Signals

\* The inductive invariant holds of every behaviour.
THEOREM Invariance == Spec => []IInv
<1>1. Init => IInv
  <2> SUFFICES ASSUME Init PROVE IInv
    OBVIOUS
  <2>1. TypeOK
    <3>1. inbox \in 0 .. MaxInbox /\ requests \in 0 .. MaxRequests /\ emitted \in 0 .. MaxSignals
      BY LifecycleAssumption DEF Init
    <3>2. /\ active \in BOOLEAN /\ loopQuit \in BOOLEAN /\ ioSource \in BOOLEAN
          /\ timer1 \in BOOLEAN /\ session_connections \in BOOLEAN /\ exported \in BOOLEAN
          /\ ioError \in BOOLEAN /\ crashed \in BOOLEAN
      BY DEF Init
    <3> QED
      BY <3>1, <3>2 DEF Init, TypeOK, HostPcs, EvPcs
  <2>2. HostPhase
    BY DEF Init, HostPhase, NotStarted, Unwired, NoTimer
  <2>3. IterationInv /\ LateInv
    BY DEF Init, IterationInv, LateInv
  <2> QED
    BY <2>1, <2>2, <2>3 DEF IInv
<1>2. IInv /\ [Next]_vars => IInv'
  BY InvStep
<1> QED
  BY <1>1, <1>2, PTL DEF Spec

-----------------------------------------------------------------------------
(* The properties the runs check.                                          *)

\* The state has its type (TypeOK): in particular osc_input_handler never
\* receives from an empty socket, and no capacity is exceeded.
THEOREM TypeCorrect == Spec => []TypeOK
BY Invariance, PTL DEF IInv

\* start begins the thread only when there is a server, and the server goes
\* under the running loop only if the loop itself carries out a Quit request
\* while the host already waits for it (LoopOnLiveServer).
THEOREM ServerOutlivesLoop == Spec => []LoopOnLiveServer
<1>1. IInv => LoopOnLiveServer
  BY DEF IInv, TypeOK, HostPcs, HostPhase, NotStarted, Serving, Stuck, LoopPcs,
         MayBeFreed, LoopOnLiveServer
<1> QED
  BY <1>1, Invariance, PTL

\* Neither the timer nor a signal calls into Lua before cso_start returned
\* (CallbacksAfterStart).
THEOREM StartComesFirst == Spec => []CallbacksAfterStart
<1>1. IInv => CallbacksAfterStart
  BY DEF IInv, HostPhase, NotStarted, Serving, Stuck, Unwired, NoTimer, LoopPcs,
         CallbacksAfterStart
<1> QED
  BY <1>1, Invariance, PTL

\* A step that takes the host down without a Quit request finds both threads
\* in Lua: in every other step that could, the invariant says that the server
\* is not freed yet, the thread has ended, or a Quit request was carried out.
LEMMA LostStep ==
  ASSUME IInv, LostOnlyInRaces, [Next]_vars
  PROVE  LostOnlyInRaces'
<1> SUFFICES ASSUME crashed', ~stopped'
             PROVE  \/ hostPc' = "cso_shutdown" /\ EventInLua'
                    \/ hostPc' = "cso_start" /\ evPc' = "osc"
  BY DEF LostOnlyInRaces
<1>1. CASE UNCHANGED vars
  BY <1>1 DEF vars, hostVars, loopVars, outside, LostOnlyInRaces, EventInLua
<1>2. CASE Next
  <2>1. ~crashed
    BY <1>2 DEF Next
  <2>2. CASE RunReturns
    <3>1. hostPc = "run" /\ hostPc' = "cso_start" /\ evPc' = evPc
      BY <2>2 DEF RunReturns, StartOrder, loopVars
    <3>2. EventInLua
      BY <2>1, <2>2 DEF RunReturns, HostEntersLua
    <3>3. evPc = "osc"
      BY <3>1, <3>2 DEF EventInLua, IInv, HostPhase, Unwired, NoTimer
    <3> QED
      BY <3>1, <3>3
  <2>3. CASE Delete
    <3>1. hostPc' = "cso_shutdown" /\ evPc' = evPc
      BY <2>3 DEF Delete, loopVars
    <3>2. EventInLua
      BY <2>1, <2>3 DEF Delete, HostEntersLua
    <3> QED
      BY <3>1, <3>2 DEF EventInLua
  <2>4. CASE FreeServer
    BY <2>1, <2>4 DEF FreeServer, LoServerFree, IInv, HostPhase, MayBeFreed
  <2>5. CASE DestroyUI
    <3>1. stopped' = stopped /\ hostPc = "destroy_ui" /\ evPc \notin {"none", "ended"}
      BY <2>5 DEF DestroyUI
    <3>2. evPc = "self_join"
      BY <3>1 DEF IInv, HostPhase
    <3> QED
      BY <3>1, <3>2 DEF IInv, IterationInv
  <2>6. CASE DispatchIO
    <3>1. hostPc' = hostPc /\ evPc' = "osc" /\ HostInLua
      BY <2>1, <2>6 DEF DispatchIO, hostVars, EventEntersLua
    <3> QED
      BY <3>1 DEF HostInLua, EventInLua
  <2>7. CASE DispatchIOFreed
    <3>1. osc_server = "freed" /\ evPc = "dispatch" /\ stopped' = stopped
      BY <2>7 DEF DispatchIOFreed, outside
    <3>2. stopped
      BY <3>1 DEF IInv, TypeOK, HostPcs, HostPhase, NotStarted, Serving, Stuck, MayBeFreed
    <3> QED
      BY <3>1, <3>2
  <2>8. CASE DispatchTimer
    <3>1. hostPc' = hostPc /\ evPc' = "timer" /\ HostInLua /\ "timer" \in ready
      BY <2>1, <2>8 DEF DispatchTimer, hostVars, EventEntersLua
    <3>2. hostPc # "cso_start"
      BY <3>1 DEF IInv, HostPhase, NoTimer
    <3> QED
      BY <3>1, <3>2 DEF HostInLua, EventInLua
  <2>9. CASE DispatchRequest
    <3>1. hostPc' = hostPc /\ evPc' = "slot" /\ HostInLua /\ "requests" \in ready
      BY <2>1, <2>9 DEF DispatchRequest, hostVars, EventEntersLua
    <3>2. hostPc # "cso_start"
      BY <3>1 DEF IInv, HostPhase, Unwired
    <3> QED
      BY <3>1, <3>2 DEF HostInLua, EventInLua
  <2>10. CASE StopUnderLoop
    BY <2>10 DEF StopUnderLoop, IInv, IterationInv
  <2>11. CASE SelfJoin
    BY <2>11 DEF SelfJoin, outside, IInv, IterationInv
  <2> QED
    BY <1>2, <2>1, <2>2, <2>3, <2>4, <2>5, <2>6, <2>7, <2>8, <2>9, <2>10, <2>11
       DEF Next, HostRuns, EventRuns, Others, New, Activate, Reactivate, Deactivate,
           StartReturns, AddTimer, ConnectSignals, Quit, Join, DestroyCP, ThreadInit, Poll,
           LoopEnds, IterationEnds, DispatchIOError, RequestsDone, LuaReturns, QuitSelf,
           Datagram, Emit, SocketError
<1> QED
  BY <1>1, <1>2

\* Without a Quit request the host is lost only when two threads are in Lua, at
\* the edges of the surface's life (LostOnlyInRaces): nothing is used after it
\* was freed, nothing is freed twice, and no thread outlives its loop.
THEOREM LostAtEdges == Spec => []LostOnlyInRaces
<1>1. Init => LostOnlyInRaces
  BY DEF Init, LostOnlyInRaces
<1> QED
  BY <1>1, LostStep, Invariance, PTL DEF Spec

\* An active surface has its server, loop, timer and signals
\* (ActiveMeansServing), however often it was deactivated and activated.
THEOREM ActiveServes == Spec => []ActiveMeansServing
<1>1. IInv => ActiveMeansServing
  BY DEF IInv, HostPhase, NotStarted, Serving, Stuck, Wired, LoopPcs, LoopRunning,
         QuitsItself, get_active, ActiveMeansServing
<1> QED
  BY <1>1, Invariance, PTL

\* Once the event loop is destroyed only Exported can still call into the
\* object (NoLateSessionSignal): the others were dropped by stop.
THEOREM SignalsDropped == Spec => []NoLateSessionSignal
<1>1. IInv => NoLateSessionSignal
  BY DEF IInv, LateInv, NoLateSessionSignal
<1> QED
  BY <1>1, Invariance, PTL
=============================================================================
