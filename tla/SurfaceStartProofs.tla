------------------------- MODULE SurfaceStartProofs -------------------------
(***************************************************************************)
(* Proofs about SurfaceStart, for every set of widgets and names, any      *)
(* choice of equal names, and every capacity of the socket.                *)
(***************************************************************************)
EXTENDS SurfaceStart, TLAPS

(***************************************************************************)
(* The inductive invariant: a widget is sent for once, so that its mapping *)
(* is in one place; and a function that is defined is called by a name its *)
(* widget was given.                                                       *)
(***************************************************************************)
SentOnce ==
  /\ \A m, n \in DOMAIN inbox : inbox[m].kind = "/map/add" /\ inbox[m] = inbox[n] => m = n
  /\ \A n \in DOMAIN inbox : inbox[n].kind = "/map/add" => inbox[n].widget \notin todo \cup lost
  /\ todo \cap lost = {}

OwnNames ==
  /\ \A w \in Widgets : osc_map[w] # None => osc_map[w] = random[w]
  /\ \A n \in Names : luaFn[n] # None => random[luaFn[n]] = n

\* Past the loop, a widget's function is there, but for the current one.
Defined ==
  /\ current \notin todo
  /\ \A w \in Widgets \ todo : w = current \/ luaFn[random[w]] # None

\* The invariant; DeafOnlyInWindow follows from OwnNames and Defined.
Inv == TypeOK /\ Accounted /\ SentOnce /\ OwnNames /\ Defined /\ RightEvent

-----------------------------------------------------------------------------
\* The two kinds of messages.
LEMMA MessageKinds ==
  ASSUME NEW m \in Messages
  PROVE  /\ m.widget \in Widgets
         /\ m.kind = "/map/add" => m = Add(m.widget)
         /\ m.kind # "/map/add" => m = Press(m.widget) /\ m.kind = "press"
BY DEF Messages, Add, Press

\* UnderWay, said of the messages.
LEMMA UnderWayMessages ==
  ASSUME TypeOK, NEW w \in Widgets
  PROVE  w \in UnderWay <=> \E n \in DOMAIN inbox : inbox[n] = Add(w)
BY DEF UnderWay, TypeOK

\* Sending appends one message.
LEMMA Appended ==
  ASSUME TypeOK, NEW m \in Messages, inbox' = Append(inbox, m)
  PROVE  /\ DOMAIN inbox' = DOMAIN inbox \cup {Len(inbox) + 1}
         /\ inbox'[Len(inbox) + 1] = m
         /\ Len(inbox) + 1 \notin DOMAIN inbox
         /\ \A n \in DOMAIN inbox : inbox'[n] = inbox[n]
         /\ inbox' \in Seq(Messages) /\ Len(inbox') = Len(inbox) + 1
BY DEF TypeOK

\* Receiving takes the first message away.
LEMMA Received ==
  ASSUME TypeOK, inbox # <<>>, inbox' = Tail(inbox)
  PROVE  /\ Head(inbox) \in Messages /\ Head(inbox) = inbox[1] /\ 1 \in DOMAIN inbox
         /\ inbox' \in Seq(Messages) /\ Len(inbox') = Len(inbox) - 1 /\ Len(inbox) \in Nat
         /\ DOMAIN inbox' = 1 .. Len(inbox) - 1 /\ DOMAIN inbox = 1 .. Len(inbox)
         /\ \A n \in DOMAIN inbox' : n + 1 \in DOMAIN inbox /\ inbox'[n] = inbox[n + 1]
         /\ \A n \in DOMAIN inbox : n # 1 => n - 1 \in DOMAIN inbox' /\ inbox[n] = inbox'[n - 1]
BY DEF TypeOK

\* The mapping phase starts in the invariant.
LEMMA InitInv == Init => Inv
<1> SUFFICES ASSUME Init PROVE Inv
  OBVIOUS
<1>1. TypeOK
  <2>1. inbox \in Seq(Messages)
    BY StartAssumption DEF Init
  <2> QED
    BY <2>1 DEF Init, TypeOK
<1>2. Accounted /\ SentOnce
  BY DEF Init, Accounted, SentOnce
<1>3. OwnNames /\ Defined /\ RightEvent
  BY StartAssumption, <1>1 DEF Init, OwnNames, Defined, RightEvent, TypeOK
<1> QED
  BY <1>1, <1>2, <1>3 DEF Inv

\* cso_map_add: the widget goes from todo to the socket, or is lost.
LEMMA MapNextStep ==
  ASSUME Inv, NEW w \in Widgets, MapNext(w)
  PROVE  Inv'
<1> USE DEF Inv
<1>0. /\ w \in todo /\ current = None /\ todo' = todo \ {w} /\ current' = w /\ CsoMapAdd(w)
      /\ UNCHANGED <<random, luaFn, osc_map, fired, unheard>>
  BY DEF MapNext
<1>1. OwnNames' /\ RightEvent'
  BY <1>0 DEF OwnNames, RightEvent
<1>2. Defined'
  BY <1>0, StartAssumption DEF Defined
<1>3. CASE Len(inbox) < MaxInbox
  <2>1. inbox' = Append(inbox, Add(w)) /\ lost' = lost /\ Add(w) \in Messages
    BY <1>0, <1>3 DEF CsoMapAdd, Messages
  <2>2. \A n \in DOMAIN inbox : inbox[n] # Add(w)
    BY <1>0 DEF SentOnce, Add
  <2>3. TypeOK'
    <3>1. inbox' \in Seq(Messages)
      BY <1>3, <2>1, Appended, StartAssumption DEF TypeOK
    <3> QED
      BY <1>0, <2>1, <3>1 DEF TypeOK
  <2>4. SentOnce'
    <3>1. \A m, n \in DOMAIN inbox' : inbox'[m].kind = "/map/add" /\ inbox'[m] = inbox'[n] => m = n
      BY <2>1, <2>2, Appended DEF SentOnce
    <3>2. \A n \in DOMAIN inbox' : inbox'[n].kind = "/map/add" => inbox'[n].widget \notin todo' \cup lost'
      BY <1>0, <2>1, Appended DEF SentOnce, Add
    <3> QED
      BY <1>0, <2>1, <3>1, <3>2 DEF SentOnce
  <2>5. Accounted'
    <3> SUFFICES ASSUME NEW v \in Widgets
                 PROVE  (osc_map'[v] = None) <=> (v \in todo' \cup lost' \cup UnderWay')
      BY DEF Accounted
    <3>1. v \in UnderWay' <=> \E n \in DOMAIN inbox' : inbox'[n] = Add(v)
      BY <2>3, UnderWayMessages DEF UnderWay, TypeOK
    <3>2. v \in UnderWay <=> \E n \in DOMAIN inbox : inbox[n] = Add(v)
      BY UnderWayMessages
    <3>3. Add(v) = Add(w) <=> v = w
      BY DEF Add
    <3>4. v \in UnderWay' <=> (v \in UnderWay \/ v = w)
      BY <2>1, <3>1, <3>2, <3>3, Appended
    <3> QED
      BY <1>0, <2>1, <3>4 DEF Accounted
  <2> QED
    BY <1>1, <1>2, <2>3, <2>4, <2>5
<1>4. CASE ~(Len(inbox) < MaxInbox)
  <2>1. inbox' = inbox /\ lost' = lost \cup {w}
    BY <1>0, <1>4 DEF CsoMapAdd
  <2>2. TypeOK'
    BY <1>0, <2>1 DEF TypeOK
  <2>3. SentOnce'
    BY <1>0, <2>1 DEF SentOnce
  <2>4. Accounted'
    BY <1>0, <2>1 DEF Accounted, UnderWay
  <2> QED
    BY <1>1, <1>2, <2>2, <2>3, <2>4
<1> QED
  BY <1>3, <1>4

\* Defining the current widget's function gives its name to it.
LEMMA LoadStep ==
  ASSUME Inv, Load
  PROVE  Inv'
<1> USE DEF Inv
<1>1. /\ current \in Widgets /\ current' = None
      /\ luaFn' = [luaFn EXCEPT ![random[current]] = current]
      /\ UNCHANGED <<todo, random, inbox, osc_map, lost, fired, unheard>>
  BY DEF Load, FunctionDefined, TypeOK
<1>2. random \in [Widgets -> Names] /\ luaFn \in [Names -> Widgets \cup {None}]
  BY DEF TypeOK
<1>3. TypeOK'
  BY <1>1, <1>2 DEF TypeOK
<1>4. Accounted' /\ SentOnce' /\ RightEvent'
  BY <1>1 DEF Accounted, SentOnce, RightEvent, UnderWay
<1>5. OwnNames'
  BY <1>1, <1>2 DEF OwnNames
<1>6. Defined'
  BY <1>1, <1>2, StartAssumption DEF Defined, TypeOK
<1> QED
  BY <1>3, <1>4, <1>5, <1>6

\* A press of the surface leaves the mappings alone.
LEMMA TouchStep ==
  ASSUME Inv, NEW w \in Widgets, Touch(w)
  PROVE  Inv'
<1> USE DEF Inv
<1>1. /\ inbox' = Append(inbox, Press(w)) /\ Press(w) \in Messages /\ Len(inbox) < MaxInbox
      /\ UNCHANGED <<todo, current, random, luaFn, osc_map, lost, fired, unheard>>
  BY DEF Touch, Messages
<1>2. TypeOK'
  <2>1. inbox' \in Seq(Messages)
    BY <1>1, Appended, StartAssumption DEF TypeOK
  <2> QED
    BY <1>1, <2>1 DEF TypeOK
<1>3. SentOnce'
  <2>1. Press(w).kind # "/map/add"
    BY DEF Press
  <2>2. \A m, n \in DOMAIN inbox' : inbox'[m].kind = "/map/add" /\ inbox'[m] = inbox'[n] => m = n
    BY <1>1, <2>1, Appended DEF SentOnce
  <2>3. \A n \in DOMAIN inbox' : inbox'[n].kind = "/map/add" => inbox'[n].widget \notin todo' \cup lost'
    BY <1>1, <2>1, Appended DEF SentOnce
  <2> QED
    BY <1>1, <2>2, <2>3 DEF SentOnce
<1>4. Accounted'
  <2> SUFFICES ASSUME NEW v \in Widgets
               PROVE  (osc_map'[v] = None) <=> (v \in todo' \cup lost' \cup UnderWay')
    BY DEF Accounted
  <2>1. v \in UnderWay' <=> \E n \in DOMAIN inbox' : inbox'[n] = Add(v)
    BY <1>2 DEF UnderWay, TypeOK
  <2>2. v \in UnderWay <=> \E n \in DOMAIN inbox : inbox[n] = Add(v)
    BY UnderWayMessages
  <2>3. Add(v) # Press(w)
    BY DEF Add, Press
  <2>4. v \in UnderWay' <=> v \in UnderWay
    BY <1>1, <2>1, <2>2, <2>3, Appended
  <2> QED
    BY <1>1, <2>4 DEF Accounted
<1>5. OwnNames' /\ Defined' /\ RightEvent'
  BY <1>1 DEF OwnNames, Defined, RightEvent
<1> QED
  BY <1>2, <1>3, <1>4, <1>5

\* What taking a message from the socket keeps, whatever it was.
LEMMA SentOnceReceived ==
  ASSUME Inv, inbox # <<>>, inbox' = Tail(inbox), UNCHANGED <<todo, lost>>
  PROVE  SentOnce'
<1> USE DEF Inv
<1>1. ASSUME NEW m \in DOMAIN inbox', NEW n \in DOMAIN inbox',
             inbox'[m].kind = "/map/add", inbox'[m] = inbox'[n]
      PROVE  m = n
  <2>1. /\ m + 1 \in DOMAIN inbox /\ inbox[m + 1] = inbox'[m]
        /\ n + 1 \in DOMAIN inbox /\ inbox[n + 1] = inbox'[n] /\ m \in Nat /\ n \in Nat
    BY Received
  <2>2. m + 1 = n + 1
    BY <1>1, <2>1 DEF SentOnce
  <2> QED
    BY <2>1, <2>2
<1>2. \A n \in DOMAIN inbox' : inbox'[n].kind = "/map/add" => inbox'[n].widget \notin todo' \cup lost'
  BY Received DEF SentOnce
<1> QED
  BY <1>1, <1>2 DEF SentOnce

\* A mapping that arrives gets its address the name of its widget.
LEMMA ReceiveAddStep ==
  ASSUME Inv, ReceiveAdd
  PROVE  Inv'
<1> USE DEF Inv
<1> DEFINE w == Head(inbox).widget
<1>1. /\ inbox # <<>> /\ inbox' = Tail(inbox) /\ Head(inbox).kind = "/map/add"
      /\ osc_map' = [osc_map EXCEPT ![w] = random[w]]
      /\ UNCHANGED <<todo, current, random, luaFn, lost, fired, unheard>>
  BY DEF ReceiveAdd
<1>2. w \in Widgets /\ Head(inbox) = Add(w) /\ inbox[1] = Add(w) /\ 1 \in DOMAIN inbox
  BY <1>1, Received, MessageKinds
<1>3. random \in [Widgets -> Names] /\ osc_map \in [Widgets -> Names \cup {None}]
  BY DEF TypeOK
<1>4. TypeOK'
  <2>1. inbox' \in Seq(Messages)
    BY <1>1, Received, StartAssumption DEF TypeOK
  <2> QED
    BY <1>1, <1>2, <1>3, <2>1 DEF TypeOK
<1>5. SentOnce'
  BY <1>1, SentOnceReceived
<1>6. Accounted'
  <2> SUFFICES ASSUME NEW v \in Widgets
               PROVE  (osc_map'[v] = None) <=> (v \in todo' \cup lost' \cup UnderWay')
    BY DEF Accounted
  <2>1. v \in UnderWay' <=> \E n \in DOMAIN inbox' : inbox'[n] = Add(v)
    BY <1>4 DEF UnderWay, TypeOK
  <2>2. v \in UnderWay <=> \E n \in DOMAIN inbox : inbox[n] = Add(v)
    BY UnderWayMessages
  <2>3. CASE v = w
    <3>1. osc_map'[v] # None
      BY <1>1, <1>2, <1>3, <2>3, StartAssumption
    <3>2. v \notin todo \cup lost
      BY <1>1, <1>2, <2>3 DEF SentOnce
    <3>3. \A n \in DOMAIN inbox' : inbox'[n] # Add(w)
      <4> SUFFICES ASSUME NEW n \in DOMAIN inbox', inbox'[n] = Add(w) PROVE FALSE
        OBVIOUS
      <4>1. n + 1 \in DOMAIN inbox /\ inbox[n + 1] = Add(w) /\ n \in Nat /\ n > 0
        BY <1>1, Received
      <4>2. inbox[1].kind = "/map/add"
        BY <1>2 DEF Add
      <4>3. n + 1 = 1
        BY <1>2, <4>1, <4>2 DEF SentOnce
      <4> QED
        BY <4>1, <4>3
    <3> QED
      BY <1>1, <2>1, <2>3, <3>1, <3>2, <3>3
  <2>4. CASE v # w
    <3>1. Add(v) # Add(w) /\ osc_map'[v] = osc_map[v]
      BY <1>1, <1>3, <2>4 DEF Add
    <3>2. (\E n \in DOMAIN inbox' : inbox'[n] = Add(v)) <=> (\E n \in DOMAIN inbox : inbox[n] = Add(v))
      BY <1>1, <1>2, <3>1, Received
    <3> QED
      BY <1>1, <2>1, <2>2, <3>1, <3>2 DEF Accounted
  <2> QED
    BY <2>3, <2>4
<1>7. OwnNames'
  BY <1>1, <1>2, <1>3 DEF OwnNames
<1>8. Defined' /\ RightEvent'
  BY <1>1 DEF Defined, RightEvent
<1> QED
  BY <1>4, <1>5, <1>6, <1>7, <1>8

\* A press calls the function of the name its address was mapped to.
LEMMA ReceivePressStep ==
  ASSUME Inv, ReceivePress
  PROVE  Inv'
<1> USE DEF Inv
<1> DEFINE w == Head(inbox).widget
<1>1. /\ inbox # <<>> /\ inbox' = Tail(inbox) /\ Head(inbox).kind = "press"
      /\ \/ EventOf(w) # None /\ fired' = <<w, EventOf(w)>> /\ unheard' = None
         \/ EventOf(w) = None /\ unheard' = w /\ fired' = fired
      /\ UNCHANGED <<todo, current, random, luaFn, osc_map, lost>>
  BY DEF ReceivePress
<1>2. w \in Widgets /\ Head(inbox) = Press(w) /\ inbox[1] = Press(w)
  BY <1>1, Received, MessageKinds
<1>3. /\ random \in [Widgets -> Names] /\ osc_map \in [Widgets -> Names \cup {None}]
      /\ luaFn \in [Names -> Widgets \cup {None}]
  BY DEF TypeOK
<1>4. EventOf(w) # None => EventOf(w) \in Widgets /\ random[EventOf(w)] = random[w]
  BY <1>2, <1>3 DEF EventOf, OwnNames
<1>5. TypeOK'
  <2>1. inbox' \in Seq(Messages)
    BY <1>1, Received, StartAssumption DEF TypeOK
  <2>2. fired' \in {<<>>} \cup (Widgets \X Widgets) /\ unheard' \in Widgets \cup {None}
    BY <1>1, <1>2, <1>4 DEF TypeOK
  <2> QED
    BY <1>1, <2>1, <2>2 DEF TypeOK
<1>6. SentOnce'
  BY <1>1, SentOnceReceived
<1>7. Accounted'
  <2> SUFFICES ASSUME NEW v \in Widgets
               PROVE  (osc_map'[v] = None) <=> (v \in todo' \cup lost' \cup UnderWay')
    BY DEF Accounted
  <2>1. v \in UnderWay' <=> \E n \in DOMAIN inbox' : inbox'[n] = Add(v)
    BY <1>5 DEF UnderWay, TypeOK
  <2>2. v \in UnderWay <=> \E n \in DOMAIN inbox : inbox[n] = Add(v)
    BY UnderWayMessages
  <2>3. Add(v) # Press(w)
    BY DEF Add, Press
  <2>4. (\E n \in DOMAIN inbox' : inbox'[n] = Add(v)) <=> (\E n \in DOMAIN inbox : inbox[n] = Add(v))
    <3>1. /\ \A n \in DOMAIN inbox' : n + 1 \in DOMAIN inbox /\ inbox'[n] = inbox[n + 1]
          /\ \A n \in DOMAIN inbox : n # 1 => n - 1 \in DOMAIN inbox' /\ inbox[n] = inbox'[n - 1]
      BY <1>1, Received
    <3>2. ASSUME NEW n \in DOMAIN inbox', inbox'[n] = Add(v)
          PROVE  \E k \in DOMAIN inbox : inbox[k] = Add(v)
      BY <3>1, <3>2, Zenon
    <3>3. ASSUME NEW n \in DOMAIN inbox, inbox[n] = Add(v)
          PROVE  \E k \in DOMAIN inbox' : inbox'[k] = Add(v)
      <4>1. n # 1
        BY <1>2, <2>3, <3>3, Zenon
      <4> QED
        BY <3>1, <3>3, <4>1, Zenon
    <3> QED
      BY <3>2, <3>3, Zenon
  <2> QED
    BY <1>1, <2>1, <2>2, <2>4 DEF Accounted
<1>8. RightEvent'
  BY <1>1, <1>4 DEF RightEvent
<1>9. OwnNames' /\ Defined'
  BY <1>1 DEF OwnNames, Defined
<1> QED
  BY <1>5, <1>6, <1>7, <1>8, <1>9

\* Inv is an invariant.
THEOREM Invariance == Spec => []Inv
<1>1. Inv /\ UNCHANGED vars => Inv'
  BY DEF Inv, TypeOK, Accounted, UnderWay, SentOnce, OwnNames, Defined, RightEvent, vars
<1>2. Inv /\ [Next]_vars => Inv'
  BY <1>1, MapNextStep, LoadStep, TouchStep, ReceiveAddStep, ReceivePressStep
     DEF Next, Host, EventLoop
<1> QED
  BY <1>2, InitInv, PTL DEF Spec

-----------------------------------------------------------------------------
\* Every state of the start has its type.
THEOREM TypeCorrect == Spec => []TypeOK
BY Invariance, PTL DEF Inv

\* A mapping is to come, under way, in force, or was dropped by the socket.
THEOREM MappingsAccounted == Spec => []Accounted
BY Invariance, PTL DEF Inv

\* A press reaches a widget of the same name: its own, if names differ.
THEOREM PressesReachTheirOwn == Spec => []RightEvent
BY Invariance, PTL DEF Inv

\* A mapped widget is deaf only while the host is about to define its function.
THEOREM DeafOnlyBriefly == Spec => []DeafOnlyInWindow
<1>1. Inv => DeafOnlyInWindow
  <2> SUFFICES ASSUME Inv, NEW w \in Widgets, osc_map[w] # None, EventOf(w) = None
               PROVE  current # None /\ random[current] = random[w]
    BY DEF DeafOnlyInWindow
  <2>1. w \notin todo
    BY DEF Inv, Accounted
  <2>2. luaFn[random[w]] = None
    BY DEF Inv, OwnNames, EventOf
  <2>3. w = current
    BY <2>1, <2>2 DEF Inv, Defined
  <2> QED
    BY <2>3, StartAssumption
<1> QED
  BY <1>1, Invariance, PTL

-----------------------------------------------------------------------------
(* The abstract table of mappings.                                         *)

\* What was answered was mapped, and stays so.
FiredMapped == fired # <<>> => fired[1] \in Widgets /\ osc_map[fired[1]] # None

\* Only mapped widgets have fired.
LEMMA FiredMappedInvariant == Spec => []FiredMapped
<1>1. Init => FiredMapped
  BY DEF Init, FiredMapped
<1>2. ASSUME Inv, FiredMapped, [Next]_vars PROVE FiredMapped'
  <2> USE <1>2 DEF FiredMapped
  <2>1. ASSUME NEW w \in Widgets, MapNext(w) \/ Touch(w) PROVE FiredMapped'
    BY <2>1 DEF MapNext, Touch
  <2>2. CASE Load
    BY <2>2 DEF Load
  <2>3. CASE ReceiveAdd
    <3>1. osc_map' = [osc_map EXCEPT ![Head(inbox).widget] = random[Head(inbox).widget]]
      BY <2>3 DEF ReceiveAdd
    <3>2. /\ osc_map \in [Widgets -> Names \cup {None}] /\ fired' = fired
          /\ random \in [Widgets -> Names]
      BY <2>3 DEF ReceiveAdd, Inv, TypeOK
    <3> QED
      BY <3>1, <3>2, StartAssumption
  <2>4. CASE ReceivePress
    <3> DEFINE w == Head(inbox).widget
    <3>1. /\ \/ EventOf(w) # None /\ fired' = <<w, EventOf(w)>>
             \/ fired' = fired
          /\ osc_map' = osc_map /\ inbox # <<>> /\ inbox' = Tail(inbox)
      BY <2>4 DEF ReceivePress
    <3>2. w \in Widgets
      BY <3>1, Received, MessageKinds DEF Inv
    <3>3. EventOf(w) # None => osc_map[w] # None
      BY DEF EventOf
    <3> QED
      BY <3>1, <3>2, <3>3
  <2>5. CASE UNCHANGED vars
    BY <2>5 DEF vars
  <2> QED
    BY <1>2, <2>1, <2>2, <2>3, <2>4, <2>5 DEF Next, Host, EventLoop
<1> QED
  BY <1>1, <1>2, Invariance, PTL DEF Spec

\* Nothing but a mapping that arrives changes the bindings, and nothing but a
\* press that is answered the latest call.
LEMMA HostStutters ==
  ASSUME UNCHANGED <<osc_map, random, fired>>
  PROVE  UNCHANGED Table!vars
BY DEF Table!vars, Bindings, LatestCall

\* A mapping that arrives binds the address of its widget, and no other.
LEMMA ReceiveAddImplements ==
  ASSUME Inv, FiredMapped, ReceiveAdd
  PROVE  Table!Next
<1> DEFINE w == Head(inbox).widget
<1>1. /\ inbox # <<>> /\ inbox' = Tail(inbox)
      /\ osc_map' = [osc_map EXCEPT ![w] = random[w]]
      /\ UNCHANGED <<random, fired>>
  BY DEF ReceiveAdd
<1>2. w \in Widgets
  BY <1>1, Received, MessageKinds DEF Inv
<1>3. /\ random \in [Widgets -> Names] /\ osc_map \in [Widgets -> Names \cup {None}]
  BY DEF Inv, TypeOK
<1>4. Bindings' = [Bindings EXCEPT ![<<w, "types">>] = random[w]]
  <2>1. ASSUME NEW a \in Widgets \X {"types"}
        PROVE  osc_map'[a[1]] = IF a = <<w, "types">> THEN random[w] ELSE osc_map[a[1]]
    <3>1. a[1] \in Widgets /\ (a = <<w, "types">> <=> a[1] = w)
      OBVIOUS
    <3> QED
      BY <1>1, <1>2, <1>3, <3>1
  <2>2. Bindings' = [a \in Widgets \X {"types"} |-> osc_map'[a[1]]]
    BY DEF Bindings
  <2>3. [Bindings EXCEPT ![<<w, "types">>] = random[w]]
          = [a \in Widgets \X {"types"} |->
               IF a = <<w, "types">> THEN random[w] ELSE osc_map[a[1]]]
    BY DEF Bindings
  <2> QED
    BY <2>1, <2>2, <2>3
<1>5. LatestCall' = LatestCall
  BY <1>1 DEF LatestCall
<1>6. Table!Add(w, "types", random[w])
  BY <1>4, <1>5 DEF Table!Add
<1> QED
  BY <1>2, <1>3, <1>6 DEF Table!Next

\* A press enters the function its address is bound to, or none.
LEMMA ReceivePressImplements ==
  ASSUME Inv, FiredMapped, ReceivePress
  PROVE  Table!Next \/ UNCHANGED Table!vars
<1> DEFINE w == Head(inbox).widget
<1>1. /\ \/ EventOf(w) # None /\ fired' = <<w, EventOf(w)>>
         \/ fired' = fired
      /\ inbox # <<>> /\ inbox' = Tail(inbox)
      /\ UNCHANGED <<random, osc_map>>
  BY DEF ReceivePress
<1>2. w \in Widgets
  BY <1>1, Received, MessageKinds DEF Inv
<1>3. Bindings' = Bindings
  BY <1>1 DEF Bindings
<1>4. CASE fired' = fired
  BY <1>1, <1>4, HostStutters
<1>5. CASE EventOf(w) # None /\ fired' = <<w, EventOf(w)>>
  <2>1. osc_map[w] # None /\ osc_map[w] = random[w]
    BY <1>2, <1>5 DEF EventOf, Inv, OwnNames
  <2>2. Bindings[<<w, "types">>] = random[w]
    BY <1>2, <2>1 DEF Bindings
  <2>3. LatestCall' = Table!Call(w, "types", random[w])
    BY <1>1, <1>5 DEF LatestCall, Table!Call
  <2>4. Table!Invoke(w, "types")
    BY <1>3, <2>1, <2>2, <2>3 DEF Table!Invoke
  <2> QED
    BY <1>2, <2>4 DEF Table!Next
<1> QED
  BY <1>1, <1>4, <1>5

\* The mapping phase, with its lossy socket, behaves as the abstract table of
\* mappings (ImplementsOscMap).
THEOREM Implements == Spec => ImplementsOscMap
<1>1. Init => Table!Init
  BY DEF Init, Table!Init, Bindings, LatestCall
<1>2. ASSUME Inv, FiredMapped, [Next]_vars PROVE [Table!Next]_(Table!vars)
  <2>1. ASSUME NEW w \in Widgets, MapNext(w) \/ Touch(w) PROVE UNCHANGED Table!vars
    BY <2>1, HostStutters DEF MapNext, Touch
  <2>2. CASE Load
    BY <2>2, HostStutters DEF Load
  <2>3. CASE UNCHANGED vars
    BY <2>3, HostStutters DEF vars
  <2> QED
    BY <1>2, <2>1, <2>2, <2>3, ReceiveAddImplements, ReceivePressImplements
       DEF Next, Host, EventLoop
<1> QED
  BY <1>1, <1>2, Invariance, FiredMappedInvariant, PTL DEF Spec, ImplementsOscMap, Table!Spec
=============================================================================
