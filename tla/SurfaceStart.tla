---------------------------- MODULE SurfaceStart ----------------------------
(***************************************************************************)
(* How a TouchOSC surface script maps its widgets: cso_start runs          *)
(* tosc_create_osc_mappings_from_model (scripts/cso/touchosc.lua), which   *)
(* sends one /map/add per widget to the surface's own OSC server, through  *)
(* cso_map_add (libs/surfaces/cso/cso.lua), and defines the Lua function   *)
(* the mapping names.                                                      *)
(*                                                                         *)
(* The sender is the host thread inside cso_start; the receiver is the     *)
(* event loop thread, already running.  Between them is a UDP socket that  *)
(* drops what it cannot hold, and nobody sends again.  The surface may send*)
(* messages of its own at any time.                                        *)
(***************************************************************************)
EXTENDS Naturals, Sequences

CONSTANTS
  Widgets,  \* of the model, tabs among them; each has its own path and types
  Names,    \* what string.random can return
  None,     \* no widget, no name
  MaxInbox  \* capacity of the server's socket

ASSUME StartAssumption ==
  /\ MaxInbox \in Nat \ {0}
  /\ None \notin Widgets \cup Names

VARIABLES
  todo,     \* widgets the loop over the model has not come to
  current,  \* the widget whose mapping was sent and whose function was not defined
  random,   \* widget |-> name made up for its function (props.random)
  luaFn,    \* name |-> the widget whose :event the function calls, or None
  inbox,    \* messages in the socket
  osc_map,  \* widget, for its address |-> name of the mapped function, or None
  lost,     \* history: widgets whose /map/add was dropped
  fired,    \* history: the latest press that was answered, and whose :event it got
  unheard   \* history: the widget of the latest press that found no function, or None

vars == <<todo, current, random, luaFn, inbox, osc_map, lost, fired, unheard>>

Add(w) == [kind |-> "/map/add", widget |-> w]
Press(w) == [kind |-> "press", widget |-> w]

\* The model has been built and every widget given its name.  Two names are
\* the same when the generator, seeded with the time, is asked twice in the
\* same microsecond.
Init ==
  /\ todo = Widgets /\ current = None
  /\ random \in [Widgets -> Names]
  /\ luaFn = [n \in Names |-> None]
  /\ inbox = <<>>
  /\ osc_map = [w \in Widgets |-> None]
  /\ lost = {} /\ fired = <<>> /\ unheard = None

-----------------------------------------------------------------------------
(* The host thread, in cso_start.                                          *)

\* Mutant: nothing is sent for a widget that has another's name.
CsoMapAddNewNames(w) ==
  /\ inbox' = IF luaFn[random[w]] = None THEN Append(inbox, Add(w)) ELSE inbox
  /\ UNCHANGED lost

\* Mutant: the name of the function is sent where the path belongs.
CsoMapAddSwapped(w) ==
  IF Len(inbox) < MaxInbox
  THEN inbox' = Append(inbox, Add(random[w])) /\ UNCHANGED lost
  ELSE lost' = lost \cup {w} /\ UNCHANGED inbox

\* cso_map_add: an OSC message to the surface itself.
CsoMapAdd(w) ==
  IF Len(inbox) < MaxInbox
  THEN inbox' = Append(inbox, Add(w)) /\ UNCHANGED lost
  ELSE lost' = lost \cup {w} /\ UNCHANGED inbox

MapNext(w) ==
  /\ current = None
  /\ w \in todo
  /\ CsoMapAdd(w)
  /\ todo' = todo \ {w}
  /\ current' = w
  /\ UNCHANGED <<random, luaFn, osc_map, fired, unheard>>

\* Mutant: the text of the function is loaded but not called.
FunctionNotDefined(w) == luaFn

FunctionDefined(w) == [luaFn EXCEPT ![random[w]] = w]

\* load(str)() defines the function the mapping names.
Load ==
  /\ current # None
  /\ luaFn' = FunctionDefined(current)
  /\ current' = None
  /\ UNCHANGED <<todo, random, inbox, osc_map, lost, fired, unheard>>

-----------------------------------------------------------------------------
(* The surface, and the event loop thread of the CSO.                      *)

Touch(w) ==
  /\ Len(inbox) < MaxInbox
  /\ inbox' = Append(inbox, Press(w))
  /\ UNCHANGED <<todo, current, random, luaFn, osc_map, lost, fired, unheard>>

ReceiveAdd ==
  /\ inbox # <<>>
  /\ Head(inbox).kind = "/map/add"
  /\ osc_map' = [osc_map EXCEPT ![Head(inbox).widget] = random[Head(inbox).widget]]
  /\ inbox' = Tail(inbox)
  /\ UNCHANGED <<todo, current, random, luaFn, lost, fired, unheard>>

\* Mutant: the mapping is looked up by path alone and finds another widget.
EventOfAnother(w) ==
  IF \E v \in Widgets : osc_map[v] # None
  THEN luaFn[osc_map[CHOOSE v \in Widgets : osc_map[v] # None]] ELSE None

\* The widget whose :event a message of w reaches.
EventOf(w) == IF osc_map[w] = None THEN None ELSE luaFn[osc_map[w]]

ReceivePress ==
  /\ inbox # <<>>
  /\ Head(inbox).kind = "press"
  /\ LET w == Head(inbox).widget IN
     IF EventOf(w) # None
     THEN fired' = <<w, EventOf(w)>> /\ unheard' = None
     ELSE unheard' = w /\ UNCHANGED fired
  /\ inbox' = Tail(inbox)
  /\ UNCHANGED <<todo, current, random, luaFn, osc_map, lost>>

-----------------------------------------------------------------------------
Host == Load \/ \E w \in Widgets : MapNext(w)
EventLoop == ReceiveAdd \/ ReceivePress
Next == Host \/ EventLoop \/ \E w \in Widgets : Touch(w)

\* Both threads are scheduled.
Spec == Init /\ [][Next]_vars /\ WF_vars(Host) /\ WF_vars(EventLoop)

-----------------------------------------------------------------------------
(* Properties.                                                             *)

Messages == {Add(w) : w \in Widgets} \cup {Press(w) : w \in Widgets}

\* The state has its type: in the socket are only messages to addresses of widgets,
\* and those are mapped to names that were made up.
TypeOK ==
  /\ todo \subseteq Widgets
  /\ current \in Widgets \cup {None}
  /\ random \in [Widgets -> Names]
  /\ luaFn \in [Names -> Widgets \cup {None}]
  /\ inbox \in Seq(Messages)
  /\ osc_map \in [Widgets -> Names \cup {None}]
  /\ lost \subseteq Widgets
  /\ fired \in {<<>>} \cup (Widgets \X Widgets)
  /\ unheard \in Widgets \cup {None}

UnderWay == {w \in Widgets : \E i \in 1 .. Len(inbox) : inbox[i] = Add(w)}

\* Every widget is to come, under way, mapped, or was lost: no mapping
\* disappears but by the socket, and one lost is never made up for, not even
\* after start() is done.
Accounted ==
  \A w \in Widgets :
    (osc_map[w] = None) <=> (w \in todo \cup lost \cup UnderWay)

\* A mapped widget is deaf at most while the host is between sending its
\* mapping and defining its function.
DeafOnlyInWindow ==
  \A w \in Widgets : osc_map[w] # None /\ EventOf(w) = None =>
    current # None /\ random[current] = random[w]

\* A press gets the :event of its own widget, unless string.random gave the
\* widget the name of another.
RightEvent ==
  fired # <<>> => fired[1] = fired[2] \/ random[fired[1]] = random[fired[2]]

\* Seen from outside, the mapping phase only adds to the abstract table: a
\* mapping that arrives binds its widget's address to the name made up for it,
\* and a press enters the function its address is bound to at that moment.
\* What the socket drops, and presses without a function, change nothing.
Bindings == [a \in Widgets \X {"types"} |-> osc_map[a[1]]]
LatestCall ==
  IF fired = <<>> THEN <<>>
  ELSE [path |-> fired[1], types |-> "types", method |-> random[fired[1]], args |-> "types"]
Table == INSTANCE OscMap WITH
  Paths <- Widgets, Types <- {"types"}, Methods <- Names,
  NoMethod <- None, NoCall <- <<>>, bind <- Bindings, lastCall <- LatestCall
ImplementsOscMap == Table!Spec

\* Every widget is answered in the end and from then on, or its mapping was
\* lost.
EventuallyMapped ==
  \A w \in Widgets : <>[](EventOf(w) # None \/ w \in lost)
=============================================================================
