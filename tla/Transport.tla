----------------------------- MODULE Transport -----------------------------
(***************************************************************************)
(* The surface script scripts/cso/touchosc1/transport.lua: the buttons of  *)
(* a TouchOSC layout that drive Ardour's transport, and the lights that    *)
(* show its state.                                                         *)
(*                                                                         *)
(* The functions of the script run on the event loop thread of the CSO, one*)
(* at a time.  The session is external: what the script asks of it with    *)
(* request_... is carried out later by the process thread, in order, while *)
(* transport_rolling() and rec_going_on() tell its present state; other    *)
(* users change that state as well, and every change leaves a signal for   *)
(* the event loop.                                                         *)
(*                                                                         *)
(* A button's function first asks for that state and decides (one step:    *)
(* what it reads are independent parts of it), then makes its requests one *)
(* by one, and a shuttle button's function looks once more to light "roll".*)
(* Between these steps the session and its other users go on.              *)
(*                                                                         *)
(* Left out: what only redraws something (clock, modes' labels, markers    *)
(* added, zoom), and the buttons whose functions raise an error before they*)
(* do anything (rec calls CSO:toggle_rec, which lua_init does not bind;    *)
(* minus and plus call the table m.tab1.encoder).                          *)
(***************************************************************************)
EXTENDS Integers, Sequences

CONSTANTS
  Buttons,        \* buttons in use, a subset of AllButtons
  HostDoes,       \* what other users change, a subset of {"roll", "rec", "loop"}
  HeartbeatEvery, \* send_heartbeat_every_nth_interval
  MaxPending      \* bound: requests decided on and not yet carried out

Shuttles == {"fast_rewind", "fast_forward"}
AllButtons == Shuttles \cup
  {"roll", "loop", "marker", "goto_start", "goto_end", "encoder", "mode", "tab1", "tab2"}

ASSUME TransportAssumption ==
  /\ Buttons \subseteq AllButtons
  /\ HostDoes \subseteq {"roll", "rec", "loop"}
  /\ HeartbeatEvery \in Nat \ {0}
  /\ MaxPending \in Nat \ {0, 1}

VARIABLES
  \* the session
  speed,     \* of the transport: 0, 1, or the shuttle speeds -8 and 8
  at_zero,   \* transport_frame() = 0
  play_loop, recording,
  pending,   \* requests made and not yet carried out
  signals,   \* kinds of signals not yet handled; equal ones coalesce, since
             \* their handler reads the present state
  \* the script
  todo,      \* requests the running function has decided on and not yet made
  lighting,  \* the shuttle button whose press has still to light "roll"
  transport_was_rolling, active_tab, encoder_mode, interval_counter,
  light,     \* m.tab1.roll, loop and rec: the value sent last (props.v)
  \* history
  held,      \* shuttle buttons whose latest message was the press
  before,    \* whether the transport rolled before they were pressed
  meddled,   \* something else had a hand in the transport since then
  crossed,   \* a press came while another button or a request was under way
  misled,    \* the session ignored a request the roll light relied on
  stale      \* how many of Ahead were decided on before recording began

session == <<speed, at_zero, play_loop, recording>>
history == <<held, before, meddled, crossed, misled, stale>>
script == <<transport_was_rolling, active_tab, encoder_mode, interval_counter, light>>
vars == <<session, pending, signals, todo, lighting, script, history>>

transport_rolling == speed # 0
rec_going_on == recording

Lights == [roll : BOOLEAN, loop : BOOLEAN, rec : BOOLEAN]
PresentState == [roll |-> transport_rolling, loop |-> play_loop, rec |-> rec_going_on]

Speed(s) == [kind |-> "speed", speed |-> s]
Stop == [kind |-> "stop"]
Locate(zero, roll) == [kind |-> "locate", zero |-> zero, roll |-> roll]
Loop(on) == [kind |-> "loop", on |-> on]

\* All that the session will be asked to do, as far as it is decided.
Ahead == pending \o todo

\* No function is running: the event loop may call the next one.
Free == todo = <<>> /\ lighting = "none"

\* The function of a button decides on its requests.
Decide(rs) ==
  /\ Len(pending) + Len(rs) <= MaxPending
  /\ todo' = rs

\* After cso_start: tab1 is active and has been updated.
Init ==
  /\ speed \in {0, 1} /\ at_zero \in BOOLEAN
  /\ play_loop = FALSE /\ recording \in BOOLEAN
  /\ pending = <<>> /\ signals = {} /\ todo = <<>> /\ lighting = "none"
  /\ transport_was_rolling = FALSE /\ active_tab = "tab1"
  /\ encoder_mode = 1 /\ interval_counter = 0
  /\ light = PresentState
  /\ held = {} /\ before = transport_rolling
  /\ meddled = FALSE /\ crossed = FALSE /\ misled = FALSE /\ stale = 0

-----------------------------------------------------------------------------
(* The shuttle buttons.                                                    *)

\* A press begins a new episode when nothing is under way.
Idle == held = {} /\ Ahead = <<>>

PressHistory(b) ==
  /\ held' = held \cup {b}
  /\ before' = IF Idle THEN transport_rolling ELSE before
  /\ meddled' = ((~Idle /\ meddled) \/ rec_going_on)
  /\ crossed' = ~Idle
  /\ UNCHANGED <<misled, stale>>

ReleaseHistory(b) ==
  /\ held' = held \ {b}
  /\ meddled' = (meddled \/ rec_going_on \/ b \notin held)
  /\ UNCHANGED <<before, crossed, misled, stale>>

\* What the two functions request on a press.
ShuttleRequests(b) ==
  IF b = "fast_rewind" THEN <<Speed(-8)>>
  ELSE IF ~transport_rolling /\ at_zero
       THEN <<Locate(FALSE, FALSE), Speed(8)>> ELSE <<Speed(8)>>

Press(b) ==
  /\ b \in Buttons \cap Shuttles /\ Free
  /\ IF rec_going_on
     THEN UNCHANGED <<todo, lighting, transport_was_rolling>>
     ELSE /\ transport_was_rolling' = transport_rolling
          /\ Decide(ShuttleRequests(b))
          /\ lighting' = b
  /\ PressHistory(b)
  /\ UNCHANGED <<session, pending, signals, active_tab, encoder_mode,
                 interval_counter, light>>

\* Mutant: the transport is only told to roll again, never to stop.
ResumeOnly(b) ==
  IF transport_was_rolling THEN Decide(<<Speed(1)>>) ELSE UNCHANGED todo

\* Mutant: the two answers are swapped.
ResumeSwapped(b) == Decide(<<IF transport_was_rolling THEN Stop ELSE Speed(1)>>)

\* Release: go on as before the press.
Resume(b) == Decide(<<IF transport_was_rolling THEN Speed(1) ELSE Stop>>)

Release(b) ==
  /\ b \in Buttons \cap Shuttles /\ Free
  /\ IF rec_going_on THEN UNCHANGED todo ELSE Resume(b)
  /\ ReleaseHistory(b)
  /\ UNCHANGED <<session, pending, signals, lighting, script>>

\* The running function makes its next request.
Ask ==
  /\ todo # <<>>
  /\ pending' = Append(pending, Head(todo))
  /\ todo' = Tail(todo)
  /\ UNCHANGED <<session, signals, lighting, script, history>>

\* Having asked for its speed, a press lights "roll"; fast_rewind looks at the
\* playhead first.
LightRoll ==
  /\ lighting # "none" /\ todo = <<>>
  /\ light' = [light EXCEPT !.roll = @ \/ lighting = "fast_forward" \/ ~at_zero]
  /\ lighting' = "none"
  /\ UNCHANGED <<session, pending, signals, todo, transport_was_rolling, active_tab,
                 encoder_mode, interval_counter, history>>

-----------------------------------------------------------------------------
(* The other buttons.  toggle_roll and toggle_loop are BasicUI's: they read*)
(* the present state and request its opposite.                             *)

\* A function that decides on one request, not for the shuttle buttons.
Other(r) ==
  /\ Free
  /\ Decide(<<r>>)
  /\ meddled' = TRUE
  /\ UNCHANGED <<session, pending, signals, lighting, script,
                 held, before, crossed, misled, stale>>

Roll ==
  /\ "roll" \in Buttons
  /\ Other(IF transport_rolling THEN Stop ELSE Speed(1))

ToggleLoop ==
  /\ "loop" \in Buttons
  /\ ~rec_going_on
  /\ Other(Loop(~play_loop))

\* Mutant: the playhead may be moved while recording.
MayMoveAlways == TRUE

MayMove == ~rec_going_on

\* prev_marker, next_marker and goto_start keep rolling, goto_end does not.
Goto(b) ==
  /\ b \in Buttons \cap {"marker", "goto_start", "goto_end"}
  /\ MayMove
  /\ IF b = "goto_end" THEN Other(Locate(FALSE, FALSE))
     ELSE \E zero \in BOOLEAN : Other(Locate(zero, transport_rolling))

\* The encoder steps the playhead, not below 0, when it is in that mode.
Encoder ==
  /\ "encoder" \in Buttons
  /\ encoder_mode = 1
  /\ MayMove
  /\ \E zero \in BOOLEAN : Other(Locate(zero, transport_rolling))

NextEncoderMode ==
  /\ "mode" \in Buttons /\ Free
  /\ encoder_mode' = 3 - encoder_mode
  /\ UNCHANGED <<session, pending, signals, todo, lighting, transport_was_rolling,
                 active_tab, light, interval_counter, history>>

\* Mutant: the loop light is not brought up to date when the tab comes back.
ShownOnTabNoLoop == [PresentState EXCEPT !.loop = light.loop]

ShownOnTab == PresentState

Tab1 ==
  /\ "tab1" \in Buttons /\ Free
  /\ active_tab' = "tab1"
  /\ light' = ShownOnTab
  /\ misled' = FALSE
  /\ UNCHANGED <<session, pending, signals, todo, lighting, transport_was_rolling,
                 encoder_mode, interval_counter, held, before, meddled, crossed, stale>>

Tab2 ==
  /\ "tab2" \in Buttons /\ Free
  /\ active_tab' = "tab2"
  /\ UNCHANGED <<session, pending, signals, todo, lighting, transport_was_rolling,
                 encoder_mode, interval_counter, light, history>>

-----------------------------------------------------------------------------
(* Signals of the session, and the timer.                                  *)

\* on_ardour_transport_state_changed and on_ardour_record_state_changed.
OnSignal(s) ==
  /\ s \in signals /\ Free
  /\ signals' = signals \ {s}
  /\ IF active_tab # "tab1" THEN UNCHANGED <<light, misled>>
     ELSE IF s = "record"
     THEN light' = [light EXCEPT !.rec = rec_going_on] /\ UNCHANGED misled
     ELSE /\ light' = [light EXCEPT !.roll = transport_rolling, !.loop = play_loop]
          /\ misled' = FALSE
  /\ UNCHANGED <<session, pending, todo, lighting, transport_was_rolling, active_tab,
                 encoder_mode, interval_counter, held, before, meddled, crossed, stale>>

\* Mutant: the counter is not set back.
AfterHeartbeatOn == interval_counter + 1

AfterHeartbeat == 1

\* cso_timer1: every so many calls the heartbeat is sent.
Timer ==
  /\ Free
  /\ IF interval_counter + 1 > HeartbeatEvery
     THEN interval_counter' = AfterHeartbeat
     ELSE interval_counter' = interval_counter + 1
  /\ UNCHANGED <<session, pending, signals, todo, lighting, transport_was_rolling,
                 active_tab, encoder_mode, light, history>>

-----------------------------------------------------------------------------
(* The session.                                                            *)

\* A transport state that really changes is signalled.
NewSpeed(s) ==
  /\ speed' = s
  /\ signals' = IF s # speed THEN signals \cup {"transport"} ELSE signals

\* The process thread carries out the oldest request.  A speed may be ignored
\* (at the session's end), and is when it would go backwards from 0.
Process ==
  /\ pending # <<>>
  /\ pending' = Tail(pending)
  /\ stale' = IF stale > 0 THEN stale - 1 ELSE 0
  /\ LET r == Head(pending) IN
     \/ /\ r.kind = "speed"
        /\ \/ /\ ~(r.speed < 0 /\ at_zero)
              /\ NewSpeed(r.speed)
              /\ UNCHANGED <<misled, meddled>>
           \/ /\ misled' = TRUE
              /\ meddled' = (meddled \/ r.speed = 1)
              /\ UNCHANGED <<speed, signals>>
        /\ UNCHANGED <<at_zero, play_loop>>
     \/ /\ r.kind = "stop"
        /\ NewSpeed(0)
        /\ UNCHANGED <<at_zero, play_loop, misled, meddled>>
     \/ /\ r.kind = "locate"
        /\ at_zero' = r.zero
        /\ NewSpeed(IF r.roll THEN 1 ELSE 0)
        /\ UNCHANGED <<play_loop, misled, meddled>>
     \/ /\ r.kind = "loop"
        /\ play_loop' = r.on
        /\ signals' = signals \cup {"transport"}
        /\ UNCHANGED <<speed, at_zero, misled, meddled>>
  /\ UNCHANGED <<recording, todo, lighting, script, held, before, crossed>>

\* The playhead moves; going backwards it stops at 0.
Advance ==
  /\ \/ speed > 0 /\ at_zero /\ at_zero' = FALSE /\ UNCHANGED <<speed, signals>>
     \/ speed < 0 /\ ~at_zero /\ at_zero' = TRUE /\ NewSpeed(0)
  /\ UNCHANGED <<play_loop, recording, pending, todo, lighting, script, history>>

Host(what) ==
  /\ what \in HostDoes
  /\ \/ /\ what = "roll"
        /\ NewSpeed(IF transport_rolling THEN 0 ELSE 1)
        /\ UNCHANGED <<play_loop, recording, stale>>
     \/ /\ what = "rec"
        /\ recording' = ~recording
        /\ stale' = IF recording THEN 0 ELSE Len(Ahead)
        /\ signals' = signals \cup {"record"}
        /\ UNCHANGED <<speed, play_loop>>
     \/ /\ what = "loop"
        /\ play_loop' = ~play_loop
        /\ signals' = signals \cup {"transport"}
        /\ UNCHANGED <<speed, recording, stale>>
  /\ meddled' = TRUE
  /\ UNCHANGED <<at_zero, pending, todo, lighting, script, held, before, crossed, misled>>

-----------------------------------------------------------------------------
Next ==
  \/ \E b \in Shuttles : Press(b) \/ Release(b)
  \/ Ask \/ LightRoll
  \/ Roll \/ ToggleLoop \/ Encoder \/ NextEncoderMode \/ Tab1 \/ Tab2
  \/ \E b \in {"marker", "goto_start", "goto_end"} : Goto(b)
  \/ \E s \in {"transport", "record"} : OnSignal(s)
  \/ \E what \in {"roll", "rec", "loop"} : Host(what)
  \/ Timer \/ Process \/ Advance

Spec == Init /\ [][Next]_vars

-----------------------------------------------------------------------------
(* Properties.                                                             *)

Requests ==
  {Speed(s) : s \in {-8, 1, 8}} \cup {Stop} \cup {Loop(on) : on \in BOOLEAN}
    \cup {Locate(zero, roll) : zero \in BOOLEAN, roll \in BOOLEAN}

\* The state has its type; the counter of the timer never passes the number
\* of intervals between two heartbeats.
TypeOK ==
  /\ speed \in {-8, 0, 1, 8}
  /\ at_zero \in BOOLEAN /\ play_loop \in BOOLEAN /\ recording \in BOOLEAN
  /\ transport_was_rolling \in BOOLEAN /\ before \in BOOLEAN
  /\ meddled \in BOOLEAN /\ crossed \in BOOLEAN /\ misled \in BOOLEAN
  /\ pending \in Seq(Requests) /\ todo \in Seq(Requests)
  /\ Len(pending) + Len(todo) <= MaxPending
  /\ lighting \in Shuttles \cup {"none"}
  /\ signals \subseteq {"transport", "record"}
  /\ active_tab \in {"tab1", "tab2"}
  /\ encoder_mode \in {1, 2}
  /\ interval_counter \in 0 .. HeartbeatEvery
  /\ light \in Lights
  /\ held \subseteq Shuttles
  /\ stale \in 0 .. MaxPending

\* Once every button is released and the requests are carried out, nobody is
\* left shuttling, unless something else interfered (recording makes the
\* release, too, return early).
ShuttleEnds == Idle /\ ~meddled => speed \in {0, 1}

\* "used to set roll status correctly after fast forward / rewind": one
\* button, pressed when nothing was under way, leaves the transport as it
\* found it.
RollRestored == Idle /\ ~meddled /\ ~crossed => transport_rolling = before

\* The comment without the exception.  (Refuted: the second of two presses
\* takes the shuttling of the first, or what a stop not yet carried out
\* leaves rolling, for the roll status to come back to.)
RollStatusCorrect == Idle /\ ~meddled => transport_rolling = before

\* The buttons that shuttle, loop or move the playhead ask whether Ardour is
\* recording, make their requests later, and the process thread acts later
\* still: another thread may begin to record at both places.  What disturbs a
\* recording was then pending when it began, or is what the one function that
\* had asked before still had to request; no function that asks while
\* recording goes on adds to it.
Disturbs(r) == r.kind \in {"locate", "loop"} \/ (r.kind = "speed" /\ r.speed # 1)
RecordingUndisturbed ==
  recording => \A n \in DOMAIN Ahead : Disturbs(Ahead[n]) => n <= stale

\* When nothing is under way, the lights of the visible tab show the state of
\* the session: every way to change it is signalled or refreshed, also what
\* changed while the other tab was open.  The roll light, set by the shuttle
\* buttons in advance, may be wrong only while the session ignored them.
LightsTrue ==
  active_tab = "tab1" /\ Free /\ pending = <<>> /\ signals = {} =>
    /\ light.loop = play_loop /\ light.rec = rec_going_on
    /\ misled \/ light.roll = transport_rolling
=============================================================================
