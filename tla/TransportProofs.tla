-------------------------- MODULE TransportProofs --------------------------
(***************************************************************************)
(* Proofs about Transport, for every set of buttons, whatever other users  *)
(* do, and every bound on pending requests.                                *)
(***************************************************************************)
EXTENDS Transport, TLAPS

-----------------------------------------------------------------------------
(* Requests.                                                               *)

\* What a request of each kind holds.
LEMMA RequestKinds ==
  ASSUME NEW r \in Requests
  PROVE  /\ r.kind \in {"speed", "stop", "locate", "loop"}
         /\ r.kind = "speed" => r.speed \in {-8, 1, 8} /\ r = Speed(r.speed)
         /\ r.kind = "stop" => r = Stop
         /\ r.kind = "locate" => r.zero \in BOOLEAN /\ r.roll \in BOOLEAN
         /\ r.kind = "loop" => r.on \in BOOLEAN
<1>1. CASE \E s \in {-8, 1, 8} : r = Speed(s)
  BY <1>1 DEF Speed
<1>2. CASE r = Stop
  BY <1>2 DEF Stop
<1>3. CASE \E on \in BOOLEAN : r = Loop(on)
  BY <1>3 DEF Loop
<1>4. CASE \E zero \in BOOLEAN, roll \in BOOLEAN : r = Locate(zero, roll)
  BY <1>4 DEF Locate
<1> QED
  BY <1>1, <1>2, <1>3, <1>4 DEF Requests

\* What the buttons request.
LEMMA RequestsMade ==
  /\ \A s \in {-8, 1, 8} : Speed(s) \in Requests
  /\ Stop \in Requests
  /\ \A on \in BOOLEAN : Loop(on) \in Requests
  /\ \A zero \in BOOLEAN, roll \in BOOLEAN : Locate(zero, roll) \in Requests
BY DEF Requests

\* Ahead holds what is pending, then what is still to do.
LEMMA AheadHolds ==
  ASSUME TypeOK
  PROVE  /\ Ahead \in Seq(Requests)
         /\ Len(Ahead) = Len(pending) + Len(todo) /\ Len(Ahead) <= MaxPending
         /\ Len(pending) \in Nat /\ Len(todo) \in Nat
         /\ DOMAIN Ahead = 1 .. Len(pending) + Len(todo)
         /\ \A n \in 1 .. Len(pending) : Ahead[n] = pending[n]
         /\ \A n \in 1 .. Len(todo) : Ahead[Len(pending) + n] = todo[n]
         /\ Ahead = <<>> <=> (pending = <<>> /\ todo = <<>>)
BY DEF TypeOK, Ahead

\* What a function decides on comes behind all that is ahead.
LEMMA Requested ==
  ASSUME TypeOK, TypeOK', NEW rs \in Seq(Requests), Decide(rs), todo = <<>>, UNCHANGED pending
  PROVE  /\ Len(Ahead') = Len(Ahead) + Len(rs)
         /\ Len(Ahead) \in Nat /\ Len(rs) \in Nat
         /\ DOMAIN Ahead' = 1 .. Len(Ahead) + Len(rs)
         /\ DOMAIN Ahead = 1 .. Len(Ahead)
         /\ \A n \in DOMAIN Ahead : n \in DOMAIN Ahead' /\ Ahead'[n] = Ahead[n]
         /\ \A n \in 1 .. Len(rs) : Ahead'[Len(Ahead) + n] = rs[n]
BY DEF TypeOK, Decide, Ahead

\* Making a request that was decided on leaves what is ahead.
LEMMA AskKeeps ==
  ASSUME TypeOK, Ask
  PROVE  Ahead' = Ahead
<1>1. /\ todo \in Seq(Requests) /\ todo # <<>> /\ pending \in Seq(Requests)
      /\ pending' = Append(pending, Head(todo)) /\ todo' = Tail(todo)
  BY DEF TypeOK, Ask
<1>2. Len(Ahead') = Len(Ahead) /\ DOMAIN Ahead' = DOMAIN Ahead
  BY <1>1 DEF Ahead
<1>3. ASSUME NEW n \in DOMAIN Ahead PROVE Ahead'[n] = Ahead[n]
  <2>1. CASE n <= Len(pending)
    BY <1>1, <1>3, <2>1 DEF Ahead
  <2>2. CASE n = Len(pending) + 1
    BY <1>1, <1>3, <2>2 DEF Ahead
  <2>3. CASE n > Len(pending) + 1
    BY <1>1, <1>3, <2>3 DEF Ahead
  <2> QED
    BY <1>1, <1>3, <2>1, <2>2, <2>3 DEF Ahead
<1>4. Ahead \in Seq(Requests) /\ Ahead' \in Seq(Requests)
  BY <1>1 DEF Ahead
<1> QED
  BY <1>2, <1>3, <1>4

\* The oldest request is taken away.
LEMMA Taken ==
  ASSUME TypeOK, pending # <<>>, pending' = Tail(pending), todo' = todo
  PROVE  /\ Head(pending) \in Requests /\ Head(pending) = Ahead[1]
         /\ Len(Ahead) \in Nat \ {0}
         /\ Ahead' \in Seq(Requests) /\ Len(Ahead') = Len(Ahead) - 1
         /\ DOMAIN Ahead' = 1 .. Len(Ahead) - 1
         /\ DOMAIN Ahead = 1 .. Len(Ahead)
         /\ \A n \in DOMAIN Ahead' : n + 1 \in DOMAIN Ahead /\ Ahead'[n] = Ahead[n + 1]
         /\ \A n \in DOMAIN Ahead : n # 1 => n - 1 \in DOMAIN Ahead' /\ Ahead'[n - 1] = Ahead[n]
<1>1. /\ pending \in Seq(Requests) /\ todo \in Seq(Requests)
      /\ Head(pending) \in Requests /\ Head(pending) = Ahead[1]
      /\ Ahead' \in Seq(Requests) /\ Ahead \in Seq(Requests)
      /\ Len(Ahead) = Len(pending) + Len(todo) /\ Len(Ahead') = Len(Ahead) - 1
      /\ Len(pending) \in Nat \ {0} /\ Len(todo) \in Nat
  BY DEF TypeOK, Ahead
<1>2. ASSUME NEW n \in 1 .. Len(Ahead) - 1 PROVE Ahead'[n] = Ahead[n + 1]
  <2>1. CASE n <= Len(pending) - 1
    BY <1>1, <1>2, <2>1 DEF Ahead
  <2>2. CASE n > Len(pending) - 1
    BY <1>1, <1>2, <2>2 DEF Ahead
  <2> QED
    BY <1>1, <1>2, <2>1, <2>2
<1>3. /\ Len(Ahead) \in Nat \ {0}
      /\ DOMAIN Ahead = 1 .. Len(Ahead) /\ DOMAIN Ahead' = 1 .. Len(Ahead) - 1
  BY <1>1
<1>4. \A n \in DOMAIN Ahead' : n + 1 \in DOMAIN Ahead /\ Ahead'[n] = Ahead[n + 1]
  BY <1>2, <1>3
<1>5. ASSUME NEW n \in DOMAIN Ahead, n # 1
      PROVE  n - 1 \in DOMAIN Ahead' /\ Ahead'[n - 1] = Ahead[n]
  <2>1. n - 1 \in 1 .. Len(Ahead) - 1 /\ (n - 1) + 1 = n
    BY <1>3, <1>5
  <2> QED
    BY <1>2, <1>3, <2>1
<1> QED
  BY <1>1, <1>3, <1>4, <1>5

-----------------------------------------------------------------------------
(* Types.                                                                  *)

\* What the buttons append is a request.
LEMMA MadeSequences ==
  /\ \A r \in Requests : <<r>> \in Seq(Requests) /\ Len(<<r>>) = 1 /\ <<r>>[1] = r
  /\ \A r, q \in Requests :
       <<r, q>> \in Seq(Requests) /\ Len(<<r, q>>) = 2 /\ <<r, q>>[1] = r /\ <<r, q>>[2] = q
OBVIOUS

\* A function decides on one request.
LEMMA RequestedOne ==
  ASSUME TypeOK, TypeOK', NEW r \in Requests, Decide(<<r>>), todo = <<>>, UNCHANGED pending
  PROVE  /\ Len(Ahead') = Len(Ahead) + 1 /\ Len(Ahead) \in Nat
         /\ DOMAIN Ahead' = 1 .. Len(Ahead) + 1
         /\ DOMAIN Ahead = 1 .. Len(Ahead)
         /\ \A n \in DOMAIN Ahead : n \in DOMAIN Ahead' /\ Ahead'[n] = Ahead[n]
         /\ Ahead'[Len(Ahead')] = r /\ Ahead'[Len(Ahead) + 1] = r
         /\ Ahead' # <<>>
<1> DEFINE rs == <<r>>
<1>1. rs \in Seq(Requests) /\ Len(rs) = 1 /\ rs[1] = r
  BY MadeSequences
<1>2. Decide(rs)
  OBVIOUS
<1> HIDE DEF rs
<1>3. /\ Len(Ahead') = Len(Ahead) + 1 /\ Len(Ahead) \in Nat
      /\ DOMAIN Ahead' = 1 .. Len(Ahead) + 1
      /\ DOMAIN Ahead = 1 .. Len(Ahead)
      /\ \A n \in DOMAIN Ahead : n \in DOMAIN Ahead' /\ Ahead'[n] = Ahead[n]
      /\ Ahead'[Len(Ahead) + 1] = r
  BY <1>1, <1>2, Requested
<1>4. Ahead' # <<>>
  BY <1>3
<1> QED
  BY <1>3, <1>4

\* A press requests one shuttle speed, the last of its requests.
LEMMA ShuttleRequested ==
  ASSUME NEW b \in Shuttles
  PROVE  /\ ShuttleRequests(b) \in Seq(Requests)
         /\ Len(ShuttleRequests(b)) \in {1, 2}
         /\ ShuttleRequests(b)[Len(ShuttleRequests(b))] \in {Speed(-8), Speed(8)}
<1>1. {Speed(-8), Speed(8), Locate(FALSE, FALSE)} \subseteq Requests
  BY RequestsMade
<1>2. CASE ShuttleRequests(b) \in {<<Speed(-8)>>, <<Speed(8)>>}
  BY <1>1, <1>2, MadeSequences
<1>3. CASE ShuttleRequests(b) = <<Locate(FALSE, FALSE), Speed(8)>>
  <2> DEFINE rs == <<Locate(FALSE, FALSE), Speed(8)>>
  <2>1. rs \in Seq(Requests) /\ Len(rs) = 2 /\ rs[2] = Speed(8)
    BY <1>1, MadeSequences
  <2> QED
    BY <1>3, <2>1
<1> QED
  BY <1>2, <1>3 DEF ShuttleRequests

\* A function that decides on requests keeps the bound on what is ahead.
LEMMA Decided ==
  ASSUME TypeOK, UNCHANGED pending,
         \/ UNCHANGED todo
         \/ \E r \in Requests : Decide(<<r>>)
         \/ \E b \in Shuttles : Decide(ShuttleRequests(b))
  PROVE  /\ todo' \in Seq(Requests) /\ pending' \in Seq(Requests)
         /\ Len(pending') + Len(todo') <= MaxPending
<1>1. CASE UNCHANGED todo
  BY <1>1 DEF TypeOK
<1>2. CASE \E rs \in Seq(Requests) : Decide(rs)
  BY <1>2 DEF TypeOK, Decide
<1> QED
  BY <1>1, <1>2, MadeSequences, ShuttleRequested

\* Every step keeps the types.
LEMMA TypeStep ==
  ASSUME TypeOK, [Next]_vars
  PROVE  TypeOK'
<1> USE TransportAssumption
<1>1. ASSUME NEW b \in Shuttles, Press(b) PROVE TypeOK'
  <2>1. /\ todo' \in Seq(Requests) /\ pending' \in Seq(Requests)
        /\ Len(pending') + Len(todo') <= MaxPending
    BY <1>1, Decided DEF Press
  <2>2. transport_was_rolling' \in BOOLEAN /\ lighting' \in Shuttles \cup {"none"}
    BY <1>1 DEF Press, TypeOK, transport_rolling
  <2>3. before' \in BOOLEAN /\ meddled' \in BOOLEAN /\ crossed' \in BOOLEAN
    BY <1>1 DEF Press, PressHistory, TypeOK, transport_rolling
  <2>4. /\ UNCHANGED <<session, pending, signals, active_tab, encoder_mode,
                       interval_counter, light, misled, stale>>
        /\ held' = held \cup {b}
    BY <1>1, Zenon DEF Press, PressHistory
  <2> QED
    BY <2>1, <2>2, <2>3, <2>4 DEF TypeOK, session
<1>2. ASSUME NEW b \in Shuttles, Release(b) PROVE TypeOK'
  <2>1. /\ todo' \in Seq(Requests) /\ pending' \in Seq(Requests)
        /\ Len(pending') + Len(todo') <= MaxPending
    <3>1. UNCHANGED todo \/ \E r \in {Speed(1), Stop} : Decide(<<r>>)
      BY <1>2 DEF Release, Resume
    <3> QED
      BY <1>2, <3>1, RequestsMade, Decided DEF Release
  <2>2. meddled' \in BOOLEAN
    BY <1>2 DEF Release, ReleaseHistory, TypeOK
  <2>3. /\ UNCHANGED <<session, signals, lighting, script, before, crossed, misled, stale>>
        /\ held' = held \ {b}
    BY <1>2, Zenon DEF Release, ReleaseHistory
  <2> QED
    BY <2>1, <2>2, <2>3 DEF TypeOK, session, script
<1>3. ASSUME NEW r \in Requests, Other(r) PROVE TypeOK'
  <2>1. /\ todo' \in Seq(Requests) /\ pending' \in Seq(Requests)
        /\ Len(pending') + Len(todo') <= MaxPending
    BY <1>3, Decided DEF Other
  <2>2. /\ UNCHANGED <<session, pending, signals, lighting, script,
                       held, before, crossed, misled, stale>>
        /\ meddled' \in BOOLEAN
    BY <1>3, Zenon DEF Other
  <2> QED
    BY <2>1, <2>2 DEF TypeOK, session, script
<1>4. CASE Roll
  BY <1>3, <1>4, RequestsMade DEF Roll
<1>5. CASE ToggleLoop
  BY <1>3, <1>5, RequestsMade DEF ToggleLoop, TypeOK
<1>6. CASE Encoder \/ \E b \in {"marker", "goto_start", "goto_end"} : Goto(b)
  BY <1>3, <1>6, RequestsMade DEF Encoder, Goto, transport_rolling
<1>7. CASE NextEncoderMode
  BY <1>7 DEF NextEncoderMode, TypeOK, session, history
<1>8. CASE Tab1 \/ Tab2
  <2>1. PresentState \in Lights
    BY DEF PresentState, Lights, TypeOK, transport_rolling, rec_going_on
  <2>2. light' \in Lights /\ misled' \in BOOLEAN
    BY <1>8, <2>1 DEF Tab1, Tab2, ShownOnTab, TypeOK, history
  <2>3. /\ UNCHANGED <<session, pending, signals, todo, lighting, transport_was_rolling,
                       encoder_mode, interval_counter, held, before, meddled, crossed, stale>>
        /\ active_tab' \in {"tab1", "tab2"}
    BY <1>8 DEF Tab1, Tab2, history
  <2> QED
    BY <2>2, <2>3 DEF TypeOK, session
<1>9. ASSUME NEW s \in {"transport", "record"}, OnSignal(s) PROVE TypeOK'
  <2>1. light' \in Lights
    BY <1>9 DEF OnSignal, TypeOK, Lights, transport_rolling, rec_going_on
  <2>2. misled' \in BOOLEAN
    BY <1>9 DEF OnSignal, TypeOK
  <2>3. UNCHANGED <<session, pending, todo, lighting, transport_was_rolling, active_tab,
                    encoder_mode, interval_counter, held, before, meddled, crossed, stale>>
        /\ signals' = signals \ {s}
    BY <1>9, Zenon DEF OnSignal
  <2> QED
    BY <2>1, <2>2, <2>3 DEF TypeOK, session
<1>10. CASE Timer
  BY <1>10 DEF Timer, AfterHeartbeat, TypeOK, session, history
<1>11. CASE Process
  <2> DEFINE r == Head(pending)
  <2>1. /\ pending # <<>> /\ pending' = Tail(pending) /\ todo' = todo
        /\ r \in Requests /\ pending' \in Seq(Requests)
        /\ Len(pending') + Len(todo') <= MaxPending
    BY <1>11 DEF Process, TypeOK
  <2>2. /\ speed' \in {-8, 0, 1, 8} /\ signals' \subseteq {"transport", "record"}
    BY <1>11, <2>1, RequestKinds DEF Process, NewSpeed, TypeOK
  <2>3. at_zero' \in BOOLEAN /\ play_loop' \in BOOLEAN
    BY <1>11, <2>1, RequestKinds DEF Process, TypeOK
  <2>4. misled' \in BOOLEAN /\ meddled' \in BOOLEAN
    BY <1>11 DEF Process, TypeOK
  <2>5. stale' \in 0 .. MaxPending
    BY <1>11 DEF Process, TypeOK
  <2>6. UNCHANGED <<recording, todo, lighting, script, held, before, crossed>>
    BY <1>11, Zenon DEF Process
  <2> QED
    BY <2>1, <2>2, <2>3, <2>4, <2>5, <2>6 DEF TypeOK, script
<1>12. CASE Advance
  <2>1. at_zero' \in BOOLEAN
    BY <1>12 DEF Advance
  <2>2. /\ speed' \in {speed, 0} /\ signals' \subseteq signals \cup {"transport"}
        /\ UNCHANGED <<play_loop, recording, pending, todo, lighting, script, history>>
    BY <1>12 DEF Advance, NewSpeed
  <2> QED
    BY <2>1, <2>2 DEF TypeOK, history, script
<1>13. ASSUME NEW what \in {"roll", "rec", "loop"}, Host(what) PROVE TypeOK'
  <2>1. meddled' \in BOOLEAN
    BY <1>13, Zenon DEF Host
  <2>2. recording' \in BOOLEAN /\ play_loop' \in BOOLEAN
    BY <1>13 DEF Host, TypeOK
  <2>3. stale' \in 0 .. MaxPending
    BY <1>13, AheadHolds DEF Host, TypeOK
  <2>4. speed' \in {-8, 0, 1, 8} /\ signals' \subseteq {"transport", "record"}
    BY <1>13 DEF Host, NewSpeed, TypeOK
  <2>5. UNCHANGED <<at_zero, pending, todo, lighting, script, held, before, crossed, misled>>
    BY <1>13, Zenon DEF Host
  <2> QED
    BY <2>1, <2>2, <2>3, <2>4, <2>5 DEF TypeOK, script
<1>14. CASE Ask
  <2>1. /\ pending' \in Seq(Requests) /\ todo' \in Seq(Requests)
        /\ Len(pending') + Len(todo') <= MaxPending
    BY <1>14 DEF Ask, TypeOK
  <2>2. UNCHANGED <<session, signals, lighting, script, history>>
    BY <1>14, Zenon DEF Ask
  <2> QED
    BY <2>1, <2>2 DEF TypeOK, session, script, history
<1>15. CASE LightRoll
  <2>1. light' \in Lights
    BY <1>15 DEF LightRoll, TypeOK, Lights
  <2>2. /\ UNCHANGED <<session, pending, signals, todo, transport_was_rolling, active_tab,
                       encoder_mode, interval_counter, history>>
        /\ lighting' = "none"
    BY <1>15, Zenon DEF LightRoll
  <2> QED
    BY <2>1, <2>2 DEF TypeOK, session, history
<1>16. CASE UNCHANGED vars
  BY <1>16 DEF vars, session, script, history, TypeOK
<1> QED
  BY <1>1, <1>2, <1>4, <1>5, <1>6, <1>7, <1>8, <1>9, <1>10, <1>11, <1>12, <1>13, <1>14, <1>15, <1>16
     DEF Next

\* The state always has its type.
THEOREM TypeCorrect == Spec => []TypeOK
<1>1. Init => TypeOK
  <2> SUFFICES ASSUME Init PROVE TypeOK
    OBVIOUS
  <2>1. light \in Lights /\ before \in BOOLEAN
    BY DEF Init, PresentState, Lights, transport_rolling, rec_going_on
  <2>2. /\ play_loop \in BOOLEAN /\ transport_was_rolling \in BOOLEAN
        /\ meddled \in BOOLEAN /\ crossed \in BOOLEAN /\ misled \in BOOLEAN
    BY Zenon DEF Init
  <2> QED
    BY <2>1, <2>2, TransportAssumption DEF Init, TypeOK
<1> QED
  BY <1>1, TypeStep, PTL DEF Spec

-----------------------------------------------------------------------------
(* Shuttling.                                                              *)

Last == Ahead[Len(Ahead)]

\* When no button is held, what the session will do last is to roll at normal
\* speed or to stand still.
Settles ==
  ~meddled /\ held = {} =>
    IF Ahead = <<>> THEN speed \in {0, 1} ELSE Last \in {Speed(1), Stop}

\* During one press, the script remembers how the transport was; after the
\* release the last request, when it is carried out, brings that back.
Restores ==
  ~meddled /\ ~crossed =>
    IF held # {} THEN transport_was_rolling = before
    ELSE IF Ahead = <<>> THEN transport_rolling = before
    ELSE Last = IF before THEN Speed(1) ELSE Stop

-----------------------------------------------------------------------------
(* The lights.                                                             *)

Signalled == "transport" \in signals
ShuttleAhead == \E n \in DOMAIN Ahead : Ahead[n] \in {Speed(-8), Speed(8)}

\* A shuttle speed is ahead, or the session has taken or ignored it.
ShuttleAsked == ShuttleAhead \/ Signalled \/ misled \/ transport_rolling

\* A light that is wrong has its signal on the way, or was switched on for a
\* shuttle speed that is still ahead.
LightsFollow ==
  /\ active_tab = "tab1" =>
       /\ "record" \in signals \/ light.rec = rec_going_on
       /\ Signalled \/ light.loop = play_loop
       /\ \/ Signalled \/ misled \/ light.roll = transport_rolling
          \/ light.roll /\ ShuttleAhead
  /\ lighting # "none" => ShuttleAsked

-----------------------------------------------------------------------------
(* The steps.                                                              *)

\* Carrying out a request takes it away; what was asked last stays last.
LEMMA ProcessTakes ==
  ASSUME TypeOK, Process
  PROVE  /\ Head(pending) \in Requests /\ Head(pending) = Ahead[1]
         /\ Len(Ahead) \in Nat \ {0}
         /\ Len(Ahead) = 1 => Ahead' = <<>> /\ Last = Head(pending)
         /\ Len(Ahead) # 1 => Ahead' # <<>> /\ Last' = Last
         /\ Ahead # <<>>
<1>1. pending # <<>> /\ pending' = Tail(pending) /\ todo' = todo
  BY Zenon DEF Process
<1>2. /\ Head(pending) \in Requests /\ Head(pending) = Ahead[1]
      /\ Len(Ahead) \in Nat \ {0}
      /\ Ahead' \in Seq(Requests) /\ Len(Ahead') = Len(Ahead) - 1
      /\ \A n \in 1 .. Len(Ahead) - 1 : Ahead'[n] = Ahead[n + 1]
  BY <1>1, Taken
<1>3. ASSUME Len(Ahead) = 1 PROVE Ahead' = <<>> /\ Last = Head(pending)
  BY <1>2, <1>3 DEF Last
<1>4. ASSUME Len(Ahead) # 1 PROVE Ahead' # <<>> /\ Last' = Last
  <2>1. Len(Ahead) - 1 \in 1 .. Len(Ahead) - 1
    BY <1>2, <1>4
  <2>2. Ahead'[Len(Ahead) - 1] = Ahead[(Len(Ahead) - 1) + 1]
    BY <1>2, <2>1
  <2>3. (Len(Ahead) - 1) + 1 = Len(Ahead) /\ Len(Ahead') # 0
    BY <1>2, <1>4
  <2>4. Last' = Last
    BY <1>2, <2>2, <2>3 DEF Last
  <2> QED
    BY <2>3, <2>4
<1>5. Ahead # <<>>
  BY <1>1, AheadHolds
<1> QED
  BY <1>2, <1>3, <1>4, <1>5

\* What a carried out Stop or Speed(1) does.
LEMMA SettlingProcessed ==
  ASSUME TypeOK, Process
  PROVE  /\ Head(pending) = Stop => speed' = 0
         /\ Head(pending) = Speed(1) => speed' = 1 \/ meddled' = TRUE
<1>1. ASSUME Head(pending) = Stop PROVE speed' = 0
  <2>1. Head(pending).kind = "stop"
    BY <1>1 DEF Stop
  <2> QED
    BY <2>1 DEF Process, NewSpeed
<1>2. ASSUME Head(pending) = Speed(1) PROVE speed' = 1 \/ meddled' = TRUE
  <2>1. Head(pending).kind = "speed" /\ Head(pending).speed = 1
    BY <1>2 DEF Speed
  <2> QED
    BY <2>1 DEF Process, NewSpeed
<1> QED
  BY <1>1, <1>2

\* Neither what is ahead nor the transport, the buttons, or their history change.
Aside == UNCHANGED <<Ahead, speed, held, before, meddled, crossed, transport_was_rolling>>

\* The steps that leave all of that.
LEMMA AsideSteps ==
  ASSUME TypeOK,
         \/ Ask \/ LightRoll \/ NextEncoderMode \/ Tab1 \/ Tab2 \/ Timer \/ UNCHANGED vars
         \/ \E s \in {"transport", "record"} : OnSignal(s)
  PROVE  Aside
<1>1. CASE Ask
  BY <1>1, AskKeeps DEF Aside, Ask, session, script, history
<1>2. CASE \/ LightRoll \/ NextEncoderMode \/ Tab1 \/ Tab2 \/ Timer \/ UNCHANGED vars
           \/ \E s \in {"transport", "record"} : OnSignal(s)
  <2>1. UNCHANGED <<pending, todo, speed, held, before, meddled, crossed, transport_was_rolling>>
    BY <1>2 DEF LightRoll, NextEncoderMode, Tab1, Tab2, Timer, OnSignal, vars, session, script, history
  <2> QED
    BY <2>1 DEF Aside, Ahead
<1> QED
  BY <1>1, <1>2

\* The other buttons and users meddle.
LEMMA MeddlingSteps ==
  ASSUME \/ Roll \/ ToggleLoop \/ Encoder
         \/ \E b \in {"marker", "goto_start", "goto_end"} : Goto(b)
         \/ \E what \in {"roll", "rec", "loop"} : Host(what)
  PROVE  meddled' = TRUE
BY Zenon DEF Roll, ToggleLoop, Encoder, Goto, Other, Host

\* Every step keeps Settles: only a press that finds nothing under way ends an
\* interference, and every release is followed by Speed(1) or Stop.
LEMMA SettlesStep ==
  ASSUME TypeOK, TypeOK', Settles, [Next]_vars
  PROVE  Settles'
<1>1. ASSUME meddled' = TRUE PROVE Settles'
  BY <1>1 DEF Settles
<1>2. ASSUME Aside PROVE Settles'
  BY <1>2 DEF Settles, Aside, Last
<1>3. ASSUME NEW b \in Shuttles, Press(b) PROVE Settles'
  BY <1>3 DEF Press, PressHistory, Settles
<1>4. ASSUME NEW b \in Shuttles, Release(b) PROVE Settles'
  <2>1. CASE rec_going_on
    <3>1. meddled' = TRUE
      BY <1>4, <2>1 DEF Release, ReleaseHistory
    <3> QED
      BY <1>1, <3>1
  <2>2. CASE ~rec_going_on
    <3>1. PICK r \in {Speed(1), Stop} : Decide(<<r>>)
      BY <1>4, <2>2 DEF Release, Resume
    <3>2. todo = <<>> /\ UNCHANGED pending
      BY <1>4, Zenon DEF Release, Free
    <3>3. Ahead' # <<>> /\ Ahead'[Len(Ahead')] = r
      BY <3>1, <3>2, RequestsMade, RequestedOne
    <3> QED
      BY <3>1, <3>3 DEF Settles, Last
  <2> QED
    BY <2>1, <2>2
<1>5. CASE Process
  <2>1. held' = held /\ (meddled => meddled' = TRUE)
    BY <1>5, Zenon DEF Process, TypeOK
  <2>2. CASE meddled' = TRUE
    BY <1>1, <2>2
  <2>3. CASE Len(Ahead) = 1 /\ meddled' # TRUE /\ held = {}
    <3>1. Ahead' = <<>> /\ Last = Head(pending) /\ Ahead # <<>> /\ ~meddled
      BY <1>5, <2>1, <2>3, ProcessTakes DEF TypeOK
    <3>2. Head(pending) \in {Speed(1), Stop}
      BY <2>3, <3>1 DEF Settles
    <3>3. speed' \in {0, 1}
      BY <1>5, <2>3, <3>2, SettlingProcessed
    <3> QED
      BY <3>1, <3>3 DEF Settles
  <2>4. CASE Len(Ahead) # 1 /\ meddled' # TRUE
    <3>1. Last' = Last /\ Ahead' # <<>> /\ Ahead # <<>> /\ ~meddled
      BY <1>5, <2>1, <2>4, ProcessTakes DEF TypeOK
    <3> QED
      BY <2>1, <3>1 DEF Settles
  <2> QED
    BY <2>1, <2>2, <2>3, <2>4 DEF Settles
<1>6. CASE Advance
  <2>1. UNCHANGED <<Ahead, held, meddled>> /\ (speed \in {0, 1} => speed' = speed)
    BY <1>6 DEF Advance, Ahead, history
  <2> QED
    BY <2>1 DEF Settles, Last
<1> QED
  BY <1>1, <1>2, <1>3, <1>4, <1>5, <1>6, AsideSteps, MeddlingSteps DEF Next

\* Every step keeps Restores.
LEMMA RestoresStep ==
  ASSUME TypeOK, TypeOK', Settles, Restores, [Next]_vars
  PROVE  Restores'
<1>1. ASSUME meddled' = TRUE PROVE Restores'
  BY <1>1 DEF Restores
<1>2. ASSUME Aside PROVE Restores'
  BY <1>2 DEF Restores, Aside, Last, transport_rolling
<1>3. ASSUME NEW b \in Shuttles, Press(b) PROVE Restores'
  <2>1. held' # {}
    BY <1>3 DEF Press, PressHistory
  <2>2. CASE Idle /\ ~rec_going_on
    <3>1. transport_was_rolling' = transport_rolling /\ before' = transport_rolling
      BY <1>3, <2>2 DEF Press, PressHistory
    <3> QED
      BY <2>1, <3>1 DEF Restores
  <2>3. CASE ~Idle
    <3>1. crossed'
      BY <1>3, <2>3 DEF Press, PressHistory
    <3> QED
      BY <3>1 DEF Restores
  <2>4. CASE rec_going_on
    <3>1. meddled'
      BY <1>3, <2>4 DEF Press, PressHistory
    <3> QED
      BY <3>1 DEF Restores
  <2> QED
    BY <2>2, <2>3, <2>4
<1>4. ASSUME NEW b \in Shuttles, Release(b) PROVE Restores'
  <2>1. /\ UNCHANGED <<before, crossed, transport_was_rolling>>
        /\ ~meddled' => ~meddled /\ ~rec_going_on /\ held # {}
    BY <1>4 DEF Release, ReleaseHistory, script
  <2>2. CASE ~meddled' /\ ~crossed'
    <3>1. transport_was_rolling = before /\ ~rec_going_on
      BY <2>1, <2>2 DEF Restores
    <3>2. /\ Decide(<<IF before THEN Speed(1) ELSE Stop>>)
          /\ todo = <<>> /\ UNCHANGED pending
      BY <1>4, <3>1 DEF Release, Resume, Free
    <3>3. Ahead' # <<>> /\ Ahead'[Len(Ahead')] = IF before THEN Speed(1) ELSE Stop
      BY <3>2, RequestsMade, RequestedOne
    <3> QED
      BY <2>1, <3>1, <3>3 DEF Restores, Last
  <2> QED
    BY <2>2 DEF Restores
<1>5. CASE Process
  <2>1. /\ UNCHANGED <<held, before, crossed, transport_was_rolling>>
        /\ meddled => meddled' = TRUE
    BY <1>5, Zenon DEF Process, script, TypeOK
  <2>2. CASE meddled' = TRUE
    BY <1>1, <2>2
  <2>3. CASE crossed \/ held # {}
    BY <2>1, <2>3 DEF Restores
  <2>4. CASE Len(Ahead) = 1 /\ held = {} /\ meddled' # TRUE /\ ~crossed
    <3>1. Ahead' = <<>> /\ Last = Head(pending) /\ Ahead # <<>> /\ ~meddled
      BY <1>5, <2>1, <2>4, ProcessTakes DEF TypeOK
    <3>2. Head(pending) = IF before THEN Speed(1) ELSE Stop
      BY <2>4, <3>1 DEF Restores
    <3>3. speed' = IF before THEN 1 ELSE 0
      BY <1>5, <2>4, <3>2, SettlingProcessed
    <3>4. CASE before
      <4>1. transport_rolling' /\ before'
        BY <2>1, <3>3, <3>4 DEF transport_rolling
      <4> QED
        BY <2>1, <2>4, <3>1, <3>4, <4>1 DEF Restores, transport_rolling, TypeOK
    <3>5. CASE ~before
      <4>1. ~transport_rolling' /\ ~before'
        BY <2>1, <3>3, <3>5 DEF transport_rolling
      <4> QED
        BY <2>1, <2>4, <3>1, <3>5, <4>1 DEF Restores, transport_rolling, TypeOK
    <3> QED
      BY <3>4, <3>5
  <2>5. CASE Len(Ahead) # 1 /\ meddled' # TRUE
    <3>1. Last' = Last /\ Ahead' # <<>> /\ Ahead # <<>> /\ ~meddled
      BY <1>5, <2>1, <2>5, ProcessTakes DEF TypeOK
    <3> QED
      BY <2>1, <3>1 DEF Restores
  <2> QED
    BY <2>1, <2>2, <2>3, <2>4, <2>5
<1>6. CASE Advance
  <2>1. UNCHANGED <<Ahead, held, before, meddled, crossed, transport_was_rolling>>
        /\ (speed \in {0, 1} => speed' = speed)
    BY <1>6 DEF Advance, Ahead, script, history
  <2> QED
    BY <2>1 DEF Restores, Settles, Last, transport_rolling
<1> QED
  BY <1>1, <1>2, <1>3, <1>4, <1>5, <1>6, AsideSteps, MeddlingSteps DEF Next

\* In the beginning nothing is ahead.
LEMMA AheadEmpty == Init => Ahead = <<>>
BY DEF Init, Ahead

\* Once the buttons are released and the requests carried out, nobody is left
\* shuttling.
THEOREM ShuttleEndsAlways == Spec => []ShuttleEnds
<1>1. Init => Settles
  BY AheadEmpty DEF Init, Settles
<1>2. Settles => ShuttleEnds
  BY DEF Settles, ShuttleEnds, Idle
<1> QED
  BY <1>1, <1>2, TypeCorrect, SettlesStep, PTL DEF Spec

\* One shuttle button, pressed when nothing was under way, leaves the transport
\* rolling or not as it found it.
THEOREM RollRestoredAlways == Spec => []RollRestored
<1>1. Init => Settles /\ Restores
  BY AheadEmpty DEF Init, Settles, Restores
<1>2. Restores => RollRestored
  BY DEF Restores, RollRestored, Idle
<1> QED
  BY <1>1, <1>2, TypeCorrect, SettlesStep, RestoresStep, PTL DEF Spec

-----------------------------------------------------------------------------
(* Recording.                                                              *)

\* While recording goes on, no function decides on what would disturb it.
LEMMA RecordingStep ==
  ASSUME TypeOK, TypeOK', RecordingUndisturbed, [Next]_vars
  PROVE  RecordingUndisturbed'
<1>1. CASE ~recording'
  BY <1>1 DEF RecordingUndisturbed
<1>2. ASSUME UNCHANGED <<recording, Ahead, stale>> PROVE RecordingUndisturbed'
  BY <1>2 DEF RecordingUndisturbed
<1>3. CASE recording /\ \E b \in Shuttles : Press(b) \/ Release(b)
  <2>1. UNCHANGED <<recording, pending, todo, stale>>
    BY <1>3 DEF Press, Release, PressHistory, ReleaseHistory, session, rec_going_on
  <2> QED
    BY <1>2, <2>1 DEF Ahead
<1>4. CASE ~recording /\ recording' /\ \E what \in {"roll", "rec", "loop"} : Host(what)
  <2>1. UNCHANGED <<pending, todo>> /\ stale' = Len(Ahead)
    BY <1>4 DEF Host
  <2>2. Ahead' = Ahead /\ DOMAIN Ahead = 1 .. Len(Ahead)
    BY <2>1, AheadHolds DEF Ahead
  <2> QED
    BY <2>1, <2>2 DEF RecordingUndisturbed
<1>5. CASE recording /\ Roll
  <2>1. PICK r \in {Stop, Speed(1)} : Decide(<<r>>)
    BY <1>5 DEF Roll, Other
  <2>2. r \in Requests /\ ~Disturbs(r)
    BY RequestsMade DEF Disturbs, Stop, Speed
  <2>3. todo = <<>> /\ UNCHANGED <<pending, stale>>
    BY <1>5, Zenon DEF Roll, Other, Free
  <2>4. /\ Len(Ahead) \in Nat
        /\ DOMAIN Ahead' = 1 .. Len(Ahead) + 1
        /\ DOMAIN Ahead = 1 .. Len(Ahead)
        /\ \A n \in DOMAIN Ahead : Ahead'[n] = Ahead[n]
        /\ Ahead'[Len(Ahead) + 1] = r
    BY <2>1, <2>2, <2>3, RequestedOne
  <2>5. ASSUME NEW n \in DOMAIN Ahead', Disturbs(Ahead'[n]) PROVE n <= stale
    <3>1. n \in DOMAIN Ahead /\ Ahead'[n] = Ahead[n]
      BY <2>2, <2>4, <2>5
    <3> QED
      BY <1>5, <2>5, <3>1 DEF RecordingUndisturbed
  <2> QED
    BY <2>3, <2>5 DEF RecordingUndisturbed
<1>6. CASE recording /\ Process
  <2>1. pending # <<>> /\ pending' = Tail(pending) /\ todo' = todo
    BY <1>6, Zenon DEF Process
  <2>2. stale' = IF stale > 0 THEN stale - 1 ELSE 0
    BY <1>6, Zenon DEF Process
  <2>3. /\ DOMAIN Ahead' = 1 .. Len(Ahead) - 1 /\ Len(Ahead) \in Nat
        /\ \A n \in DOMAIN Ahead' : n + 1 \in DOMAIN Ahead /\ Ahead'[n] = Ahead[n + 1]
    BY <2>1, Taken
  <2>4. ASSUME NEW n \in DOMAIN Ahead', Disturbs(Ahead'[n]) PROVE n <= stale'
    <3>1. n + 1 <= stale
      BY <1>6, <2>3, <2>4 DEF RecordingUndisturbed
    <3> QED
      BY <2>2, <2>3, <3>1 DEF TypeOK
  <2> QED
    BY <2>4 DEF RecordingUndisturbed
<1>7. CASE recording /\ \E what \in {"roll", "rec", "loop"} : Host(what)
  <2>1. CASE recording'
    <3>1. UNCHANGED <<recording, pending, todo, stale>>
      BY <1>7, <2>1 DEF Host, TypeOK
    <3> QED
      BY <1>2, <3>1 DEF Ahead
  <2> QED
    BY <1>1, <2>1
<1>8. CASE recording /\ (ToggleLoop \/ Encoder \/ \E b \in {"marker", "goto_start", "goto_end"} : Goto(b))
  BY <1>8 DEF ToggleLoop, Encoder, Goto, MayMove, rec_going_on
<1>9. CASE Ask
  BY <1>2, <1>9, AskKeeps DEF Ask, session, history
<1>10. CASE \/ NextEncoderMode \/ Tab1 \/ Tab2 \/ Timer \/ Advance \/ LightRoll \/ UNCHANGED vars
            \/ \E s \in {"transport", "record"} : OnSignal(s)
  <2>1. UNCHANGED <<recording, pending, todo, stale>>
    BY <1>10 DEF NextEncoderMode, Tab1, Tab2, Timer, Advance, LightRoll, OnSignal, session, history, vars
  <2> QED
    BY <1>2, <2>1 DEF Ahead
<1>11. CASE ~recording /\ ~\E what \in {"roll", "rec", "loop"} : Host(what)
  <2>1. recording' = recording
    BY <1>11 DEF Next, Press, Release, Ask, LightRoll, Roll, ToggleLoop, Encoder, Goto, Other,
         NextEncoderMode, Tab1, Tab2, OnSignal, Timer, Process, Advance, session, vars
  <2> QED
    BY <1>1, <1>11, <2>1
<1> QED
  BY <1>1, <1>3, <1>4, <1>5, <1>6, <1>7, <1>8, <1>9, <1>10, <1>11 DEF Next

\* What disturbs a recording was pending when it began, or left to request for
\* the one function that had asked before.
THEOREM RecordingLeftAlone == Spec => []RecordingUndisturbed
<1>1. Init => RecordingUndisturbed
  <2> SUFFICES ASSUME Init PROVE DOMAIN Ahead = {}
    BY DEF RecordingUndisturbed
  <2> QED
    BY AheadEmpty
<1> QED
  BY <1>1, TypeCorrect, RecordingStep, PTL DEF Spec

-----------------------------------------------------------------------------
(* The lights.                                                             *)

\* A change of the session that is signalled, and a request that is added,
\* leave every light right or with its signal on the way.
LEMMA SignalledStep ==
  ASSUME TypeOK, LightsFollow,
         UNCHANGED <<active_tab, light>>, misled => misled',
         lighting' # "none" => lighting # "none" \/ ShuttleAsked',
         signals \subseteq signals',
         <<speed, play_loop>>' # <<speed, play_loop>> => Signalled',
         recording' # recording => "record" \in signals',
         ShuttleAhead => ShuttleAhead' \/ Signalled' \/ misled' \/ transport_rolling'
  PROVE  LightsFollow'
<1>1. Signalled => Signalled'
  BY DEF Signalled
<1>2. transport_rolling => transport_rolling' \/ Signalled'
  BY DEF transport_rolling
<1>3. lighting' # "none" => ShuttleAsked'
  BY <1>1, <1>2 DEF LightsFollow, ShuttleAsked
<1>4. ASSUME active_tab = "tab1" PROVE "record" \in signals' \/ light'.rec = rec_going_on'
  BY <1>4 DEF LightsFollow, rec_going_on
<1>5. ASSUME active_tab = "tab1" PROVE Signalled' \/ light'.loop = play_loop'
  BY <1>1, <1>5 DEF LightsFollow
<1>6. ASSUME active_tab = "tab1"
      PROVE  \/ Signalled' \/ misled' \/ light'.roll = transport_rolling'
             \/ light'.roll /\ ShuttleAhead'
  <2>1. CASE Signalled \/ misled
    BY <1>1, <2>1
  <2>2. CASE light.roll = transport_rolling
    BY <2>2 DEF transport_rolling
  <2>3. CASE light.roll /\ ShuttleAhead
    <3>1. transport_rolling' \in BOOLEAN /\ light.roll \in BOOLEAN
      BY DEF transport_rolling, TypeOK, Lights
    <3> QED
      BY <2>3, <3>1
  <2> QED
    BY <1>6, <2>1, <2>2, <2>3 DEF LightsFollow
<1> QED
  BY <1>3, <1>4, <1>5, <1>6 DEF LightsFollow

\* What is decided on leaves ahead what was.
LEMMA StillAhead ==
  ASSUME TypeOK, TypeOK', NEW rs \in Seq(Requests), Decide(rs), todo = <<>>, UNCHANGED pending
  PROVE  ShuttleAhead => ShuttleAhead'
BY Requested DEF ShuttleAhead

\* The same for a single request.
LEMMA StillAheadOne ==
  ASSUME TypeOK, TypeOK', NEW r \in Requests, Decide(<<r>>), todo = <<>>, UNCHANGED pending
  PROVE  ShuttleAhead => ShuttleAhead'
BY RequestedOne DEF ShuttleAhead

\* Every step keeps LightsFollow.
LEMMA LightsStep ==
  ASSUME TypeOK, TypeOK', LightsFollow, [Next]_vars
  PROVE  LightsFollow'
<1>1. ASSUME UNCHANGED <<session, signals, active_tab, light, misled, lighting>>,
             ShuttleAhead => ShuttleAhead'
      PROVE  LightsFollow'
  BY <1>1, SignalledStep DEF session
<1>2. ASSUME NEW b \in Shuttles, Press(b) PROVE LightsFollow'
  <2>1. UNCHANGED <<session, pending, signals, active_tab, light, misled>> /\ todo = <<>>
    BY <1>2, Zenon DEF Press, PressHistory, Free
  <2>2. CASE rec_going_on
    <3>1. UNCHANGED <<todo, lighting>>
      BY <1>2, <2>2, Zenon DEF Press
    <3> QED
      BY <1>1, <2>1, <3>1 DEF ShuttleAhead, Ahead
  <2>3. CASE ~rec_going_on
    <3> DEFINE rs == ShuttleRequests(b)
               k == Len(Ahead)
               n == Len(rs)
    <3>1. Decide(rs)
      BY <1>2, <2>3, Zenon DEF Press
    <3>2. rs \in Seq(Requests) /\ n \in {1, 2} /\ rs[n] \in {Speed(-8), Speed(8)}
      BY ShuttleRequested
    <3> HIDE DEF rs
    <3>3. /\ DOMAIN Ahead' = 1 .. k + n /\ k \in Nat
          /\ \A i \in 1 .. n : Ahead'[k + i] = rs[i]
      BY <2>1, <3>1, <3>2, Requested
    <3> HIDE DEF k, n
    <3>4. k + n \in DOMAIN Ahead' /\ Ahead'[k + n] = rs[n]
      BY <3>2, <3>3
    <3>5. ShuttleAhead'
      BY <3>2, <3>4 DEF ShuttleAhead
    <3> QED
      BY <2>1, <3>5, SignalledStep DEF session, ShuttleAsked
  <2> QED
    BY <2>2, <2>3
<1>3. ASSUME NEW b \in Shuttles, Release(b) PROVE LightsFollow'
  <2>1. /\ UNCHANGED <<session, pending, signals, active_tab, light, misled, lighting>>
        /\ todo = <<>>
    BY <1>3, Zenon DEF Release, ReleaseHistory, script, Free
  <2>2. UNCHANGED todo \/ \E r \in {Speed(1), Stop} : Decide(<<r>>)
    BY <1>3 DEF Release, Resume
  <2>3. ShuttleAhead => ShuttleAhead'
    BY <2>1, <2>2, RequestsMade, StillAheadOne DEF ShuttleAhead, Ahead
  <2> QED
    BY <1>1, <2>1, <2>3
<1>4. ASSUME NEW r \in Requests, Other(r) PROVE LightsFollow'
  <2>1. /\ UNCHANGED <<session, pending, signals, active_tab, light, misled, lighting>>
        /\ todo = <<>> /\ Decide(<<r>>)
    BY <1>4, Zenon DEF Other, script, Free
  <2> QED
    BY <1>1, <2>1, StillAheadOne
<1>5. CASE Roll
  BY <1>4, <1>5, RequestsMade DEF Roll
<1>6. CASE ToggleLoop
  BY <1>4, <1>6, RequestsMade DEF ToggleLoop, TypeOK
<1>7. CASE Encoder \/ \E b \in {"marker", "goto_start", "goto_end"} : Goto(b)
  BY <1>4, <1>7, RequestsMade DEF Encoder, Goto, transport_rolling
<1>8. CASE Tab1 \/ Tab2
  <2>1. lighting' = lighting /\ lighting = "none"
    BY <1>8, Zenon DEF Tab1, Tab2, Free
  <2>2. CASE Tab1
    BY <2>1, <2>2 DEF Tab1, ShownOnTab, PresentState, LightsFollow, session,
         transport_rolling, rec_going_on
  <2>3. CASE Tab2
    BY <2>1, <2>3 DEF Tab2, LightsFollow
  <2> QED
    BY <1>8, <2>2, <2>3
<1>9. ASSUME NEW s \in {"transport", "record"}, OnSignal(s) PROVE LightsFollow'
  <2>1. /\ UNCHANGED <<session, pending, todo, active_tab>> /\ signals' = signals \ {s}
        /\ lighting' = "none"
    BY <1>9, Zenon DEF OnSignal, Free
  <2>2. CASE active_tab # "tab1"
    BY <2>1, <2>2 DEF LightsFollow
  <2>3. CASE active_tab = "tab1" /\ s = "record"
    <3>1. light' = [light EXCEPT !.rec = rec_going_on] /\ misled' = misled
      BY <1>9, <2>3, Zenon DEF OnSignal
    <3>2. light'.rec = rec_going_on /\ light'.loop = light.loop /\ light'.roll = light.roll
      BY <3>1 DEF TypeOK, Lights
    <3> QED
      BY <2>1, <2>3, <3>1, <3>2
         DEF LightsFollow, Signalled, ShuttleAhead, Ahead, session, transport_rolling, rec_going_on
  <2>4. CASE active_tab = "tab1" /\ s = "transport"
    <3>1. light' = [light EXCEPT !.roll = transport_rolling, !.loop = play_loop]
      BY <1>9, <2>4, Zenon DEF OnSignal
    <3>2. light'.rec = light.rec /\ light'.loop = play_loop /\ light'.roll = transport_rolling
      BY <3>1 DEF TypeOK, Lights
    <3> QED
      BY <2>1, <2>4, <3>2
         DEF LightsFollow, session, transport_rolling, rec_going_on
  <2> QED
    BY <2>2, <2>3, <2>4
<1>10. CASE Process
  <2> DEFINE r == Head(pending)
  <2>1. /\ pending # <<>> /\ pending' = Tail(pending) /\ todo' = todo
        /\ UNCHANGED <<active_tab, light, recording, lighting>>
    BY <1>10, Zenon DEF Process, script
  <2>2. /\ r \in Requests /\ r = Ahead[1]
        /\ \A n \in DOMAIN Ahead : n # 1 => n - 1 \in DOMAIN Ahead' /\ Ahead'[n - 1] = Ahead[n]
    BY <2>1, Taken
  <2>3. /\ misled => misled'
        /\ signals \subseteq signals'
        /\ <<speed, play_loop>>' # <<speed, play_loop>> => Signalled'
    BY <1>10 DEF Process, NewSpeed, Signalled
  <2>4. r \in {Speed(-8), Speed(8)} => misled' \/ transport_rolling'
    <3>1. ASSUME r \in {Speed(-8), Speed(8)} PROVE r.kind = "speed" /\ r.speed \in {-8, 8}
      BY <3>1 DEF Speed
    <3> QED
      BY <1>10, <3>1 DEF Process, NewSpeed, transport_rolling
  <2>5. ShuttleAhead => ShuttleAhead' \/ misled' \/ transport_rolling'
    BY <2>2, <2>4 DEF ShuttleAhead
  <2> QED
    BY <2>1, <2>3, <2>5, SignalledStep
<1>11. CASE Advance
  <2>1. /\ UNCHANGED <<active_tab, light, misled, recording, play_loop, pending, todo, lighting>>
        /\ signals \subseteq signals'
        /\ speed' # speed => Signalled'
    BY <1>11 DEF Advance, NewSpeed, Signalled, history, script
  <2> QED
    BY <2>1, SignalledStep DEF ShuttleAhead, Ahead
<1>12. ASSUME NEW what \in {"roll", "rec", "loop"}, Host(what) PROVE LightsFollow'
  <2>1. UNCHANGED <<active_tab, light, misled, pending, todo, lighting>>
    BY <1>12, Zenon DEF Host, script
  <2>2. /\ signals \subseteq signals'
        /\ <<speed, play_loop>>' # <<speed, play_loop>> => Signalled'
        /\ recording' # recording => "record" \in signals'
    BY <1>12 DEF Host, NewSpeed, Signalled
  <2> QED
    BY <2>1, <2>2, SignalledStep DEF ShuttleAhead, Ahead
<1>13. CASE Ask
  <2>1. UNCHANGED <<session, signals, active_tab, light, misled, lighting>>
    BY <1>13, Zenon DEF Ask, script, history
  <2> QED
    BY <1>1, <1>13, <2>1, AskKeeps DEF ShuttleAhead
<1>14. CASE LightRoll
  <2>1. /\ UNCHANGED <<session, pending, signals, todo, active_tab, misled>>
        /\ lighting' = "none" /\ lighting # "none"
    BY <1>14, Zenon DEF LightRoll, history
  <2>2. /\ light'.rec = light.rec /\ light'.loop = light.loop
        /\ light'.roll \in BOOLEAN
        /\ light.roll => light'.roll
        /\ ~light'.roll => light'.roll = light.roll
    BY <1>14 DEF LightRoll, TypeOK, Lights
  <2>3. ShuttleAsked
    BY <2>1 DEF LightsFollow
  <2> QED
    BY <2>1, <2>2, <2>3
       DEF LightsFollow, ShuttleAsked, Signalled, ShuttleAhead, Ahead, session,
           transport_rolling, rec_going_on, TypeOK
<1>15. CASE Timer \/ NextEncoderMode \/ UNCHANGED vars
  <2>1. UNCHANGED <<session, signals, active_tab, light, misled, pending, todo, lighting>>
    BY <1>15, Zenon DEF Timer, NextEncoderMode, vars, script, history
  <2> QED
    BY <1>1, <2>1 DEF ShuttleAhead, Ahead
<1> QED
  BY <1>2, <1>3, <1>5, <1>6, <1>7, <1>8, <1>9, <1>10, <1>11, <1>12, <1>13, <1>14, <1>15 DEF Next

\* When nothing is under way, the lights of the visible tab show the state of
\* the session.
THEOREM LightsFollowSession == Spec => []LightsTrue
<1>1. Init => LightsFollow
  BY DEF Init, LightsFollow, PresentState, transport_rolling, rec_going_on
<1>2. LightsFollow => LightsTrue
  BY DEF LightsFollow, LightsTrue, Signalled, ShuttleAhead, Ahead, Free
<1> QED
  BY <1>1, <1>2, TypeCorrect, LightsStep, PTL DEF Spec
=============================================================================
