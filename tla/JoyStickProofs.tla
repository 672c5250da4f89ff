--------------------------- MODULE JoyStickProofs ---------------------------
(***************************************************************************)
(* What holds of the joystick module for every set of buttons, length of   *)
(* SDL's queue and number of times the device is plugged in.               *)
(***************************************************************************)
EXTENDS JoyStick, TLAPS

(* The queue.                                                              *)

Places == 1..Len(queue)

EventRecords == [type : {"added", "removed", "down", "up", "axis"}, which : Nat,
                 arg : Buttons \cup {0, FullScale}]

WellFormed(e) ==
  /\ e.which < plugs
  /\ e.type \in {"down", "up"} => e.arg \in Buttons
  /\ e.type = "axis" => e.arg \in {0, FullScale}

QueueType ==
  /\ queue \in Seq(EventRecords)
  /\ \A k \in Places : WellFormed(queue[k])

\* Without a device nothing is held.
TypeInv ==
  /\ JoyTypeOK /\ QueueType
  /\ plugged < plugs
  /\ plugged = None => held = {} /\ stick = 0

\* Of the instance w, about button b or about the stick.
OfButton(e, w, b) == e.type \in {"down", "up"} /\ e.which = w /\ e.arg = b
OfStick(e, w)     == e.type = "axis" /\ e.which = w

\* From place n on, a queue holds no such event, or no addition of a device.
NoButtonFrom(q, n, w, b) == \A k \in n..Len(q) : ~OfButton(q[k], w, b)
NoStickFrom(q, n, w)     == \A k \in n..Len(q) : ~OfStick(q[k], w)
NoAddedFrom(q, n)        == \A k \in n..Len(q) : q[k].type # "added"

\* The removal of w comes before any device is added, looking from place n.
GoesFrom(q, n, w) ==
  \E j \in n..Len(q) :
    /\ q[j].type = "removed" /\ q[j].which = w
    /\ \A i \in n..j : q[i].type # "added"

\* The events of an instance come between its addition and its removal.
Ordered(q, k, w) ==
  q[k].type # "added" =>
    IF q[k].which = w
    THEN q[k].type # "removed" /\ NoAddedFrom(q, k)
    ELSE GoesFrom(q, k, q[k].which)

OrderInv == \A k \in Places : Ordered(queue, k, plugged)

\* The last event of a button or of the stick tells how it is now.
LastInv ==
  /\ \A b \in Buttons, k \in Places :
       OfButton(queue[k], plugged, b) /\ NoButtonFrom(queue, k + 1, plugged, b)
         => (queue[k].type = "down" <=> b \in held)
  /\ \A k \in Places :
       OfStick(queue[k], plugged) /\ NoStickFrom(queue, k + 1, plugged)
         => queue[k].arg = stick

\* A device that is still to be added has all its events in the queue.
DeviceInv ==
  plugged # None /\ ~NoAddedFrom(queue, 1) =>
    \A b \in Buttons : NoButtonFrom(queue, 1, plugged, b) => b \notin held

\* Buttons are shown for an instance that will be removed before a device is
\* added.
ShownInv ==
  buttons # {} =>
    /\ joystick_instance_id_ # None
    /\ \/ plugged = joystick_instance_id_ /\ NoAddedFrom(queue, 1)
       \/ GoesFrom(queue, 1, joystick_instance_id_)

\* joy_msg_ shows what the queue has no event about.
MirrorInv ==
  /\ joystick_ => joystick_instance_id_ \in 0..(plugs - 1)
  /\ joystick_ /\ joystick_instance_id_ = plugged =>
       /\ sized
       /\ \A b \in Buttons :
            NoButtonFrom(queue, 1, plugged, b) => (b \in buttons <=> b \in held)
       /\ NoStickFrom(queue, 1, plugged) => axis = stick

JoyInv == TypeInv /\ OrderInv /\ LastInv /\ DeviceInv /\ ShownInv /\ MirrorInv

-----------------------------------------------------------------------------
(* Kinds of steps.                                                         *)

\* The operator appends an event; the event thread takes one; nobody else
\* touches the device, the queue or joy_msg_.
Elsewhere ==
  /\ UNCHANGED <<userVars, queue, joystick_instance_id_, sized, buttons, axis>>
  /\ joystick_' \in {joystick_, FALSE}

\* Every step is the operator's, takes an event (eventThread, joy.cc:141-201) or
\* leaves the device, the queue and joy_msg_ alone, except that ~Joy may close it.
LEMMA Kinds ==
  ASSUME [JoyNext]_joystickVars
  PROVE  Operator \/ HandleEvent \/ Elsewhere
  <1> USE DEF joystickVars, userVars, joyVars, loopVars, mainVars, Elsewhere
  <1>1. CASE EventThreadEnd
    BY <1>1 DEF EventThreadEnd
  <1>2. CASE Framework
    BY <1>2 DEF Framework, Start, Shutdown, ShutdownReturns, DestroyJoy
  <1>3. CASE LoopBegin \/ PublishTwist \/ \E t \in PubTopics : PublishTrigger(t)
    BY <1>3 DEF LoopBegin, PublishTwist, PublishTrigger
  <1>4. CASE UNCHANGED joystickVars
    BY <1>4
  <1> QED
    BY <1>1, <1>2, <1>3, <1>4 DEF JoyNext, EventThread

\* SDL's queue grows at its end.
LEMMA Appended ==
  ASSUME queue \in Seq(EventRecords), NEW e, e \in EventRecords, queue' = Append(queue, e)
  PROVE  /\ queue' \in Seq(EventRecords)
         /\ Len(queue) \in Nat /\ Len(queue') = Len(queue) + 1
         /\ \A k \in Places : queue'[k] = queue[k]
         /\ queue'[Len(queue) + 1] = e
  BY DEF Places

\* SDL_WaitEventTimeout takes the oldest event and moves the others up.
LEMMA Taken ==
  ASSUME queue \in Seq(EventRecords), queue # <<>>, queue' = Tail(queue)
  PROVE  /\ queue' \in Seq(EventRecords)
         /\ Len(queue) \in Nat \ {0} /\ Len(queue') = Len(queue) - 1
         /\ \A k \in 1..(Len(queue) - 1) : queue'[k] = queue[k + 1]
         /\ Head(queue) = queue[1] /\ queue[1] \in EventRecords
  OBVIOUS

\* What the operator does, and the event it makes of it.
Plugs(e) ==
  /\ e.type = "added" /\ plugged = None
  /\ plugged' = plugs /\ plugs' = plugs + 1 /\ plugs < MaxPlugs /\ UNCHANGED <<held, stick>>

Unplugs(e) ==
  /\ e.type = "removed" /\ e.which = plugged /\ plugged # None
  /\ plugged' = None /\ held' = {} /\ stick' = 0 /\ UNCHANGED plugs

Signals(e) ==
  /\ e.type \in {"down", "up", "axis"} /\ e.which = plugged /\ plugged # None
  /\ UNCHANGED <<plugged, plugs>>
  /\ held' \subseteq session /\ stick' \in {0, FullScale}
  /\ e.type = "axis" => held' = held /\ e.arg = stick'
  /\ e.type # "axis" =>
       /\ stick' = stick
       /\ \A b \in Buttons : b # e.arg => (b \in held' <=> b \in held)
       /\ e.type = "down" <=> e.arg \in held'

\* Whatever the operator does is one well-formed event of the instance that is
\* plugged in, and the change the event tells of.
LEMMA OperatorSends ==
  ASSUME TypeInv, Operator
  PROVE  \E e \in EventRecords :
           /\ queue' = Append(queue, e) /\ Len(queue) < MaxQueue
           /\ UNCHANGED <<session, joyVars, eventPc, loopVars, mainVars>>
           /\ WellFormed(e)'
           /\ Plugs(e) \/ Unplugs(e) \/ Signals(e)
  <1>0. /\ plugged \in None..(MaxPlugs - 1) /\ plugs \in Nat /\ stick \in {0, FullScale}
        /\ FullScale \in Nat /\ session \subseteq Buttons /\ held \subseteq session
        /\ plugged = None => held = {}
        /\ plugged < plugs /\ MaxPlugs \in Nat
    BY JoyAssumption DEF TypeInv, JoyTypeOK, Buttons
  <1>1. plugged # None => plugged \in Nat
    BY <1>0 DEF None
  <1> DEFINE Sent(e) == /\ e \in EventRecords
                        /\ queue' = Append(queue, e) /\ Len(queue) < MaxQueue
                        /\ UNCHANGED <<session, joyVars, eventPc, loopVars, mainVars>>
                        /\ WellFormed(e)'
                        /\ Plugs(e) \/ Unplugs(e) \/ Signals(e)
  <1>2. CASE Plug
    <2> DEFINE e == [type |-> "added", which |-> 0, arg |-> 0]
    <2>1. e \in EventRecords
      BY DEF EventRecords
    <2>2. WellFormed(e)' /\ Plugs(e)
      BY <1>0, <1>2 DEF Plug, WellFormed, Plugs
    <2>3. Sent(e)
      BY <1>2, <2>1, <2>2 DEF Plug, Happens
    <2> QED
      BY <2>3
  <1>3. CASE Unplug
    <2> DEFINE e == [type |-> "removed", which |-> plugged, arg |-> 0]
    <2>1. e \in EventRecords
      BY <1>0, <1>1, <1>3 DEF EventRecords, Unplug
    <2>2. \A x : x = e => WellFormed(x)' /\ Unplugs(x)
      BY <1>0, <1>3 DEF Unplug, WellFormed, Unplugs
    <2>3. \A x : x = e => Sent(x)
      BY <1>3, <2>1, <2>2 DEF Unplug, Happens, Event
    <2> QED
      BY <2>3
  <1>4. CASE MoveStick
    <2> DEFINE s == FullScale - stick
               e == [type |-> "axis", which |-> plugged, arg |-> s]
    <2>1. s \in {0, FullScale}
      BY <1>0
    <2>2. e \in EventRecords
      BY <1>0, <1>1, <1>4, <2>1 DEF EventRecords, MoveStick
    <2>3. \A x : x = e => WellFormed(x)' /\ Signals(x)
      BY <1>0, <1>4, <2>1 DEF MoveStick, WellFormed, Signals
    <2>4. \A x : x = e => Sent(x)
      BY <1>4, <2>2, <2>3 DEF MoveStick, Happens, Event
    <2> QED
      BY <2>4
  <1>5. ASSUME NEW b \in session, Press(b)
        PROVE  \E e : Sent(e)
    <2> DEFINE e == [type |-> "down", which |-> plugged, arg |-> b]
    <2>1. e \in EventRecords
      BY <1>0, <1>1, <1>5 DEF EventRecords, Press
    <2>2. \A x : x = e => WellFormed(x)' /\ Signals(x)
      BY <1>0, <1>5 DEF Press, WellFormed, Signals
    <2>3. \A x : x = e => Sent(x)
      BY <1>5, <2>1, <2>2 DEF Press, Happens, Event
    <2> QED
      BY <2>3
  <1>6. ASSUME NEW b \in session, Release(b)
        PROVE  \E e : Sent(e)
    <2> DEFINE e == [type |-> "up", which |-> plugged, arg |-> b]
    <2>0. plugged # None
      BY <1>0, <1>6 DEF Release
    <2>1. e \in EventRecords
      BY <1>0, <1>1, <2>0 DEF EventRecords
    <2>2. \A x : x = e => WellFormed(x)' /\ Signals(x)
      BY <1>0, <1>6, <2>0 DEF Release, WellFormed, Signals
    <2>3. \A x : x = e => Sent(x)
      BY <1>6, <2>1, <2>2 DEF Release, Happens, Event
    <2> QED
      BY <2>3
  <1> QED
    BY <1>2, <1>3, <1>4, <1>5, <1>6 DEF Operator

-----------------------------------------------------------------------------
(* Types.                                                                  *)

UserType ==
  /\ session \in Sessions
  /\ plugged \in None..(MaxPlugs - 1) /\ plugs \in 0..MaxPlugs
  /\ held \subseteq session /\ stick \in {0, FullScale}
  /\ Len(queue) <= MaxQueue /\ QueueType
  /\ plugged < plugs
  /\ plugged = None => held = {} /\ stick = 0

MsgType ==
  /\ joystick_instance_id_ \in None..(MaxPlugs - 1)
  /\ buttons \subseteq Buttons /\ axis \in {0, FullScale}

PlaceType ==
  /\ eventPc \in {"loop", "done"}
  /\ mainPc \in {"init", "started", "wait", "destroy", "done"}
  /\ loopPc \in {"none", "loop", "publish", "ended", "crashed"}

FlagType ==
  joystick_ \in BOOLEAN /\ sized \in BOOLEAN /\ is_runnig_ \in BOOLEAN /\ run_flag_ \in BOOLEAN

OutputType ==
  /\ pending \subseteq PubTopics
  /\ target \in {0, FullScale, NoTarget}
  /\ state_ \in 0..FullScale

\* The parts make up the invariant.
LEMMA TypeParts ==
  /\ TypeInv <=> UserType /\ MsgType /\ PlaceType /\ FlagType /\ OutputType
  /\ TypeInv' <=> UserType' /\ MsgType' /\ PlaceType' /\ FlagType' /\ OutputType'
  BY DEF TypeInv, JoyTypeOK, UserType, MsgType, PlaceType, FlagType, OutputType

\* The device's state and its events keep their types: the queue stays within
\* its bound, and no event is of an instance that was never plugged in.
LEMMA UserStep ==
  ASSUME TypeInv, [JoyNext]_joystickVars
  PROVE  UserType'
  <1>0. /\ UserType /\ QueueType /\ queue \in Seq(EventRecords)
        /\ MaxPlugs \in Nat /\ MaxQueue \in Nat /\ FullScale \in Nat
    BY TypeParts, JoyAssumption DEF UserType, QueueType
  <1>1. CASE Operator
    <2>1. PICK e \in EventRecords :
            /\ queue' = Append(queue, e) /\ Len(queue) < MaxQueue
            /\ session' = session
            /\ WellFormed(e)'
            /\ Plugs(e) \/ Unplugs(e) \/ Signals(e)
      BY <1>1, OperatorSends
    <2>2. plugs' \in {plugs, plugs + 1} /\ plugs' \in 0..MaxPlugs
      BY <1>0, <2>1 DEF Plugs, Unplugs, Signals, UserType
    <2>3. QueueType' /\ Len(queue') <= MaxQueue
      <3>1. \A k \in Places : WellFormed(queue[k])'
        <4> SUFFICES ASSUME NEW k \in Places PROVE WellFormed(queue[k])'
          OBVIOUS
        <4>1. queue'[k] = queue[k] /\ queue[k] \in EventRecords /\ WellFormed(queue[k])
          BY <1>0, <2>1, Appended DEF QueueType, Places
        <4>2. queue[k].which \in Nat
          BY <4>1 DEF EventRecords
        <4> QED
          BY <1>0, <2>2, <4>1, <4>2 DEF WellFormed, UserType
      <3>2. Places' = Places \cup {Len(queue) + 1} /\ queue'[Len(queue) + 1] = e
        BY <1>0, <2>1, Appended DEF Places
      <3>3. queue' \in Seq(EventRecords) /\ Len(queue') = Len(queue) + 1 /\ Len(queue) \in Nat
        BY <1>0, <2>1, Appended
      <3>4. ASSUME NEW k \in Places' PROVE WellFormed(queue[k])'
        BY <2>1, <3>1, <3>2 DEF WellFormed
      <3>5. Len(queue') <= MaxQueue
        BY <1>0, <2>1, <3>3
      <3> QED
        BY <3>3, <3>4, <3>5 DEF QueueType
    <2>4. /\ held' \subseteq session /\ stick' \in {0, FullScale}
          /\ plugged' = None => held' = {} /\ stick' = 0
      BY <1>0, <2>1 DEF Plugs, Unplugs, Signals, UserType, None
    <2>5. plugged' \in None..(MaxPlugs - 1) /\ plugged' < plugs'
      BY <1>0, <2>1 DEF Plugs, Unplugs, Signals, UserType, None
    <2> QED
      BY <1>0, <2>1, <2>2, <2>3, <2>4, <2>5 DEF UserType
  <1>2. CASE HandleEvent
    <2>1. queue' = Tail(queue) /\ queue # <<>> /\ UNCHANGED userVars
      BY <1>2 DEF HandleEvent
    <2>2. QueueType' /\ Len(queue') <= MaxQueue
      <3>1. /\ queue' \in Seq(EventRecords) /\ Len(queue) \in Nat \ {0}
            /\ Len(queue') = Len(queue) - 1 /\ Len(queue) <= MaxQueue
            /\ \A k \in 1..(Len(queue) - 1) : queue'[k] = queue[k + 1] /\ k + 1 \in Places
        BY <1>0, <2>1, Taken DEF UserType, Places
      <3>2. \A k \in Places : WellFormed(queue[k])
        BY <1>0 DEF QueueType
      <3>3. \A k \in 1..(Len(queue) - 1) : WellFormed(queue'[k])
        BY <3>1, <3>2
      <3> QED
        BY <1>0, <2>1, <3>1, <3>3 DEF QueueType, WellFormed, userVars, Places
    <2> QED
      BY <1>0, <2>1, <2>2 DEF UserType, userVars
  <1>3. CASE Elsewhere
    BY <1>0, <1>3 DEF Elsewhere, userVars, UserType, QueueType, WellFormed, Places
  <1> QED
    BY <1>1, <1>2, <1>3, Kinds

\* joy_msg_ and the instance id keep their types, whichever handler runs and
\* however handleJoyDeviceAdded fails (joy.cc:250-360).
LEMMA MsgStep ==
  ASSUME TypeInv, [JoyNext]_joystickVars
  PROVE  MsgType'
  <1>0. /\ MsgType /\ plugged \in None..(MaxPlugs - 1) /\ None \in None..(MaxPlugs - 1)
        /\ stick \in {0, FullScale} /\ FullScale \in Nat /\ QueueType
    BY TypeParts, JoyAssumption DEF UserType, None
  <1>1. CASE Operator \/ Elsewhere
    <2>1. UNCHANGED <<joystick_instance_id_, buttons, axis>>
      BY <1>1, OperatorSends DEF Elsewhere, joyVars
    <2> QED
      BY <1>0, <2>1 DEF MsgType
  <1>2. CASE HandleEvent
    <2>1. PICK e : /\ e = Head(queue)
                   /\ handleJoyAxis(e) \/ handleJoyButton(e) \/ handleJoyDeviceAdded(e)
                      \/ handleJoyDeviceRemoved(e)
      BY <1>2 DEF HandleEvent
    <2>2. WellFormed(e)
      <3>1. queue # <<>> /\ queue' = Tail(queue)
        BY <1>2 DEF HandleEvent
      <3>2. e = queue[1] /\ 1 \in Places
        BY <1>0, <2>1, <3>1, Taken DEF Places, QueueType
      <3> QED
        BY <1>0, <3>2 DEF QueueType
    <2>3. CASE handleJoyAxis(e)
      BY <1>0, <2>2, <2>3 DEF handleJoyAxis, MsgType, WellFormed
    <2>4. CASE handleJoyButton(e)
      BY <1>0, <2>2, <2>4 DEF handleJoyButton, MsgType, WellFormed
    <2>5. CASE handleJoyDeviceAdded(e)
      BY <1>0, <2>5 DEF handleJoyDeviceAdded, MsgType
    <2>6. CASE handleJoyDeviceRemoved(e)
      BY <1>0, <2>6 DEF handleJoyDeviceRemoved, Cleared, MsgType
    <2> QED
      BY <2>1, <2>3, <2>4, <2>5, <2>6
  <1> QED
    BY <1>1, <1>2, Kinds

\* The flags and the places of the threads keep their types.
LEMMA FlagStep ==
  ASSUME TypeInv, [JoyNext]_joystickVars
  PROVE  FlagType' /\ PlaceType'
  <1> USE DEF joystickVars, userVars, joyVars, loopVars, mainVars, FlagType, PlaceType
  <1>0. FlagType /\ PlaceType
    BY TypeParts
  <1>1. CASE Operator
    BY <1>0, <1>1 DEF Operator, Plug, Unplug, MoveStick, Press, Release, Happens
  <1>2. CASE HandleEvent
    BY <1>0, <1>2 DEF HandleEvent, handleJoyAxis, handleJoyButton, handleJoyDeviceAdded,
       handleJoyDeviceRemoved, Cleared
  <1>3. CASE EventThreadEnd \/ Framework
    BY <1>0, <1>3 DEF EventThreadEnd, Framework, Start, Shutdown, ShutdownReturns, DestroyJoy
  <1>4. CASE LoopBegin \/ PublishTwist \/ \E t \in PubTopics : PublishTrigger(t)
    BY <1>0, <1>4 DEF LoopBegin, LoopDone, PublishTwist, PublishTrigger
  <1>5. CASE UNCHANGED joystickVars
    BY <1>0, <1>5
  <1> QED
    BY <1>1, <1>2, <1>3, <1>4, <1>5 DEF JoyNext, EventThread

\* The limiter stays between where it is and where it is to go.
LEMMA LimitedType ==
  ASSUME NEW s \in 0..FullScale, NEW t \in {0, FullScale}
  PROVE  Limited(s, t) \in 0..FullScale
  <1>1. Bound \div freq_ \in Nat /\ FullScale \in Nat
    BY JoyAssumption
  <1> QED
    BY <1>1 DEF Limited

\* What MainLoop publishes keeps its type: only configured topics, and a velocity
\* within a full deflection (joy_stick_module.cc:97-201).
LEMMA OutputStep ==
  ASSUME TypeInv, [JoyNext]_joystickVars
  PROVE  OutputType'
  <1> USE DEF joystickVars, userVars, joyVars, loopVars, mainVars
  <1>0. OutputType /\ axis \in {0, FullScale}
    BY TypeParts DEF MsgType
  <1>1. CASE UNCHANGED <<pending, target, state_>>
    BY <1>0, <1>1 DEF OutputType
  <1>2. CASE LoopBegin
    BY <1>0, <1>2 DEF LoopBegin, Target, PubTopics, OutputType
  <1>3. CASE PublishTwist
    BY <1>0, <1>3, LimitedType DEF PublishTwist, OutputType
  <1>4. CASE \E t \in PubTopics : PublishTrigger(t)
    BY <1>0, <1>4 DEF PublishTrigger, OutputType
  <1>5. CASE Operator \/ EventThread \/ Framework
    <2>1. CASE Operator
      BY <1>1, <2>1, OperatorSends
    <2>2. CASE EventThread \/ Framework
      BY <1>1, <2>2 DEF EventThread, HandleEvent, EventThreadEnd, Framework, Start, Shutdown,
         ShutdownReturns, DestroyJoy
    <2> QED
      BY <1>5, <2>1, <2>2
  <1> QED
    BY <1>1, <1>2, <1>3, <1>4, <1>5 DEF JoyNext

\* The four parts together.
LEMMA TypeStep ==
  ASSUME TypeInv, [JoyNext]_joystickVars
  PROVE  TypeInv'
  BY UserStep, MsgStep, FlagStep, OutputStep, TypeParts

-----------------------------------------------------------------------------
(* An event is appended.                                                   *)

\* r is the queue q with e at its end.
Extends(r, q, e) ==
  /\ Len(q) \in Nat /\ Len(r) = Len(q) + 1
  /\ \A k \in 1..Len(q) : r[k] = q[k]
  /\ r[Len(q) + 1] = e

\* An appended event delays no removal, and an appended removal is reached from
\* every place after which no device is added.
LEMMA ExtendedGoes ==
  ASSUME NEW q, NEW r, NEW e, Extends(r, q, e), NEW k \in 1..(Len(q) + 1), NEW w
  PROVE  /\ GoesFrom(q, k, w) => GoesFrom(r, k, w)
         /\ NoAddedFrom(q, k) /\ e.type # "added" => NoAddedFrom(r, k)
         /\ NoAddedFrom(q, k) /\ e.type = "removed" => GoesFrom(r, k, e.which)
  <1>0. /\ Len(q) \in Nat /\ Len(r) = Len(q) + 1
        /\ \A i \in 1..Len(q) : r[i] = q[i]
        /\ r[Len(q) + 1] = e
    BY DEF Extends
  <1>1. ASSUME GoesFrom(q, k, w) PROVE GoesFrom(r, k, w)
    <2>1. PICK j \in k..Len(q) : /\ q[j].type = "removed" /\ q[j].which = w
                                 /\ \A i \in k..j : q[i].type # "added"
      BY <1>1 DEF GoesFrom
    <2>2. j \in k..Len(r) /\ j \in 1..Len(q) /\ \A i \in k..j : i \in 1..Len(q)
      BY <1>0
    <2> QED
      BY <1>0, <2>1, <2>2 DEF GoesFrom
  <1>2. ASSUME NoAddedFrom(q, k), e.type # "added" PROVE NoAddedFrom(r, k)
    <2>1. \A i \in k..Len(r) : (i \in k..Len(q) /\ i \in 1..Len(q)) \/ i = Len(q) + 1
      BY <1>0
    <2> QED
      BY <1>0, <1>2, <2>1 DEF NoAddedFrom
  <1>3. ASSUME NoAddedFrom(q, k), e.type = "removed" PROVE GoesFrom(r, k, e.which)
    <2>1. NoAddedFrom(r, k)
      BY <1>2, <1>3
    <2>2. Len(q) + 1 \in k..Len(r)
      BY <1>0
    <2> QED
      BY <1>0, <1>3, <2>1, <2>2 DEF GoesFrom, NoAddedFrom
  <1> QED
    BY <1>1, <1>2, <1>3

\* A queue that grew holds no such event iff it held none and e is none.
LEMMA ExtendedNone ==
  ASSUME NEW q, NEW r, NEW e, Extends(r, q, e), NEW k \in 1..(Len(q) + 1), NEW w
  PROVE  /\ NoAddedFrom(r, k) <=> NoAddedFrom(q, k) /\ e.type # "added"
         /\ NoStickFrom(r, k, w) <=> NoStickFrom(q, k, w) /\ ~OfStick(e, w)
         /\ \A b : NoButtonFrom(r, k, w, b) <=> NoButtonFrom(q, k, w, b) /\ ~OfButton(e, w, b)
  <1>0. /\ Len(q) \in Nat /\ Len(r) = Len(q) + 1
        /\ \A i \in 1..Len(q) : r[i] = q[i]
        /\ r[Len(q) + 1] = e
    BY DEF Extends
  <1>1. /\ k..Len(r) = k..Len(q) \cup {Len(q) + 1}
        /\ \A i \in k..Len(q) : r[i] = q[i]
    BY <1>0
  <1>2. NoAddedFrom(r, k) <=> NoAddedFrom(q, k) /\ e.type # "added"
    BY <1>0, <1>1 DEF NoAddedFrom
  <1>3. NoStickFrom(r, k, w) <=> NoStickFrom(q, k, w) /\ ~OfStick(e, w)
    BY <1>0, <1>1 DEF NoStickFrom
  <1>4. ASSUME NEW b
        PROVE  NoButtonFrom(r, k, w, b) <=> NoButtonFrom(q, k, w, b) /\ ~OfButton(e, w, b)
    BY <1>0, <1>1 DEF NoButtonFrom
  <1> QED
    BY <1>2, <1>3, <1>4

\* What an appended event does to the places of the queue.
LEMMA Sending ==
  ASSUME TypeInv, NEW e \in EventRecords, queue' = Append(queue, e)
  PROVE  /\ Extends(queue', queue, e)
         /\ Places' = Places \cup {Len(queue) + 1}
         /\ \A k \in Places : queue[k].which \in Nat /\ queue[k].which < plugs
         /\ e.which \in Nat /\ plugs \in Nat /\ plugged \in Int /\ plugged < plugs
  <1>1. queue \in Seq(EventRecords) /\ \A k \in Places : WellFormed(queue[k])
    BY DEF TypeInv, QueueType
  <1>2. \A k \in Places : queue[k] \in EventRecords
    BY <1>1 DEF Places
  <1>3. plugs \in Nat /\ plugged \in Int /\ plugged < plugs
    BY JoyAssumption DEF TypeInv, JoyTypeOK, None
  <1>4. Extends(queue', queue, e) /\ Places' = Places \cup {Len(queue) + 1}
    BY <1>1, Appended DEF Extends, Places
  <1> QED
    BY <1>1, <1>2, <1>3, <1>4 DEF EventRecords, WellFormed

\* The operator keeps the events in order: those of the instance that is plugged
\* in come last, and unplugging it appends the removal that ends them.
LEMMA SendOrder ==
  ASSUME TypeInv, OrderInv, NEW e \in EventRecords, queue' = Append(queue, e),
         Plugs(e) \/ Unplugs(e) \/ Signals(e)
  PROVE  OrderInv'
  <1> DEFINE n == Len(queue)
  <1>0. /\ Extends(queue', queue, e) /\ n \in Nat /\ Len(queue') = n + 1
        /\ queue'[n + 1] = e /\ Places' = Places \cup {n + 1} /\ Places = 1..n
        /\ \A k \in Places : queue'[k] = queue[k]
        /\ \A k \in Places : queue[k].which \in Nat /\ queue[k].which < plugs
        /\ e.which \in Nat /\ plugs \in Nat /\ plugged \in Int
    BY Sending DEF Extends, Places
  <1>1. SUFFICES ASSUME NEW k \in Places' PROVE Ordered(queue', k, plugged')
    BY DEF OrderInv
  <1>2. CASE k \in Places
    <2>1. Ordered(queue, k, plugged) /\ queue'[k] = queue[k]
      BY <1>0, <1>2 DEF OrderInv
    <2>2. CASE Plugs(e)
      <3>1. queue[k].which # plugged /\ queue[k].which # plugged'
        BY <1>0, <1>2, <2>2 DEF Plugs, None
      <3> QED
        BY <1>0, <1>2, <2>1, <3>1, ExtendedGoes DEF Ordered
    <2>3. CASE Unplugs(e)
      <3>1. queue[k].which # plugged' /\ e.type = "removed" /\ e.which = plugged
        BY <1>0, <1>2, <2>3 DEF Unplugs, None
      <3> QED
        BY <1>0, <1>2, <2>1, <3>1, ExtendedGoes DEF Ordered
    <2>4. CASE Signals(e)
      <3>1. plugged' = plugged /\ e.type # "added"
        BY <2>4 DEF Signals
      <3> QED
        BY <1>0, <1>2, <2>1, <3>1, ExtendedGoes DEF Ordered
    <2> QED
      BY <2>2, <2>3, <2>4
  <1>3. CASE k = n + 1
    <2>1. queue'[k] = e /\ k \in k..Len(queue') /\ \A i \in k..Len(queue') : i = k
      BY <1>0, <1>3
    <2>2. CASE Plugs(e)
      BY <2>1, <2>2 DEF Plugs, Ordered
    <2>3. CASE Unplugs(e)
      <3>1. e.which # plugged' /\ e.type = "removed"
        BY <1>0, <2>3 DEF Unplugs, None
      <3>2. \A i \in k..k : queue'[i].type # "added"
        BY <1>0, <1>3, <2>1, <3>1
      <3> QED
        BY <2>1, <3>1, <3>2 DEF GoesFrom, Ordered
    <2>4. CASE Signals(e)
      BY <2>1, <2>4 DEF NoAddedFrom, Signals, Ordered
    <2> QED
      BY <2>2, <2>3, <2>4
  <1> QED
    BY <1>0, <1>2, <1>3

\* The operator's last event about a button or the stick tells how it is now.
LEMMA SendLast ==
  ASSUME TypeInv, LastInv, NEW e \in EventRecords, queue' = Append(queue, e),
         Plugs(e) \/ Unplugs(e) \/ Signals(e)
  PROVE  LastInv'
  <1> DEFINE n == Len(queue)
  <1>0. /\ Extends(queue', queue, e) /\ n \in Nat /\ Len(queue') = n + 1
        /\ queue'[n + 1] = e /\ Places' = Places \cup {n + 1}
        /\ \A k \in Places : queue'[k] = queue[k] /\ k + 1 \in 1..(n + 1)
        /\ \A k \in Places : queue[k].which \in Nat /\ queue[k].which < plugs
        /\ e.which \in Nat /\ plugs \in Nat /\ plugged \in Int
    BY Sending DEF Extends, Places
  <1>1. CASE Plugs(e) \/ Unplugs(e)
    <2>1. e.type \in {"added", "removed"} /\ plugged' \in {plugs, -1}
      BY <1>1 DEF Plugs, Unplugs, None
    <2>2. ASSUME NEW k \in Places'
          PROVE  ~OfStick(queue'[k], plugged') /\ \A b : ~OfButton(queue'[k], plugged', b)
      <3>1. CASE k \in Places
        <4>1. queue'[k].which \in Nat /\ queue'[k].which < plugs /\ plugs \in Nat
          BY <1>0, <3>1
        <4>2. \A x \in Nat : x < plugs => x \notin {plugs, -1}
          BY <4>1
        <4>3. queue'[k].which \notin {plugs, -1}
          BY <4>1, <4>2
        <4> QED
          BY <2>1, <4>3 DEF OfStick, OfButton
      <3>2. CASE k = n + 1
        BY <1>0, <2>1, <3>2 DEF OfStick, OfButton
      <3> QED
        BY <1>0, <3>1, <3>2
    <2> QED
      BY <2>2 DEF LastInv
  <1>2. CASE Signals(e)
    <2>0. plugged' = plugged
      BY <1>2 DEF Signals
    <2>1. ASSUME NEW b \in Buttons, NEW k \in Places', OfButton(queue'[k], plugged, b),
                 NoButtonFrom(queue', k + 1, plugged, b)
          PROVE  queue'[k].type = "down" <=> b \in held'
      <3>1. CASE k \in Places
        <4>1. queue'[k] = queue[k] /\ k + 1 \in 1..(n + 1)
          BY <1>0, <3>1
        <4>2. NoButtonFrom(queue, k + 1, plugged, b) /\ ~OfButton(e, plugged, b)
          BY <1>0, <2>1, <4>1, ExtendedNone
        <4>3. queue[k].type = "down" <=> b \in held
          BY <2>1, <3>1, <4>1, <4>2 DEF LastInv
        <4>4. b \in held <=> b \in held'
          BY <1>2, <4>2 DEF Signals, OfButton
        <4> QED
          BY <4>1, <4>3, <4>4
      <3>2. CASE k = n + 1
        BY <1>0, <1>2, <2>1, <3>2 DEF Signals, OfButton
      <3> QED
        BY <1>0, <3>1, <3>2
    <2>2. ASSUME NEW k \in Places', OfStick(queue'[k], plugged),
                 NoStickFrom(queue', k + 1, plugged)
          PROVE  queue'[k].arg = stick'
      <3>1. CASE k \in Places
        <4>1. queue'[k] = queue[k] /\ k + 1 \in 1..(n + 1)
          BY <1>0, <3>1
        <4>2. NoStickFrom(queue, k + 1, plugged) /\ ~OfStick(e, plugged)
          BY <1>0, <2>2, <4>1, ExtendedNone
        <4>3. queue[k].arg = stick
          BY <2>2, <3>1, <4>1, <4>2 DEF LastInv
        <4> QED
          BY <1>2, <4>1, <4>2, <4>3 DEF Signals, OfStick
      <3>2. CASE k = n + 1
        BY <1>0, <1>2, <2>2, <3>2 DEF Signals, OfStick
      <3> QED
        BY <1>0, <3>1, <3>2
    <2> QED
      BY <2>0, <2>1, <2>2 DEF LastInv
  <1> QED
    BY <1>1, <1>2

\* An event the operator adds is still to be handled, so joy_msg_ owes the device
\* nothing more than it did.
LEMMA SendRest ==
  ASSUME TypeInv, DeviceInv, ShownInv, MirrorInv, NEW e \in EventRecords,
         queue' = Append(queue, e), UNCHANGED joyVars, Plugs(e) \/ Unplugs(e) \/ Signals(e)
  PROVE  DeviceInv' /\ ShownInv' /\ MirrorInv'
  <1> DEFINE n == Len(queue)
  <1>0. /\ Extends(queue', queue, e) /\ 1 \in 1..(n + 1)
        /\ plugs \in Nat /\ plugged \in Int
        /\ plugged = None => held = {}
        /\ joystick_instance_id_ \in Int
    <2>1. joystick_instance_id_ \in Int /\ (plugged = None => held = {})
      BY JoyAssumption DEF TypeInv, JoyTypeOK, None
    <2> QED
      BY <2>1, Sending DEF Extends
  <1>1. /\ NoAddedFrom(queue', 1) <=> NoAddedFrom(queue, 1) /\ e.type # "added"
        /\ \A w : /\ NoStickFrom(queue', 1, w) <=> NoStickFrom(queue, 1, w) /\ ~OfStick(e, w)
                  /\ \A b : NoButtonFrom(queue', 1, w, b)
                             <=> NoButtonFrom(queue, 1, w, b) /\ ~OfButton(e, w, b)
    BY <1>0, ExtendedNone
  <1>2. /\ \A w : GoesFrom(queue, 1, w) => GoesFrom(queue', 1, w)
        /\ NoAddedFrom(queue, 1) /\ e.type = "removed" => GoesFrom(queue', 1, e.which)
    BY <1>0, ExtendedGoes
  <1>3. CASE Plugs(e)
    BY <1>0, <1>2, <1>3 DEF Plugs, DeviceInv, ShownInv, MirrorInv, joyVars, None
  <1>4. CASE Unplugs(e)
    BY <1>0, <1>2, <1>4 DEF Unplugs, DeviceInv, ShownInv, MirrorInv, joyVars, None
  <1>5. CASE Signals(e)
    <2>0. plugged' = plugged /\ plugs' = plugs /\ e.which = plugged /\ e.type # "added"
      BY <1>5 DEF Signals
    <2>1. ASSUME NEW b \in Buttons, ~OfButton(e, plugged, b)
          PROVE  b \in held' <=> b \in held
      BY <1>5, <2>1 DEF Signals, OfButton
    <2>2. ~OfStick(e, plugged) => stick' = stick
      BY <1>5 DEF Signals, OfStick
    <2>3. DeviceInv'
      BY <1>1, <2>0, <2>1 DEF DeviceInv
    <2>4. ShownInv'
      BY <1>1, <1>2, <2>0 DEF ShownInv, joyVars
    <2>5. MirrorInv'
      BY <1>1, <2>0, <2>1, <2>2 DEF MirrorInv, joyVars
    <2> QED
      BY <2>3, <2>4, <2>5
  <1> QED
    BY <1>3, <1>4, <1>5

-----------------------------------------------------------------------------
(* The event thread takes the first event.                                 *)

\* r is the queue q without its first event.
Drops(r, q) ==
  /\ Len(q) \in Nat \ {0} /\ Len(r) = Len(q) - 1
  /\ \A k \in 1..(Len(q) - 1) : r[k] = q[k + 1]

\* Without its first event a queue holds at k what it held at k + 1.
LEMMA DroppedNone ==
  ASSUME NEW q, NEW r, Drops(r, q), NEW k \in 1..Len(q), NEW w
  PROVE  /\ NoAddedFrom(r, k) <=> NoAddedFrom(q, k + 1)
         /\ NoStickFrom(r, k, w) <=> NoStickFrom(q, k + 1, w)
         /\ \A b : NoButtonFrom(r, k, w, b) <=> NoButtonFrom(q, k + 1, w, b)
  <1>0. /\ Len(q) \in Nat \ {0} /\ Len(r) = Len(q) - 1
        /\ \A i \in 1..(Len(q) - 1) : r[i] = q[i + 1]
    BY DEF Drops
  <1>1. /\ \A i \in k..Len(r) : i + 1 \in (k + 1)..Len(q) /\ r[i] = q[i + 1]
        /\ \A i \in (k + 1)..Len(q) : i - 1 \in k..Len(r) /\ r[i - 1] = q[i]
    BY <1>0
  <1>2. NoAddedFrom(r, k) <=> NoAddedFrom(q, k + 1)
    BY <1>1 DEF NoAddedFrom
  <1>3. NoStickFrom(r, k, w) <=> NoStickFrom(q, k + 1, w)
    BY <1>1 DEF NoStickFrom
  <1>4. ASSUME NEW b
        PROVE  NoButtonFrom(r, k, w, b) <=> NoButtonFrom(q, k + 1, w, b)
    BY <1>1 DEF NoButtonFrom
  <1> QED
    BY <1>2, <1>3, <1>4

\* A queue holds no such event iff its first is none and the rest hold none.
LEMMA FirstNone ==
  ASSUME NEW q, Len(q) \in Nat \ {0}, NEW w
  PROVE  /\ NoAddedFrom(q, 1) <=> q[1].type # "added" /\ NoAddedFrom(q, 2)
         /\ NoStickFrom(q, 1, w) <=> ~OfStick(q[1], w) /\ NoStickFrom(q, 2, w)
         /\ \A b : NoButtonFrom(q, 1, w, b) <=> ~OfButton(q[1], w, b) /\ NoButtonFrom(q, 2, w, b)
  <1>1. 1..Len(q) = {1} \cup 2..Len(q)
    OBVIOUS
  <1> QED
    BY <1>1 DEF NoAddedFrom, NoStickFrom, NoButtonFrom

\* A removal that is ahead of every addition stays so when the first event is
\* taken, unless it is the event that is taken.
LEMMA DroppedGoes ==
  ASSUME NEW q, NEW r, Drops(r, q), NEW w
  PROVE  /\ \A k \in 1..Len(q) : GoesFrom(q, k + 1, w) => GoesFrom(r, k, w)
         /\ GoesFrom(q, 1, w) => /\ q[1].type # "added"
                                 /\ ~(q[1].type = "removed" /\ q[1].which = w) => GoesFrom(r, 1, w)
  <1>0. /\ Len(q) \in Nat \ {0} /\ Len(r) = Len(q) - 1
        /\ \A i \in 1..(Len(q) - 1) : r[i] = q[i + 1]
    BY DEF Drops
  <1>1. ASSUME NEW k \in 1..Len(q), GoesFrom(q, k + 1, w) PROVE GoesFrom(r, k, w)
    <2>1. PICK j \in (k + 1)..Len(q) : /\ q[j].type = "removed" /\ q[j].which = w
                                       /\ \A i \in (k + 1)..j : q[i].type # "added"
      BY <1>1 DEF GoesFrom
    <2>2. j - 1 \in k..Len(r) /\ r[j - 1] = q[j]
      BY <1>0
    <2>3. \A i \in k..(j - 1) : i + 1 \in (k + 1)..j /\ r[i] = q[i + 1]
      BY <1>0
    <2> QED
      BY <2>1, <2>2, <2>3 DEF GoesFrom
  <1>2. ASSUME GoesFrom(q, 1, w)
        PROVE  /\ q[1].type # "added"
               /\ ~(q[1].type = "removed" /\ q[1].which = w) => GoesFrom(r, 1, w)
    <2>1. PICK j \in 1..Len(q) : /\ q[j].type = "removed" /\ q[j].which = w
                                 /\ \A i \in 1..j : q[i].type # "added"
      BY <1>2 DEF GoesFrom
    <2>2. 1 \in 1..j
      BY <2>1
    <2>3. ASSUME j # 1 PROVE GoesFrom(q, 1 + 1, w)
      <3>1. j \in (1 + 1)..Len(q) /\ \A i \in (1 + 1)..j : i \in 1..j
        BY <1>0, <2>3
      <3> QED
        BY <2>1, <3>1 DEF GoesFrom
    <2>4. 1 \in 1..Len(q)
      BY <1>0
    <2> QED
      BY <1>1, <2>1, <2>2, <2>3, <2>4
  <1> QED
    BY <1>1, <1>2

\* What HandleEvent does to the places of the queue.
LEMMA Taking ==
  ASSUME TypeInv, HandleEvent
  PROVE  /\ Drops(queue', queue) /\ Head(queue) = queue[1] /\ 1 \in Places
         /\ UNCHANGED userVars
         /\ Places' = 1..(Len(queue) - 1)
         /\ queue[1].which \in Nat /\ queue[1].which < plugs
  <1>1. queue # <<>> /\ queue' = Tail(queue) /\ UNCHANGED userVars
    BY DEF HandleEvent
  <1>2. queue \in Seq(EventRecords) /\ \A k \in Places : WellFormed(queue[k])
    BY DEF TypeInv, QueueType
  <1>3. Drops(queue', queue) /\ Head(queue) = queue[1] /\ queue[1] \in EventRecords
        /\ 1 \in Places /\ Places' = 1..(Len(queue) - 1)
    BY <1>1, <1>2, Taken DEF Drops, Places
  <1> QED
    BY <1>1, <1>2, <1>3 DEF EventRecords, WellFormed

\* Taking the oldest event keeps the others in order and the last ones true, and a
\* device that is still to be added still has all its events in the queue.
LEMMA TakeQueue ==
  ASSUME TypeInv, OrderInv, LastInv, DeviceInv, HandleEvent
  PROVE  OrderInv' /\ LastInv' /\ DeviceInv'
  <1>0. /\ Drops(queue', queue) /\ Places' = 1..(Len(queue) - 1)
        /\ Len(queue) \in Nat \ {0} /\ 1 \in Places /\ 1 \in 1..Len(queue)
        /\ plugged' = plugged /\ held' = held /\ stick' = stick
    BY Taking DEF Drops, userVars
  <1>1. ASSUME NEW k \in Places'
        PROVE  k \in 1..Len(queue) /\ k + 1 \in Places /\ queue'[k] = queue[k + 1]
               /\ k + 1 \in 1..Len(queue)
    BY <1>0 DEF Places, Drops
  <1>2. OrderInv'
    <2> SUFFICES ASSUME NEW k \in Places' PROVE Ordered(queue', k, plugged)
      BY <1>0 DEF OrderInv
    <2>1. Ordered(queue, k + 1, plugged)
      BY <1>1 DEF OrderInv
    <2> QED
      BY <1>0, <1>1, <2>1, DroppedNone, DroppedGoes DEF Ordered
  <1>3. LastInv'
    <2>1. ASSUME NEW b \in Buttons, NEW k \in Places', OfButton(queue'[k], plugged, b),
                 NoButtonFrom(queue', k + 1, plugged, b)
          PROVE  queue'[k].type = "down" <=> b \in held
      <3>1. NoButtonFrom(queue, (k + 1) + 1, plugged, b)
        BY <1>0, <1>1, <2>1, DroppedNone
      <3> QED
        BY <1>1, <2>1, <3>1 DEF LastInv
    <2>2. ASSUME NEW k \in Places', OfStick(queue'[k], plugged),
                 NoStickFrom(queue', k + 1, plugged)
          PROVE  queue'[k].arg = stick
      <3>1. NoStickFrom(queue, (k + 1) + 1, plugged)
        BY <1>0, <1>1, <2>2, DroppedNone
      <3> QED
        BY <1>1, <2>2, <3>1 DEF LastInv
    <2> QED
      BY <1>0, <2>1, <2>2 DEF LastInv
  <1>4. DeviceInv'
    <2> SUFFICES ASSUME plugged # None, ~NoAddedFrom(queue', 1), NEW b \in Buttons,
                        NoButtonFrom(queue', 1, plugged, b)
                 PROVE  b \notin held
      BY <1>0 DEF DeviceInv
    <2>1. 1 + 1 = 2
      OBVIOUS
    <2>2. ~NoAddedFrom(queue, 2) /\ NoButtonFrom(queue, 2, plugged, b)
      BY <1>0, <2>1, DroppedNone
    <2>3. ~NoAddedFrom(queue, 1)
      BY <1>0, <2>2, FirstNone
    <2>4. ~OfButton(queue[1], plugged, b)
      BY <1>0, <2>3 DEF OrderInv, Ordered, OfButton
    <2> QED
      BY <1>0, <2>2, <2>3, <2>4, FirstNone DEF DeviceInv
  <1> QED
    BY <1>2, <1>3, <1>4

\* When a device is added, no button is shown.
LEMMA AddedIsBlank ==
  ASSUME TypeInv, ShownInv, HandleEvent, queue[1].type = "added"
  PROVE  buttons = {}
  <1>1. Drops(queue', queue) /\ Len(queue) \in Nat \ {0}
    BY Taking DEF Drops
  <1>2. ~NoAddedFrom(queue, 1) /\ \A w : ~GoesFrom(queue, 1, w)
    BY <1>1, FirstNone, DroppedGoes
  <1> QED
    BY <1>2 DEF ShownInv

\* No handler leaves a button shown that nothing will clear: a press is handled
\* before the removal of its instance, and handleJoyDeviceRemoved clears it before
\* handleJoyDeviceAdded opens the next (joy.cc:250-360).
LEMMA TakeShown ==
  ASSUME TypeInv, OrderInv, ShownInv, HandleEvent
  PROVE  ShownInv'
  <1> DEFINE e == queue[1]
             id == joystick_instance_id_
  <1>0. /\ Drops(queue', queue) /\ Head(queue) = e /\ 1 \in Places
        /\ plugged' = plugged /\ e.which \in Nat
        /\ Len(queue) \in Nat \ {0} /\ 1 \in 1..Len(queue) /\ 1 + 1 = 2
    BY Taking DEF Drops, userVars
  <1>1. /\ NoAddedFrom(queue', 1) <=> NoAddedFrom(queue, 2)
        /\ NoAddedFrom(queue, 1) <=> e.type # "added" /\ NoAddedFrom(queue, 2)
        /\ \A w : GoesFrom(queue, 1, w) /\ ~(e.type = "removed" /\ e.which = w)
                   => GoesFrom(queue', 1, w)
    BY <1>0, DroppedNone, FirstNone, DroppedGoes
  <1>2. CASE handleJoyAxis(e)
    BY <1>0, <1>1, <1>2 DEF handleJoyAxis, ShownInv
  <1>3. CASE handleJoyButton(e)
    <2>1. e.type \in {"down", "up"} /\ id' = id
      BY <1>3 DEF handleJoyButton
    <2>2. CASE ~Mine(e) \/ ~sized
      BY <1>0, <1>1, <1>3, <2>1, <2>2 DEF handleJoyButton, ShownInv
    <2>3. CASE Mine(e)
      <3>1. e.which = id /\ id # None
        BY <1>0, <2>3 DEF Mine, None
      <3>2. Ordered(queue, 1, plugged)
        BY <1>0 DEF OrderInv
      <3> QED
        BY <1>0, <1>1, <2>1, <3>1, <3>2 DEF Ordered, ShownInv
    <2> QED
      BY <2>2, <2>3
  <1>4. CASE handleJoyDeviceAdded(e)
    <2>1. buttons = {} /\ buttons' = buttons
      BY <1>4, AddedIsBlank DEF handleJoyDeviceAdded
    <2> QED
      BY <2>1 DEF ShownInv
  <1>5. CASE handleJoyDeviceRemoved(e)
    BY <1>0, <1>1, <1>5 DEF handleJoyDeviceRemoved, Cleared, Mine, ShownInv
  <1> QED
    BY <1>0, <1>2, <1>3, <1>4, <1>5 DEF HandleEvent

\* joy_msg_ stays true to the device: the handler of the last event about a button
\* or the stick writes what it is now, and handleJoyDeviceAdded starts from the
\* stick as it is and from no button (joy.cc:250-360).
LEMMA TakeMirror ==
  ASSUME TypeInv, OrderInv, LastInv, DeviceInv, ShownInv, MirrorInv, HandleEvent
  PROVE  MirrorInv'
  <1> DEFINE e == queue[1]
             id == joystick_instance_id_
  <1>0. /\ Drops(queue', queue) /\ Head(queue) = e /\ 1 \in Places
        /\ plugged' = plugged /\ plugs' = plugs /\ held' = held /\ stick' = stick
        /\ e.which \in Nat /\ Len(queue) \in Nat \ {0} /\ 1 \in 1..Len(queue) /\ 1 + 1 = 2
        /\ Ordered(queue, 1, plugged)
    BY Taking DEF Drops, userVars, OrderInv
  <1>1. /\ NoStickFrom(queue', 1, plugged) <=> NoStickFrom(queue, 2, plugged)
        /\ NoStickFrom(queue, 1, plugged)
             <=> ~OfStick(e, plugged) /\ NoStickFrom(queue, 2, plugged)
        /\ \A b : /\ NoButtonFrom(queue', 1, plugged, b) <=> NoButtonFrom(queue, 2, plugged, b)
                  /\ NoButtonFrom(queue, 1, plugged, b)
                       <=> ~OfButton(e, plugged, b) /\ NoButtonFrom(queue, 2, plugged, b)
    BY <1>0, DroppedNone, FirstNone
  <1>2. /\ \A b \in Buttons : OfButton(e, plugged, b) /\ NoButtonFrom(queue, 2, plugged, b)
                               => (e.type = "down" <=> b \in held)
        /\ OfStick(e, plugged) /\ NoStickFrom(queue, 2, plugged) => e.arg = stick
    BY <1>0 DEF LastInv
  <1>3. CASE handleJoyAxis(e)
    BY <1>0, <1>1, <1>2, <1>3 DEF handleJoyAxis, Mine, OfStick, OfButton, MirrorInv
  <1>4. CASE handleJoyButton(e)
    <2>1. /\ e.type \in {"down", "up"} /\ UNCHANGED <<joystick_, id, sized, axis>>
          /\ ~OfStick(e, plugged)
      BY <1>4 DEF handleJoyButton, OfStick
    <2>2. ASSUME joystick_, id = plugged, NEW b \in Buttons, NoButtonFrom(queue', 1, plugged, b)
          PROVE  b \in buttons' <=> b \in held
      <3>1. CASE OfButton(e, plugged, b)
        <4>1. (e.type = "down" <=> b \in held) /\ Mine(e) /\ sized /\ e.arg = b
          BY <1>1, <1>2, <2>2, <3>1 DEF OfButton, Mine, MirrorInv
        <4> QED
          BY <1>4, <2>1, <4>1 DEF handleJoyButton
      <3>2. CASE ~OfButton(e, plugged, b)
        <4>1. b \in buttons <=> b \in held
          BY <1>1, <2>2, <3>2 DEF MirrorInv
        <4>2. ~Mine(e) \/ e.arg # b
          BY <2>1, <2>2, <3>2 DEF OfButton, Mine
        <4> QED
          BY <1>4, <4>1, <4>2 DEF handleJoyButton
      <3> QED
        BY <3>1, <3>2
    <2> QED
      BY <1>0, <1>1, <2>1, <2>2 DEF MirrorInv
  <1>5. CASE handleJoyDeviceAdded(e)
    <2>0. e.type = "added" /\ buttons = {} /\ buttons' = {}
      BY <1>5, AddedIsBlank DEF handleJoyDeviceAdded
    <2>1. CASE joystick_' = FALSE
      BY <2>1 DEF MirrorInv
    <2>2. CASE joystick_' /\ plugged # None /\ id' = plugged /\ sized' = TRUE /\ axis' = stick
      <3>1. plugged \in 0..(plugs - 1)
        BY <2>2, JoyAssumption DEF TypeInv, JoyTypeOK, None
      <3>2. ~NoAddedFrom(queue, 1)
        BY <1>0, <2>0, FirstNone
      <3>3. ASSUME NEW b \in Buttons, NoButtonFrom(queue', 1, plugged, b)
            PROVE  b \notin held
        <4>1. NoButtonFrom(queue, 1, plugged, b)
          BY <1>1, <2>0, <3>3 DEF OfButton
        <4> QED
          BY <2>2, <3>2, <4>1 DEF DeviceInv
      <3> QED
        BY <1>0, <2>0, <2>2, <3>1, <3>3 DEF MirrorInv
    <2> QED
      BY <1>5, <2>1, <2>2 DEF handleJoyDeviceAdded
  <1>6. CASE handleJoyDeviceRemoved(e)
    <2>1. e.type = "removed" /\ id' = id /\ e.which # plugged
      BY <1>0, <1>6 DEF handleJoyDeviceRemoved, Ordered
    <2>2. CASE Mine(e)
      BY <1>6, <2>2 DEF handleJoyDeviceRemoved, MirrorInv
    <2>3. CASE ~Mine(e)
      BY <1>0, <1>1, <1>6, <2>1, <2>3 DEF handleJoyDeviceRemoved, OfStick, OfButton, MirrorInv
    <2> QED
      BY <2>2, <2>3
  <1> QED
    BY <1>0, <1>3, <1>4, <1>5, <1>6 DEF HandleEvent

-----------------------------------------------------------------------------
\* The module starts with no device, no event and an empty joy_msg_.
LEMMA JoyInvInit == JoyInit => JoyInv
  <1> SUFFICES ASSUME JoyInit PROVE JoyInv
    OBVIOUS
  <1>0. /\ FullScale \in Nat /\ MaxPlugs \in Nat /\ MaxQueue \in Nat
        /\ queue = <<>> /\ Len(queue) = 0 /\ Places = {}
    BY JoyAssumption DEF JoyInit, Places
  <1>1. UserType
    BY <1>0 DEF JoyInit, UserType, QueueType, None
  <1>2. MsgType
    <2>1. 0 \in None..(MaxPlugs - 1)
      BY JoyAssumption DEF None
    <2> QED
      BY <2>1 DEF JoyInit, MsgType
  <1>3. PlaceType /\ FlagType
    BY DEF JoyInit, PlaceType, FlagType
  <1>4. OutputType
    BY <1>0 DEF JoyInit, OutputType
  <1>5. OrderInv /\ LastInv /\ DeviceInv /\ ShownInv /\ MirrorInv
    BY <1>0 DEF JoyInit, OrderInv, LastInv, DeviceInv, ShownInv, MirrorInv
  <1> QED
    BY <1>1, <1>2, <1>3, <1>4, <1>5, TypeParts DEF JoyInv

\* The invariant is inductive.
LEMMA JoyInvStep == JoyInv /\ [JoyNext]_joystickVars => JoyInv'
  <1> SUFFICES ASSUME JoyInv, [JoyNext]_joystickVars PROVE JoyInv'
    OBVIOUS
  <1>0. /\ TypeInv /\ OrderInv /\ LastInv /\ DeviceInv /\ ShownInv /\ MirrorInv
        /\ TypeInv'
    BY TypeStep DEF JoyInv
  <1>1. CASE Operator
    <2>1. PICK e \in EventRecords : /\ queue' = Append(queue, e) /\ UNCHANGED joyVars
                                    /\ Plugs(e) \/ Unplugs(e) \/ Signals(e)
      BY <1>0, <1>1, OperatorSends
    <2> QED
      BY <1>0, <2>1, SendOrder, SendLast, SendRest DEF JoyInv
  <1>2. CASE HandleEvent
    BY <1>0, <1>2, TakeQueue, TakeShown, TakeMirror DEF JoyInv
  <1>3. CASE Elsewhere
    <2>a. /\ queue' = queue /\ plugged' = plugged /\ plugs' = plugs /\ held' = held
          /\ stick' = stick /\ buttons' = buttons
          /\ joystick_instance_id_' = joystick_instance_id_ /\ Places' = Places
      BY <1>3 DEF Elsewhere, userVars, Places
    <2>b. OrderInv'
      BY <1>0, <2>a DEF OrderInv
    <2>c. LastInv'
      BY <1>0, <2>a DEF LastInv
    <2>d. DeviceInv'
      BY <1>0, <2>a DEF DeviceInv
    <2>e. ShownInv'
      BY <1>0, <2>a DEF ShownInv
    <2>1. OrderInv' /\ LastInv' /\ DeviceInv' /\ ShownInv'
      BY <2>b, <2>c, <2>d, <2>e
    <2>2. MirrorInv'
      <3>1. CASE joystick_' = FALSE
        BY <3>1 DEF MirrorInv
      <3>2. CASE joystick_' = joystick_
        <4>1. sized' = sized /\ axis' = axis
          BY <1>3 DEF Elsewhere
        <4> QED
          BY <1>0, <2>a, <3>2, <4>1 DEF MirrorInv
      <3> QED
        BY <1>3, <3>1, <3>2 DEF Elsewhere
    <2> QED
      BY <1>0, <2>1, <2>2 DEF JoyInv
  <1> QED
    BY <1>1, <1>2, <1>3, Kinds

\* The order of the queue, what its last events tell, and what joy_msg_ owes them
\* hold in every state of the joystick module, however plugging, unplugging and
\* pressing overlap with the event thread (joy.cc:141-201, 250-360).
THEOREM JoyInvariant == JoySpec => []JoyInv
  BY JoyInvInit, JoyInvStep, PTL DEF JoySpec

\* With no event left, joy_msg_ owes the device nothing.
LEMMA Mirrors == JoyInv => MirrorsDevice
  <1> SUFFICES ASSUME JoyInv, joystick_, joystick_instance_id_ = plugged, queue = <<>>
               PROVE  sized /\ buttons = held /\ axis = stick
    BY DEF MirrorsDevice
  <1>1. /\ NoStickFrom(queue, 1, plugged)
        /\ \A b : NoButtonFrom(queue, 1, plugged, b)
    BY DEF NoStickFrom, NoButtonFrom
  <1>2. buttons \subseteq Buttons /\ held \subseteq Buttons
    BY DEF JoyInv, TypeInv, JoyTypeOK, Buttons
  <1> QED
    BY <1>1, <1>2 DEF JoyInv, MirrorInv

\* Once the events are used up, joy_msg_ shows the device that is open as it is:
\* no press of an earlier instance is left (joy.cc:141-201, 250-360).
THEOREM JoyMirrorsDevice == JoySpec => []MirrorsDevice
  BY JoyInvariant, Mirrors, PTL

\* All variables of the joystick module keep their types; in particular the
\* limiter stays within a full deflection of the stick, however its bound divides
\* it (joy_stick_module.cc:97-201).
THEOREM JoyTypeCorrect == JoySpec => []JoyTypeOK
  <1>1. JoyInv => JoyTypeOK
    BY DEF JoyInv, TypeInv
  <1> QED
    BY <1>1, JoyInvariant, PTL

=============================================================================
