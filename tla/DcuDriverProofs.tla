--------------------------- MODULE DcuDriverProofs ---------------------------
(***************************************************************************)
(* What holds of the DCU driver for every wiring of actuators, every order *)
(* of the maps, every length of the polls and any number of faults.        *)
(***************************************************************************)
EXTENDS DcuDriver, TLAPS

\* The poll is for an actuator of the list; EnableActuator never polls for a
\* passive one.
PollAt ==
  /\ at >= 1
  /\ mainPc = "enablePoll" =>
       at \in DOMAIN actuator_name_list_ /\ actuator_name_list_[at] \in Managed
  /\ mainPc = "disablePoll" => at \in DOMAIN DisableOrder

TypeInv == TypeOK /\ PollAt

\* As long as ret stands, every managed actuator the loop has passed has been
\* seen enabled.
EnableSeen ==
  mainPc \in {"enable", "enablePoll"} /\ ret =>
    \A k \in DOMAIN actuator_name_list_ :
      k < at /\ actuator_name_list_[k] \in Managed => actuator_name_list_[k] \in confirmed

\* Before Start there is no motion command and no callback under way.
QuietBeforeStart ==
  mainPc \in {"enable", "enablePoll", "cache", "ready", "failed"} =>
    ~is_running_ /\ cbLeft = {} /\ \A a \in Actuators : frame[a] # "motion"

AllSeen ==
  enable_actuator_ /\ mainPc \notin {"enable", "enablePoll", "failed"} =>
    Managed \subseteq confirmed

EnableInv == EnableSeen /\ QuietBeforeStart /\ AllSeen

\* An actuator that is off and stays off, whatever the bus sends.
Retired(a) == a \in Managed => power[a] = "off" /\ frame[a] = "disable"

\* The actuator the disable poll is for: nobody touches its request, and once
\* the work loop has sent it the actuator is off, and then reports so.
Asked(a) ==
  /\ ctrl[ChannelOf[a]] = a
  /\ a \in Managed =>
       /\ frame[a] = "disable"
       /\ slept >= 1 => power[a] = "off"
       /\ slept = 2 => recv_buf_[a] = "off"

NoNewCallback ==
  mainPc \in {"join", "disable", "disablePoll", "stop", "stopJoin", "stopped"} => ~is_running_

\* A Shutdown without faults and without a late callback.
Undisturbed == faulty = {} /\ ~late

Disabling ==
  mainPc \in {"disable", "disablePoll"} /\ Undisturbed =>
    /\ cbLeft = {}
    /\ \A k \in DOMAIN DisableOrder : k < at => Retired(DisableOrder[k])
    /\ mainPc = "disablePoll" => Asked(DisableOrder[at])

AllRetired ==
  mainPc \in {"stop", "stopJoin", "stopped"} /\ Undisturbed =>
    cbLeft = {} /\ \A a \in Managed : Retired(a)

ShutdownInv == NoNewCallback /\ Disabling /\ AllRetired

-----------------------------------------------------------------------------
\* The state in which XyberController::Start has returned meets all of them.
LEMMA InitInv == Init => TypeInv /\ EnableInv /\ ShutdownInv
  <1> SUFFICES ASSUME Init PROVE TypeInv /\ EnableInv /\ ShutdownInv
    OBVIOUS
  <1>1. TypeInv
    <2>1. DcuTypeOK
      BY Wiring DEF Init, DcuInit, DcuTypeOK, Managed, Requests, Commands
    <2>2. mainPc \in {"enable", "ready"}
      BY DEF Init
    <2>3. at \in Nat /\ slept \in 0..2 /\ polls \in 0..(Polls - 1)
      BY Lists DEF Init
    <2>4. /\ is_running_ \in BOOLEAN /\ ret \in BOOLEAN
          /\ ecatRunning \in BOOLEAN /\ late \in BOOLEAN
          /\ cbLeft \subseteq Actuators /\ busLeft \subseteq Dcus /\ confirmed \subseteq Managed
      BY DEF Init
    <2>5. pubPc = "none" /\ busPc = "test"
      BY DEF Init
    <2>6. PollAt
      BY <2>2 DEF Init, PollAt
    <2> QED BY <2>1, <2>2, <2>3, <2>4, <2>5, <2>6 DEF TypeInv, TypeOK
  <1>2. EnableInv
    BY Lists DEF Init, DcuInit, EnableInv, EnableSeen, QuietBeforeStart, AllSeen
  <1>3. ShutdownInv
    BY DEF Init, ShutdownInv, NoNewCallback, Disabling, AllRetired
  <1> QED BY <1>1, <1>2, <1>3

\* What the operations of a DCU do to its types.
LEMMA DcuTypes ==
  ASSUME DcuTypeOK
  PROVE  /\ \A a \in Actuators, r \in Requests : RequestState(a, r) => DcuTypeOK'
         /\ \A a \in Actuators, c \in Commands : SetMitCmd(a, c) => DcuTypeOK'
         /\ \A dcu \in Dcus : PushRecvData(dcu) \/ PullSendData(dcu) => DcuTypeOK'
         /\ \A a \in Actuators : Fault(a) => DcuTypeOK'
         /\ UNCHANGED dcuVars => DcuTypeOK'
  <1> USE Wiring DEF DcuTypeOK, Managed, Requests, Commands
  <1>1. \A a \in Actuators, r \in Requests : RequestState(a, r) => DcuTypeOK'
    BY DEF RequestState
  <1>2. \A a \in Actuators, c \in Commands : SetMitCmd(a, c) => DcuTypeOK'
    BY DEF SetMitCmd
  <1>3. \A dcu \in Dcus : PushRecvData(dcu) \/ PullSendData(dcu) => DcuTypeOK'
    BY DEF PushRecvData, PullSendData
  <1>4. \A a \in Actuators : Fault(a) => DcuTypeOK'
    BY DEF Fault
  <1>5. UNCHANGED dcuVars => DcuTypeOK'
    BY DEF dcuVars
  <1> QED BY <1>1, <1>2, <1>3, <1>4, <1>5

\* The lists InitDcu and Shutdown walk name configured actuators only.
LEMMA ListTypes ==
  /\ \A k \in DOMAIN actuator_name_list_ : actuator_name_list_[k] \in Actuators
  /\ \A k \in DOMAIN DisableOrder : DisableOrder[k] \in Actuators
  /\ DOMAIN actuator_name_list_ = 1..Len(actuator_name_list_)
  /\ DOMAIN DisableOrder = 1..Len(DisableOrder)
  /\ Len(actuator_name_list_) \in Nat /\ Len(DisableOrder) \in Nat
BY Lists

\* Type correctness, with the places of the polls.
LEMMA TypeStep ==
  ASSUME TypeInv, [Next]_vars
  PROVE  TypeInv'
  <1> USE DEF TypeInv
  <1> DcuTypeOK BY DEF TypeOK
  <1>1. CASE EnableRequest
    <2> DEFINE a == actuator_name_list_[at]
    <2>1. at \in DOMAIN actuator_name_list_ /\ a \in Actuators
      BY <1>1, ListTypes DEF EnableRequest, PollAt, TypeOK
    <2>2. DcuTypeOK'
      BY <1>1, <2>1, DcuTypes DEF EnableRequest, Requests
    <2>3. CASE a \in Passive
      BY <1>1, <2>2, <2>3, Lists DEF EnableRequest, Go, Enabled, TypeOK, PollAt, threadVars
    <2>4. CASE a \notin Passive
      BY <1>1, <2>1, <2>2, <2>4, Lists DEF EnableRequest, TypeOK, PollAt, threadVars, Managed
    <2> QED BY <2>3, <2>4
  <1>2. CASE EnablePoll
    <2>1. DcuTypeOK'
      BY <1>2, DcuTypes DEF EnablePoll
    <2>2. CASE Go("enable")
      <3>1. ret' \in BOOLEAN /\ confirmed' \subseteq Managed
        BY <1>2, <2>2 DEF EnablePoll, Go, Enabled, PollAgain, TypeOK, PollAt
      <3> QED
        BY <1>2, <2>1, <2>2, <3>1, Lists DEF EnablePoll, Go, TypeOK, PollAt, threadVars
    <2>3. CASE ~LastPoll /\ PollAgain /\ UNCHANGED <<ret, confirmed>>
      BY <1>2, <2>1, <2>3, Lists DEF EnablePoll, PollAgain, LastPoll, TypeOK, PollAt, threadVars
    <2> QED BY <1>2, <2>2, <2>3 DEF EnablePoll
  <1>3. CASE EnableEnd
    <2>1. DcuTypeOK'
      BY <1>3, DcuTypes DEF EnableEnd
    <2> QED
      BY <1>3, <2>1 DEF EnableEnd, AfterEnable, TypeOK, PollAt, threadVars
  <1>4. CASE Cache
    <2>1. at <= Len(actuator_name_list_) => actuator_name_list_[at] \in Actuators
      BY ListTypes DEF PollAt, TypeOK
    <2>2. DcuTypeOK'
      BY <1>4, <2>1, DcuTypes DEF Cache, Commands
    <2>3. CASE at <= Len(actuator_name_list_)
      BY <1>4, <2>2, <2>3, Lists DEF Cache, Go, TypeOK, PollAt, threadVars
    <2>4. CASE ~(at <= Len(actuator_name_list_))
      BY <1>4, <2>2, <2>4 DEF Cache, TypeOK, PollAt, threadVars
    <2> QED BY <2>3, <2>4
  <1>5. CASE Join
    <2>1. DcuTypeOK'
      BY <1>5, DcuTypes DEF Join
    <2> QED
      BY <1>5, <2>1 DEF Join, TypeOK, PollAt, threadVars
  <1>6. CASE DisableRequest
    <2>1. at <= Len(DisableOrder) => at \in DOMAIN DisableOrder /\ DisableOrder[at] \in Actuators
      BY ListTypes DEF PollAt, TypeOK
    <2>2. DcuTypeOK'
      BY <1>6, <2>1, DcuTypes DEF DisableRequest, Requests
    <2> QED
      BY <1>6, <2>1, <2>2, Lists DEF DisableRequest, TypeOK, PollAt, threadVars
  <1>7. CASE DisablePoll
    <2>1. DcuTypeOK'
      BY <1>7, DcuTypes DEF DisablePoll
    <2>2. UNCHANGED <<is_running_, ret, threadVars, confirmed, late>>
      BY <1>7 DEF DisablePoll
    <2>3. CASE Go("disable") \/ Go("stop")
      BY <2>1, <2>2, <2>3, Lists DEF Go, TypeOK, PollAt, threadVars
    <2>4. CASE ~LastPoll /\ PollAgain
      BY <2>1, <2>2, <2>4, Lists DEF PollAgain, LastPoll, TypeOK, PollAt, threadVars
    <2> QED BY <1>7, <2>3, <2>4 DEF DisablePoll
  <1>8. CASE StopBus \/ StopJoin \/ Start \/ Shutdown
    <2>1. DcuTypeOK'
      BY <1>8, DcuTypes DEF StopBus, StopJoin, Start, Shutdown
    <2> QED
      BY <1>8, <2>1 DEF StopBus, StopJoin, Start, Shutdown, TypeOK, PollAt, threadVars
  <1>9. CASE CallbackBegin \/ PublishLoop \/ WorkLoopTest
    <2>1. DcuTypeOK'
      BY <1>9, DcuTypes DEF CallbackBegin, PublishLoop, WorkLoopTest
    <2> QED
      BY <1>9, <2>1 DEF CallbackBegin, PublishLoop, WorkLoopTest, TypeOK, PollAt, mainVars
  <1>10. ASSUME NEW a \in Actuators, CallbackSend(a) PROVE TypeInv'
    <2>1. DcuTypeOK'
      BY <1>10, DcuTypes DEF CallbackSend, Commands
    <2> QED
      BY <1>10, <2>1 DEF CallbackSend, TypeOK, PollAt, mainVars
  <1>11. ASSUME NEW dcu \in Dcus, WorkLoopPush(dcu) \/ WorkLoopPull(dcu) PROVE TypeInv'
    <2>1. DcuTypeOK'
      BY <1>11, DcuTypes DEF WorkLoopPush, WorkLoopPull
    <2> QED
      BY <1>11, <2>1 DEF WorkLoopPush, WorkLoopPull, Serve, TypeOK, PollAt
  <1>12. ASSUME NEW a \in Actuators, Fails(a) PROVE TypeInv'
    <2>1. DcuTypeOK'
      BY <1>12, DcuTypes DEF Fails
    <2> QED
      BY <1>12, <2>1 DEF Fails, TypeOK, PollAt, mainVars, threadVars
  <1>13. CASE UNCHANGED vars
    <2>1. DcuTypeOK'
      BY <1>13, DcuTypes DEF vars
    <2> QED
      BY <1>13, <2>1 DEF vars, TypeOK, PollAt, mainVars, threadVars
  <1> QED
    BY <1>1, <1>2, <1>3, <1>4, <1>5, <1>6, <1>7, <1>8, <1>9, <1>10, <1>11, <1>12, <1>13
    DEF Next, MainStep, CallbackStep, WorkLoop

\* Every part of the driver's state keeps its type under all interleavings, and
\* no poll loop makes more than Polls polls.
THEOREM DriverTypeCorrect == Spec => []TypeOK
  <1>1. Spec => []TypeInv
    BY InitInv, TypeStep, PTL DEF Spec
  <1>2. TypeInv => TypeOK
    BY DEF TypeInv
  <1> QED BY <1>1, <1>2, PTL

-----------------------------------------------------------------------------
\* The enabling invariant: the actions of InitDcu build it, Start closes it,
\* and the callback, the only source of motion, cannot begin before.
LEMMA EnableStep ==
  ASSUME TypeInv, EnableInv, [Next]_vars
  PROVE  EnableInv'
  <1> USE DEF EnableInv, EnableSeen, QuietBeforeStart, AllSeen
  <1> TypeOK /\ PollAt BY DEF TypeInv
  <1>1. CASE EnableRequest
    <2> DEFINE a == actuator_name_list_[at]
    <2>1. at \in DOMAIN actuator_name_list_ /\ a \in Actuators
      BY <1>1, ListTypes DEF EnableRequest, PollAt, TypeOK
    <2>2. QuietBeforeStart'
      BY <1>1, <2>1 DEF EnableRequest, Go, RequestState, dcuVars, threadVars, TypeOK, DcuTypeOK
    <2>3. EnableSeen'
      <3>1. CASE a \in Passive
        <4>1. ret' => ret
          BY <1>1, <3>1 DEF EnableRequest, Enabled
        <4>2. at' = at + 1 /\ mainPc = "enable" /\ confirmed' = confirmed
          BY <1>1, <3>1 DEF EnableRequest, Go
        <4>3. \A k \in DOMAIN actuator_name_list_ : k < at' => k < at \/ k = at
          BY <4>2, ListTypes DEF TypeOK
        <4> QED BY <3>1, <4>1, <4>2, <4>3 DEF Managed
      <3>2. CASE a \notin Passive
        BY <1>1, <3>2 DEF EnableRequest
      <3> QED BY <3>1, <3>2
    <2> QED BY <1>1, <2>2, <2>3 DEF EnableRequest, Go
  <1>2. CASE EnablePoll
    <2>1. QuietBeforeStart'
      BY <1>2 DEF EnablePoll, Go, PollAgain, dcuVars, threadVars
    <2>2. EnableSeen'
      <3>1. CASE Go("enable") /\ Enabled(TRUE)
                 /\ confirmed' = confirmed \cup {actuator_name_list_[at]}
        <4>1. ret' => ret
          BY <3>1 DEF Enabled
        <4>2. at' = at + 1 /\ mainPc = "enablePoll"
          BY <1>2, <3>1 DEF EnablePoll, Go
        <4>3. \A k \in DOMAIN actuator_name_list_ : k < at' => k < at \/ k = at
          BY <4>2, ListTypes DEF TypeOK
        <4> QED BY <3>1, <4>1, <4>2, <4>3
      <3>2. CASE Enabled(FALSE)
        BY <3>2 DEF Enabled
      <3>3. CASE PollAgain /\ UNCHANGED <<ret, confirmed>>
        BY <3>3 DEF PollAgain
      <3> QED BY <1>2, <3>1, <3>2, <3>3 DEF EnablePoll
    <2> QED BY <1>2, <2>1, <2>2 DEF EnablePoll, Go, PollAgain
  <1>3. CASE EnableEnd
    <2>1. ret => Managed \subseteq confirmed
      BY <1>3, Lists, ListTypes DEF EnableEnd, TypeOK, Managed
    <2> QED
      BY <1>3, <2>1 DEF EnableEnd, AfterEnable, dcuVars, threadVars
  <1>4. CASE Cache
    <2>1. \A b \in Actuators : frame'[b] # "motion"
      <3>1. CASE at <= Len(actuator_name_list_)
        <4>1. actuator_name_list_[at] \in Actuators
          BY <3>1, ListTypes DEF PollAt, TypeOK
        <4> QED BY <1>4, <3>1, <4>1 DEF Cache, SetMitCmd, TypeOK, DcuTypeOK
      <3>2. CASE ~(at <= Len(actuator_name_list_))
        BY <1>4, <3>2 DEF Cache, dcuVars
      <3> QED BY <3>1, <3>2
    <2> QED
      BY <1>4, <2>1 DEF Cache, Go, threadVars
  <1>5. CASE Start \/ Shutdown \/ Join \/ DisableRequest \/ DisablePoll \/ StopBus \/ StopJoin
    BY <1>5 DEF Start, Shutdown, Join, DisableRequest, DisablePoll, Go, PollAgain, StopBus, StopJoin
  <1>6. CASE CallbackBegin
    BY <1>6 DEF CallbackBegin, mainVars, dcuVars
  <1>7. ASSUME NEW a \in Actuators, CallbackSend(a) PROVE EnableInv'
    BY <1>7 DEF CallbackSend, mainVars
  <1>8. CASE PublishLoop \/ WorkLoopTest
    BY <1>8 DEF PublishLoop, WorkLoopTest, mainVars, dcuVars
  <1>9. ASSUME NEW dcu \in Dcus, WorkLoopPush(dcu) \/ WorkLoopPull(dcu) PROVE EnableInv'
    BY <1>9 DEF WorkLoopPush, WorkLoopPull, PushRecvData, PullSendData
  <1>10. ASSUME NEW a \in Actuators, Fails(a) PROVE EnableInv'
    BY <1>10 DEF Fails, Fault, mainVars, threadVars
  <1>11. CASE UNCHANGED vars
    BY <1>11 DEF vars, dcuVars, mainVars, threadVars
  <1> QED
    BY <1>1, <1>2, <1>3, <1>4, <1>5, <1>6, <1>7, <1>8, <1>9, <1>10, <1>11
    DEF Next, MainStep, CallbackStep, WorkLoop

\* No motion command is written before InitDcu has seen every managed actuator
\* enabled, for any number of actuators and faults.
THEOREM NoMotionBeforeEnabled == Spec => []MotionAfterEnable
  <1>1. Spec => [](TypeInv /\ EnableInv)
    BY InitInv, TypeStep, EnableStep, PTL DEF Spec
  <1>2. TypeInv /\ EnableInv => MotionAfterEnable
    BY DEF EnableInv, QuietBeforeStart, AllSeen, MotionAfterEnable
  <1> QED BY <1>1, <1>2, PTL

-----------------------------------------------------------------------------
\* The work loop's half of a cycle towards one DCU keeps a retired actuator
\* retired and moves the one that is asked towards its answer.
LEMMA BusRetires ==
  ASSUME TypeInv, NEW dcu \in Dcus, WorkLoopPush(dcu) \/ WorkLoopPull(dcu),
         faulty = {}, NEW a \in Actuators
  PROVE  /\ Retired(a) => Retired(a)'
         /\ mainPc = "disablePoll" /\ a = DisableOrder[at] /\ Asked(a) => Asked(a)'
  <1> DcuTypeOK /\ slept \in 0..2 BY DEF TypeInv, TypeOK
  <1>1. CASE WorkLoopPush(dcu)
    BY <1>1 DEF WorkLoopPush, PushRecvData, Retired, Asked, AwaitedFrom, Behind, DcuTypeOK
  <1>2. CASE WorkLoopPull(dcu)
    BY <1>2 DEF WorkLoopPull, PullSendData, Obeys, Retired, Asked, AwaitedFrom, Behind, DcuTypeOK,
                Managed
  <1> QED BY <1>1, <1>2

\* Shutdown's order is kept by every step: the loops stop, then each actuator is
\* disabled and its answer awaited (dcu_driver_module.cc:72-80).
LEMMA ShutdownStep ==
  ASSUME TypeInv, ShutdownInv, [Next]_vars
  PROVE  ShutdownInv'
  <1> USE DEF ShutdownInv, NoNewCallback, Disabling, AllRetired, Undisturbed
  <1> TypeOK /\ PollAt /\ DcuTypeOK BY DEF TypeInv, TypeOK
  <1>1. CASE EnableRequest \/ EnablePoll \/ EnableEnd \/ Cache \/ Start \/ Shutdown
    BY <1>1 DEF EnableRequest, EnablePoll, EnableEnd, AfterEnable, Cache, Go, PollAgain, Start,
                Shutdown
  <1>2. CASE Join
    <2>1. ~late' => cbLeft' = {}
      BY <1>2 DEF Join, threadVars
    <2>2. mainPc' = "disable" /\ at' = 1 /\ ~is_running_'
      BY <1>2 DEF Join
    <2> QED BY <2>1, <2>2, ListTypes
  <1>3. CASE DisableRequest
    <2>1. CASE at <= Len(DisableOrder)
      <3> DEFINE b == DisableOrder[at]
      <3>1. at \in DOMAIN DisableOrder /\ b \in Actuators
        BY <2>1, ListTypes DEF PollAt, TypeOK
      <3>2. RequestState(b, "disable") /\ mainPc' = "disablePoll" /\ slept' = 0 /\ at' = at
        BY <1>3, <2>1 DEF DisableRequest
      <3>3. Asked(b)'
        BY <3>1, <3>2, Wiring DEF RequestState, Asked, DcuTypeOK, Managed
      <3>4. \A c \in Actuators : Retired(c) => Retired(c)'
        BY <3>1, <3>2 DEF RequestState, Retired, DcuTypeOK
      <3> QED
        BY <1>3, <3>2, <3>3, <3>4, ListTypes DEF DisableRequest, RequestState, threadVars
    <2>2. CASE ~(at <= Len(DisableOrder))
      <3>1. Undisturbed => \A a \in Managed : Retired(a)
        BY <1>3, <2>2, Lists, ListTypes DEF DisableRequest, Managed, TypeOK
      <3> QED
        BY <1>3, <2>2, <3>1 DEF DisableRequest, dcuVars, threadVars, Retired
    <2> QED BY <2>1, <2>2
  <1>4. CASE DisablePoll
    <2> DEFINE b == DisableOrder[at]
    <2>1. b \in Actuators
      BY <1>4, ListTypes DEF DisablePoll, PollAt
    <2>2. UNCHANGED <<dcuVars, threadVars, late, is_running_>>
      BY <1>4 DEF DisablePoll
    <2>3. \A c \in Actuators : Retired(c) => Retired(c)'
      BY <2>2 DEF Retired, dcuVars
    <2>4. ASSUME Undisturbed' PROVE Go("disable") /\ Retired(b) /\ Disabling
      <3>1. Undisturbed
        BY <2>2, <2>4 DEF dcuVars
      <3>2. Asked(b) /\ slept = 2
        BY <1>4, <3>1 DEF DisablePoll, Slept
      <3>3. Disabled(b) /\ Retired(b)
        BY <2>1, <3>2 DEF Asked, Disabled, GetPowerState, Managed, Retired
      <3> QED BY <1>4, <3>3 DEF DisablePoll
    <2>5. mainPc' \in {"disable", "disablePoll", "stop"}
      BY <1>4 DEF DisablePoll, Go, PollAgain
    <2>6. ASSUME Undisturbed' PROVE Disabling' /\ mainPc' = "disable"
      <3>1. mainPc' = "disable" /\ at' = at + 1
        BY <2>4, <2>6 DEF Go
      <3>2. \A k \in DOMAIN DisableOrder : k < at' => k < at \/ k = at
        BY <3>1, ListTypes DEF TypeOK
      <3>3. cbLeft' = {} /\ \A k \in DOMAIN DisableOrder : k < at' => Retired(DisableOrder[k])
        BY <1>4, <2>2, <2>4, <2>6, <3>2 DEF DisablePoll, threadVars, dcuVars
      <3> QED BY <2>3, <3>1, <3>3, ListTypes
    <2> QED BY <1>4, <2>2, <2>5, <2>6 DEF DisablePoll
  <1>5. CASE StopBus \/ StopJoin
    BY <1>5 DEF StopBus, StopJoin, dcuVars, threadVars, Retired
  <1>6. CASE CallbackBegin
    BY <1>6 DEF CallbackBegin, mainVars, dcuVars
  <1>7. ASSUME NEW a \in Actuators, CallbackSend(a) PROVE ShutdownInv'
    BY <1>7 DEF CallbackSend, SetMitCmd, mainVars
  <1>8. CASE PublishLoop \/ WorkLoopTest
    BY <1>8 DEF PublishLoop, WorkLoopTest, mainVars, dcuVars, Retired, Asked
  <1>9. ASSUME NEW dcu \in Dcus, WorkLoopPush(dcu) \/ WorkLoopPull(dcu) PROVE ShutdownInv'
    <2>1. UNCHANGED <<mainPc, at, is_running_, cbLeft, late, faulty>>
      BY <1>9 DEF WorkLoopPush, WorkLoopPull, PushRecvData, PullSendData
    <2>2. faulty = {} => \A a \in Actuators :
            /\ Retired(a) => Retired(a)'
            /\ mainPc = "disablePoll" /\ a = DisableOrder[at] /\ Asked(a) => Asked(a)'
      BY <1>9, BusRetires
    <2> QED BY <2>1, <2>2, ListTypes DEF PollAt, Managed
  <1>10. ASSUME NEW a \in Actuators, Fails(a) PROVE ShutdownInv'
    BY <1>10 DEF Fails, Fault, mainVars, threadVars
  <1>11. CASE UNCHANGED vars
    BY <1>11 DEF vars, dcuVars, mainVars, threadVars, Retired, Asked
  <1> QED
    BY <1>1, <1>2, <1>3, <1>4, <1>5, <1>6, <1>7, <1>8, <1>9, <1>10, <1>11
    DEF Next, MainStep, CallbackStep, WorkLoop

\* A Shutdown that no callback overlaps and no fault disturbs leaves every
\* managed actuator off, whatever the wiring and the order of the maps.
THEOREM ShutdownSwitchesOff == Spec => []ShutdownDisables
  <1>1. Spec => [](TypeInv /\ ShutdownInv)
    BY InitInv, TypeStep, ShutdownStep, PTL DEF Spec
  <1>2. TypeInv /\ ShutdownInv => ShutdownDisables
    BY DEF ShutdownInv, AllRetired, Undisturbed, Retired, ShutdownDisables
  <1> QED BY <1>1, <1>2, PTL

-----------------------------------------------------------------------------
\* The loop over the motionless commands replaces one request after the other,
\* and from then to the end of Shutdown's join only commands are written.
Replaced(a) == frame[a] \in Commands

Caching ==
  mainPc = "cache" =>
    \A k \in DOMAIN actuator_name_list_ : k < at => Replaced(actuator_name_list_[k])

AllReplaced ==
  enable_actuator_ /\ mainPc \in {"ready", "running", "join"} => \A a \in Actuators : Replaced(a)

CommandInv == Caching /\ AllReplaced

\* Caching the first commands is kept by every step: no enable request is left in
\* an output buffer once every actuator was visited.
LEMMA CommandStep ==
  ASSUME TypeInv, CommandInv, [Next]_vars
  PROVE  CommandInv'
  <1> USE DEF CommandInv, Caching, AllReplaced
  <1> TypeOK /\ PollAt /\ DcuTypeOK BY DEF TypeInv, TypeOK
  <1>1. CASE EnableRequest \/ EnablePoll
    BY <1>1 DEF EnableRequest, EnablePoll, Go, PollAgain
  <1>2. CASE EnableEnd
    BY <1>2, ListTypes DEF EnableEnd, AfterEnable
  <1>3. CASE Cache
    <2>1. CASE at <= Len(actuator_name_list_)
      <3> DEFINE b == actuator_name_list_[at]
      <3>1. b \in Actuators /\ SetMitCmd(b, "still") /\ mainPc' = "cache" /\ at' = at + 1
        BY <1>3, <2>1, ListTypes DEF Cache, Go, PollAt, TypeOK
      <3>2. \A a \in Actuators : a = b \/ Replaced(a) => Replaced(a)'
        BY <3>1 DEF SetMitCmd, Replaced, Commands, DcuTypeOK
      <3>3. \A k \in DOMAIN actuator_name_list_ : k < at' => k < at \/ k = at
        BY <3>1, ListTypes DEF TypeOK
      <3>4. \A k \in DOMAIN actuator_name_list_ : k < at => Replaced(actuator_name_list_[k])
        BY <1>3 DEF Cache
      <3>5. \A k \in DOMAIN actuator_name_list_ : k < at' => Replaced(actuator_name_list_[k])'
        BY <3>2, <3>3, <3>4, ListTypes
      <3> QED BY <3>1, <3>5
    <2>2. CASE ~(at <= Len(actuator_name_list_))
      <3>1. \A a \in Actuators : Replaced(a)
        BY <1>3, <2>2, Lists, ListTypes DEF Cache, TypeOK
      <3> QED BY <1>3, <2>2, <3>1 DEF Cache, dcuVars, Replaced
    <2> QED BY <2>1, <2>2
  <1>4. CASE Start \/ Shutdown
    BY <1>4 DEF Start, Shutdown, dcuVars, Replaced
  <1>5. CASE Join \/ DisableRequest \/ DisablePoll \/ StopBus \/ StopJoin
    BY <1>5 DEF Join, DisableRequest, DisablePoll, Go, PollAgain, StopBus, StopJoin
  <1>6. CASE CallbackBegin \/ PublishLoop \/ WorkLoopTest
    BY <1>6 DEF CallbackBegin, PublishLoop, WorkLoopTest, mainVars, dcuVars, Replaced
  <1>7. ASSUME NEW a \in Actuators, CallbackSend(a) PROVE CommandInv'
    <2>1. \A b \in Actuators : Replaced(b) => Replaced(b)'
      BY <1>7 DEF CallbackSend, SetMitCmd, Replaced, Commands, DcuTypeOK
    <2> QED BY <1>7, <2>1, ListTypes DEF CallbackSend, mainVars
  <1>8. ASSUME NEW dcu \in Dcus, WorkLoopPush(dcu) \/ WorkLoopPull(dcu) PROVE CommandInv'
    BY <1>8 DEF WorkLoopPush, WorkLoopPull, PushRecvData, PullSendData, Replaced
  <1>9. ASSUME NEW a \in Actuators, Fails(a) PROVE CommandInv'
    BY <1>9 DEF Fails, Fault, mainVars, Replaced
  <1>10. CASE UNCHANGED vars
    BY <1>10 DEF vars, dcuVars, mainVars, Replaced
  <1> QED
    BY <1>1, <1>2, <1>3, <1>4, <1>5, <1>6, <1>7, <1>8, <1>9, <1>10
    DEF Next, MainStep, CallbackStep, WorkLoop

\* While joint commands are accepted no frame left from the enabling is sent
\* under the broadcast id, whatever the wiring and the order of the list.
THEOREM NoRequestAsCommand == Spec => []BroadcastCarriesCommands
  <1>1. Init => CommandInv
    BY DEF Init, CommandInv, Caching, AllReplaced
  <1>2. Spec => [](TypeInv /\ CommandInv)
    BY <1>1, InitInv, TypeStep, CommandStep, PTL DEF Spec
  <1>3. CommandInv => BroadcastCarriesCommands
    BY DEF CommandInv, AllReplaced, Replaced, BroadcastCarriesCommands
  <1> QED BY <1>2, <1>3, PTL
-----------------------------------------------------------------------------
(* The refinement of ActuatorLife.                                         *)

\* While InitDcu enables, an actuator that is reported or was seen on is on:
\* nothing switches it off before DisableAllActuator.
SeenIsOn ==
  mainPc \in {"enable", "enablePoll", "cache", "ready", "failed"} =>
    /\ \A a \in Managed : recv_buf_[a] = "on" => power[a] = "on"
    /\ \A a \in confirmed : power[a] = "on"

\* Requests are written in their own phase only.
RequestsInPhase ==
  /\ mainPc \notin {"enable", "enablePoll", "cache", "failed"} =>
       \A a \in Actuators : frame[a] # "enable"
  /\ mainPc \notin {"disable", "disablePoll", "stop", "stopJoin", "stopped"} =>
       \A a \in Actuators : frame[a] # "disable"

\* A callback that outlives Shutdown's join is a late one, and no other is.
OutlivesLate ==
  IF mainPc \in {"disable", "disablePoll", "stop", "stopJoin", "stopped"}
  THEN cbLeft = {} \/ late
  ELSE ~late

\* An actuator that obeys and whose request to disable the bus still sends is off.
Settled(a) ==
  a \notin faulty /\ ctrl[ChannelOf[a]] = a /\ frame[a] = "disable" => power[a] = "off"

\* But for the actuator being polled before the first cycle, this holds of all, also
\* after a poll that ran out of time.
AllSettled ==
  mainPc \in {"disable", "disablePoll", "stop", "stopJoin", "stopped"} =>
    \A a \in Managed :
      Settled(a) \/ (mainPc = "disablePoll" /\ a = DisableOrder[at] /\ slept = 0)

LifeInv == SeenIsOn /\ RequestsInPhase /\ OutlivesLate /\ AllSettled

\* What the operations of a DCU leave of the requests, the reports and the power.
LEMMA PullPower ==
  ASSUME DcuTypeOK, NEW dcu \in Dcus, PullSendData(dcu), NEW a \in Managed
  PROVE  /\ power[a] = "off" /\ power'[a] = "on" => frame[a] = "enable"
         /\ power[a] = "on" /\ power'[a] = "off" =>
              /\ a \notin faulty /\ ctrl[ChannelOf[a]] = a /\ frame[a] = "disable"
         /\ Behind(a, dcu) /\ a \notin faulty /\ ctrl[ChannelOf[a]] = a /\ frame[a] = "disable" =>
              power'[a] = "off"
         /\ power'[a] \in {"off", "on"}
  BY DEF PullSendData, Obeys, DcuTypeOK, Managed

\* InitDcu's picture of the actuators is true as long as nobody disables them.
LEMMA SeenStep ==
  ASSUME TypeInv, SeenIsOn, RequestsInPhase, [Next]_vars
  PROVE  SeenIsOn'
  <1> USE DEF SeenIsOn
  <1> TypeOK /\ PollAt /\ DcuTypeOK BY DEF TypeInv, TypeOK
  <1>1. CASE EnableRequest
    BY <1>1 DEF EnableRequest, Go, RequestState, dcuVars
  <1>2. CASE EnablePoll
    <2>1. UNCHANGED dcuVars /\ (UNCHANGED confirmed
            \/ (/\ GetPowerState(actuator_name_list_[at]) = "on"
                /\ confirmed' = confirmed \cup {actuator_name_list_[at]}))
      BY <1>2 DEF EnablePoll
    <2>2. actuator_name_list_[at] \in Managed
      BY <1>2 DEF EnablePoll, PollAt
    <2>3. GetPowerState(actuator_name_list_[at]) = "on" => power[actuator_name_list_[at]] = "on"
      BY <1>2, <2>2 DEF EnablePoll, GetPowerState, Managed
    <2> QED
      BY <1>2, <2>1, <2>3 DEF EnablePoll, dcuVars
  <1>3. CASE EnableEnd \/ Start \/ Shutdown \/ Join \/ DisablePoll \/ StopBus \/ StopJoin
    BY <1>3 DEF EnableEnd, AfterEnable, Start, Shutdown, Join, DisablePoll, Go, PollAgain, StopBus,
                StopJoin, dcuVars
  <1>4. CASE Cache
    BY <1>4 DEF Cache, Go, SetMitCmd, dcuVars
  <1>5. CASE DisableRequest
    BY <1>5 DEF DisableRequest
  <1>6. CASE CallbackBegin \/ PublishLoop \/ WorkLoopTest
    BY <1>6 DEF CallbackBegin, PublishLoop, WorkLoopTest, mainVars, dcuVars
  <1>7. ASSUME NEW a \in Actuators, CallbackSend(a) PROVE SeenIsOn'
    BY <1>7 DEF CallbackSend, SetMitCmd, mainVars
  <1>8. ASSUME NEW dcu \in Dcus, WorkLoopPush(dcu) PROVE SeenIsOn'
    <2>1. UNCHANGED <<mainPc, power, confirmed>> /\ PushRecvData(dcu)
      BY <1>8 DEF WorkLoopPush, PushRecvData
    <2>2. \A a \in Managed : recv_buf_'[a] = power[a] \/ recv_buf_'[a] = recv_buf_[a]
      BY <2>1 DEF PushRecvData, Managed
    <2> QED
      BY <2>1, <2>2
  <1>9. ASSUME NEW dcu \in Dcus, WorkLoopPull(dcu) PROVE SeenIsOn'
    <2>1. UNCHANGED <<mainPc, recv_buf_, confirmed>> /\ PullSendData(dcu)
      BY <1>9 DEF WorkLoopPull, PullSendData
    <2>2. SUFFICES ASSUME mainPc \in {"enable", "enablePoll", "cache", "ready", "failed"}
                   PROVE  \A a \in Managed : power[a] = "on" => power'[a] = "on"
      BY <2>1, <2>2 DEF TypeOK
    <2>3. \A a \in Managed : frame[a] # "disable"
      BY <2>2 DEF RequestsInPhase, Managed
    <2> QED
      BY <2>1, <2>3, PullPower
  <1>10. ASSUME NEW a \in Actuators, Fails(a) PROVE SeenIsOn'
    BY <1>10 DEF Fails, Fault, mainVars
  <1>11. CASE UNCHANGED vars
    BY <1>11 DEF vars, dcuVars, mainVars
  <1> QED
    BY <1>1, <1>2, <1>3, <1>4, <1>5, <1>6, <1>7, <1>8, <1>9, <1>10, <1>11
    DEF Next, MainStep, CallbackStep, WorkLoop

\* EnableActuator's requests are all replaced before Start, and those of
\* DisableActuator come after Shutdown's join.
LEMMA RequestsStep ==
  ASSUME TypeInv, CommandInv, RequestsInPhase, [Next]_vars
  PROVE  RequestsInPhase'
  <1> USE DEF RequestsInPhase
  <1> TypeOK /\ PollAt /\ DcuTypeOK BY DEF TypeInv, TypeOK
  <1>1. CASE EnableRequest
    BY <1>1 DEF EnableRequest, Go, RequestState, dcuVars, DcuTypeOK
  <1>2. CASE EnablePoll \/ EnableEnd \/ Start \/ Shutdown \/ Join \/ DisablePoll \/ StopBus
             \/ StopJoin
    BY <1>2 DEF EnablePoll, EnableEnd, AfterEnable, Start, Shutdown, Join, DisablePoll, Go,
                PollAgain, StopBus, StopJoin, dcuVars
  <1>3. CASE Cache
    <2>1. CASE at <= Len(actuator_name_list_)
      BY <1>3, <2>1 DEF Cache, Go, SetMitCmd, DcuTypeOK
    <2>2. CASE ~(at <= Len(actuator_name_list_))
      <3>1. \A a \in Actuators : Replaced(a)
        BY <1>3, <2>2, Lists, ListTypes DEF Cache, TypeOK, CommandInv, Caching
      <3> QED
        BY <1>3, <2>2, <3>1 DEF Cache, dcuVars, Replaced, Commands
    <2> QED
      BY <2>1, <2>2
  <1>4. CASE DisableRequest
    BY <1>4 DEF DisableRequest, RequestState, dcuVars, DcuTypeOK
  <1>5. CASE CallbackBegin \/ PublishLoop \/ WorkLoopTest
    BY <1>5 DEF CallbackBegin, PublishLoop, WorkLoopTest, mainVars, dcuVars
  <1>6. ASSUME NEW a \in Actuators, CallbackSend(a) PROVE RequestsInPhase'
    BY <1>6 DEF CallbackSend, SetMitCmd, mainVars, DcuTypeOK
  <1>7. ASSUME NEW dcu \in Dcus, WorkLoopPush(dcu) \/ WorkLoopPull(dcu) PROVE RequestsInPhase'
    BY <1>7 DEF WorkLoopPush, WorkLoopPull, PushRecvData, PullSendData
  <1>8. ASSUME NEW a \in Actuators, Fails(a) PROVE RequestsInPhase'
    BY <1>8 DEF Fails, Fault, mainVars
  <1>9. CASE UNCHANGED vars
    BY <1>9 DEF vars, dcuVars, mainVars
  <1> QED
    BY <1>1, <1>2, <1>3, <1>4, <1>5, <1>6, <1>7, <1>8, <1>9
    DEF Next, MainStep, CallbackStep, WorkLoop

\* Shutdown's join is the last moment at which a callback can be under way unnoticed.
LEMMA OutlivesStep ==
  ASSUME TypeInv, NoNewCallback, OutlivesLate, [Next]_vars
  PROVE  OutlivesLate'
  <1> USE DEF OutlivesLate
  <1> TypeOK BY DEF TypeInv
  <1>1. CASE EnableRequest \/ EnablePoll \/ EnableEnd \/ Cache \/ Start \/ Shutdown
    <2>1. UNCHANGED late
      BY <1>1 DEF EnableRequest, EnablePoll, EnableEnd, Cache, Start, Shutdown
    <2>2. /\ mainPc \in {"enable", "enablePoll", "cache", "ready", "running"}
          /\ mainPc' \in {"enable", "enablePoll", "cache", "ready", "failed", "running", "join"}
      BY <1>1 DEF EnableRequest, EnablePoll, EnableEnd, AfterEnable, Cache, Go, PollAgain, Start,
                  Shutdown
    <2> QED
      BY <2>1, <2>2
  <1>2. CASE Join
    <2>1. mainPc' = "disable" /\ cbLeft' = cbLeft /\ (cbLeft # {} => late')
      BY <1>2 DEF Join, threadVars
    <2> QED
      BY <2>1
  <1>3. CASE DisableRequest \/ DisablePoll \/ StopBus \/ StopJoin
    <2>1. UNCHANGED <<cbLeft, late>>
      BY <1>3 DEF DisableRequest, DisablePoll, StopBus, StopJoin, threadVars
    <2>2. /\ mainPc \in {"disable", "disablePoll", "stop", "stopJoin"}
          /\ mainPc' \in {"disable", "disablePoll", "stop", "stopJoin", "stopped"}
      BY <1>3 DEF DisableRequest, DisablePoll, Go, PollAgain, StopBus, StopJoin
    <2> QED
      BY <2>1, <2>2
  <1>4. CASE CallbackBegin
    BY <1>4 DEF CallbackBegin, mainVars, NoNewCallback
  <1>5. ASSUME NEW a \in Actuators, CallbackSend(a) PROVE OutlivesLate'
    BY <1>5 DEF CallbackSend, mainVars
  <1>6. CASE PublishLoop \/ WorkLoopTest
    BY <1>6 DEF PublishLoop, WorkLoopTest, mainVars
  <1>7. ASSUME NEW dcu \in Dcus, WorkLoopPush(dcu) \/ WorkLoopPull(dcu) PROVE OutlivesLate'
    BY <1>7 DEF WorkLoopPush, WorkLoopPull
  <1>8. ASSUME NEW a \in Actuators, Fails(a) PROVE OutlivesLate'
    BY <1>8 DEF Fails, mainVars, threadVars
  <1>9. CASE UNCHANGED vars
    BY <1>9 DEF vars, mainVars, threadVars
  <1> QED
    BY <1>1, <1>2, <1>3, <1>4, <1>5, <1>6, <1>7, <1>8, <1>9
    DEF Next, MainStep, CallbackStep, WorkLoop

\* An actuator's request to disable it stays settled but for a new one to itself.
LEMMA SettledFrame ==
  ASSUME DcuTypeOK, NEW a \in Managed, Settled(a)
  PROVE  /\ \A b \in Actuators : b # a /\ RequestState(b, "disable") => Settled(a)'
         /\ \A b \in Actuators : SetMitCmd(b, "motion") => Settled(a)'
         /\ \A dcu \in Dcus : PushRecvData(dcu) \/ PullSendData(dcu) => Settled(a)'
         /\ \A b \in Actuators : Fault(b) => Settled(a)'
         /\ UNCHANGED dcuVars => Settled(a)'
  <1> USE DEF Settled
  <1> a \in Actuators /\ ChannelOf[a] \in Channels BY Wiring DEF Managed
  <1>1. \A b \in Actuators : b # a /\ RequestState(b, "disable") => Settled(a)'
    BY Wiring DEF RequestState, DcuTypeOK
  <1>2. \A b \in Actuators : SetMitCmd(b, "motion") => Settled(a)'
    BY Wiring DEF SetMitCmd, DcuTypeOK
  <1>3. \A dcu \in Dcus : PushRecvData(dcu) => Settled(a)'
    BY DEF PushRecvData
  <1>4. \A dcu \in Dcus : PullSendData(dcu) => Settled(a)'
    BY DEF PullSendData, Obeys, DcuTypeOK
  <1>5. \A b \in Actuators : Fault(b) => Settled(a)'
    BY DEF Fault
  <1>6. UNCHANGED dcuVars => Settled(a)'
    BY DEF dcuVars
  <1> QED
    BY <1>1, <1>2, <1>3, <1>4, <1>5, <1>6

\* A request the polls gave up is settled too: the bus has sent it, or a late
\* callback has replaced it.
LEMMA SettledStep ==
  ASSUME TypeInv, RequestsInPhase, AllSettled, [Next]_vars
  PROVE  AllSettled'
  <1> USE DEF AllSettled
  <1> TypeOK /\ PollAt /\ DcuTypeOK BY DEF TypeInv, TypeOK
  <1>1. CASE EnableRequest \/ EnablePoll \/ EnableEnd \/ Cache \/ Start \/ Shutdown
    BY <1>1 DEF EnableRequest, EnablePoll, EnableEnd, AfterEnable, Cache, Go, PollAgain, Start,
                Shutdown
  <1>2. CASE Join
    <2>1. \A a \in Managed : frame'[a] # "disable"
      BY <1>2 DEF Join, RequestsInPhase, dcuVars, Managed
    <2> QED
      BY <2>1 DEF Settled
  <1>3. CASE DisableRequest
    <2>1. \A a \in Managed : Settled(a)
      BY <1>3 DEF DisableRequest
    <2>2. CASE at <= Len(DisableOrder)
      <3>1. DisableOrder[at] \in Actuators
        BY <2>2, ListTypes DEF PollAt, TypeOK
      <3>2. /\ RequestState(DisableOrder[at], "disable")
            /\ mainPc' = "disablePoll" /\ slept' = 0 /\ at' = at
        BY <1>3, <2>2 DEF DisableRequest
      <3> QED
        BY <2>1, <3>1, <3>2, SettledFrame
    <2>3. CASE ~(at <= Len(DisableOrder))
      <3>1. UNCHANGED dcuVars
        BY <1>3, <2>3 DEF DisableRequest
      <3> QED
        BY <2>1, <3>1, SettledFrame
    <2> QED
      BY <2>2, <2>3
  <1>4. CASE DisablePoll
    <2>1. \A a \in Managed : Settled(a)
      BY <1>4 DEF DisablePoll, Slept
    <2>2. UNCHANGED dcuVars
      BY <1>4 DEF DisablePoll
    <2> QED
      BY <2>1, <2>2, SettledFrame
  <1>5. CASE StopBus \/ StopJoin
    <2>1. UNCHANGED dcuVars /\ mainPc \in {"stop", "stopJoin"}
      BY <1>5 DEF StopBus, StopJoin
    <2> QED
      BY <2>1, SettledFrame
  <1>6. CASE CallbackBegin \/ PublishLoop \/ WorkLoopTest
    <2>1. UNCHANGED dcuVars /\ UNCHANGED <<mainPc, at, slept>>
      BY <1>6 DEF CallbackBegin, PublishLoop, WorkLoopTest, mainVars
    <2> QED
      BY <2>1, SettledFrame
  <1>7. ASSUME NEW b \in Actuators, CallbackSend(b) \/ Fails(b) PROVE AllSettled'
    <2>1. (SetMitCmd(b, "motion") \/ Fault(b)) /\ UNCHANGED <<mainPc, at, slept>>
      BY <1>7 DEF CallbackSend, Fails, mainVars
    <2> QED
      BY <2>1, SettledFrame
  <1>8. ASSUME NEW dcu \in Dcus, WorkLoopPush(dcu) PROVE AllSettled'
    <2>1. PushRecvData(dcu) /\ UNCHANGED <<mainPc, at>> /\ (slept = 0 => slept' = 0)
      BY <1>8 DEF WorkLoopPush
    <2> QED
      BY <2>1, SettledFrame
  <1>9. ASSUME NEW dcu \in Dcus, WorkLoopPull(dcu) PROVE AllSettled'
    <2>1. PullSendData(dcu) /\ UNCHANGED <<mainPc, at>>
      BY <1>9 DEF WorkLoopPull
    <2>2. mainPc = "disablePoll" /\ slept = 0 /\ slept' # 0 => Behind(DisableOrder[at], dcu)
      BY <1>9 DEF WorkLoopPull, AwaitedFrom
    <2>3. SUFFICES ASSUME mainPc = "disablePoll", slept = 0, slept' # 0,
                          NEW a \in Managed, a = DisableOrder[at]
                   PROVE  Settled(a)'
      BY <2>1, <2>3, SettledFrame
    <2> QED
      BY <2>1, <2>2, <2>3, PullPower DEF Settled, PullSendData
  <1>10. CASE UNCHANGED vars
    <2>1. UNCHANGED dcuVars /\ UNCHANGED <<mainPc, at, slept>>
      BY <1>10 DEF vars, mainVars
    <2> QED
      BY <2>1, SettledFrame
  <1> QED
    BY <1>1, <1>2, <1>3, <1>4, <1>5, <1>6, <1>7, <1>8, <1>9, <1>10
    DEF Next, MainStep, CallbackStep, WorkLoop

Everything == TypeInv /\ EnableInv /\ CommandInv /\ ShutdownInv /\ LifeInv

\* The parts of the driver's state that are seen from outside.
LEMMA LifeStutters ==
  ASSUME Phase' = Phase, UNCHANGED <<power, faulty, late>>, Commanded' = Commanded
  PROVE  UNCHANGED Life!lifeVars
  BY DEF Life!lifeVars, Powered

\* Every step of the driver is one of the abstract life cycle, or is not seen
\* (dcu_driver_module.cc:65-133 against ActuatorLife).
LEMMA LifeMaps ==
  ASSUME Everything, Everything', [Next]_vars
  PROVE  [Life!LNext]_(Life!lifeVars)
  <1> TypeOK /\ PollAt /\ DcuTypeOK /\ (TypeOK /\ DcuTypeOK)'
    BY DEF Everything, TypeInv, TypeOK
  <1> USE DEF Life!lifeVars
  <1>1. CASE EnableRequest \/ EnablePoll \/ EnableEnd \/ Cache
    <2>1. Phase = "starting" /\ Phase' = "starting"
      BY <1>1 DEF EnableRequest, EnablePoll, EnableEnd, AfterEnable, Cache, Go, PollAgain, Phase
    <2>2. Commanded = {} /\ Commanded' = {}
      <3>1. mainPc \in {"enable", "enablePoll", "cache", "ready", "failed"}
            /\ mainPc' \in {"enable", "enablePoll", "cache", "ready", "failed"}
        BY <1>1 DEF EnableRequest, EnablePoll, EnableEnd, AfterEnable, Cache, Go, PollAgain
      <3> QED
        BY <3>1 DEF Commanded, Managed, Everything, EnableInv, QuietBeforeStart
    <2>3. UNCHANGED <<power, faulty, late>>
      BY <1>1 DEF EnableRequest, EnablePoll, EnableEnd, Cache, RequestState, SetMitCmd, dcuVars
    <2> QED
      BY <2>1, <2>2, <2>3, LifeStutters
  <1>2. CASE Start
    <2>1. Phase = "starting" /\ Phase' = "serving"
      BY <1>2 DEF Start, Phase
    <2>2. enable_actuator_ => Powered = Managed
      BY <1>2 DEF Start, Powered, Everything, EnableInv, AllSeen, LifeInv, SeenIsOn, TypeOK
    <2>3. UNCHANGED <<Powered, Commanded, faulty, late>>
      BY <1>2 DEF Start, dcuVars, Powered, Commanded
    <2>4. Life!Serve
      BY <2>1, <2>2, <2>3 DEF Life!Serve
    <2> QED
      BY <2>4 DEF Life!LNext
  <1>3. CASE Shutdown \/ StopBus \/ StopJoin \/ CallbackBegin \/ PublishLoop \/ WorkLoopTest
    <2>1. Phase' = Phase
      BY <1>3 DEF Shutdown, StopBus, StopJoin, CallbackBegin, PublishLoop, WorkLoopTest, mainVars,
                  Phase
    <2>2. UNCHANGED <<dcuVars, late>>
      BY <1>3 DEF Shutdown, StopBus, StopJoin, CallbackBegin, PublishLoop, WorkLoopTest
    <2> QED
      BY <2>1, <2>2, LifeStutters DEF dcuVars, Commanded
  <1>4. CASE Join
    <2>1. Phase = "serving" /\ Phase' = "stopping"
      BY <1>4 DEF Join, Phase
    <2>2. UNCHANGED <<Powered, Commanded, faulty>>
      BY <1>4 DEF Join, dcuVars, Powered, Commanded
    <2>3. ~late
      BY <1>4 DEF Join, Everything, LifeInv, OutlivesLate
    <2>4. Life!Leave
      BY <2>1, <2>2, <2>3 DEF Life!Leave, TypeOK
    <2> QED
      BY <2>4 DEF Life!LNext
  <1>5. CASE DisableRequest
    <2>1. UNCHANGED <<power, faulty, late>>
      BY <1>5 DEF DisableRequest, RequestState, dcuVars
    <2>2. CASE at <= Len(DisableOrder)
      <3> DEFINE b == DisableOrder[at]
      <3>1. b \in Actuators
        BY <2>2, ListTypes DEF PollAt, TypeOK
      <3>2. Phase = "stopping" /\ Phase' = "stopping" /\ RequestState(b, "disable")
        BY <1>5, <2>2 DEF DisableRequest, Phase
      <3>3. CASE b \in Passive
        <4>1. frame' = frame
          BY <3>2, <3>3 DEF RequestState
        <4> QED
          BY <2>1, <3>2, <4>1, LifeStutters DEF Commanded
      <3>4. CASE b \notin Passive
        <4>1. Commanded' = Commanded \ {b}
          BY <3>1, <3>2, <3>4 DEF RequestState, Commanded, Managed, DcuTypeOK
        <4>2. Life!Withdraw(b) /\ b \in Managed
          BY <2>1, <3>1, <3>2, <3>4, <4>1 DEF Life!Withdraw, Managed, Powered
        <4> QED
          BY <4>2 DEF Life!LNext
      <3> QED
        BY <3>3, <3>4
    <2>3. CASE ~(at <= Len(DisableOrder))
      <3>1. mainPc' = "stop" /\ Phase = "stopping" /\ Phase' = "stopped" /\ UNCHANGED dcuVars
        BY <1>5, <2>3 DEF DisableRequest, Phase
      <3>2. Life!Halt
        BY <2>1, <3>1 DEF Life!Halt, Everything, ShutdownInv, AllRetired, Undisturbed, Retired,
                          Powered, Commanded, dcuVars, Managed
      <3> QED
        BY <3>2 DEF Life!LNext
    <2> QED
      BY <2>2, <2>3
  <1>6. CASE DisablePoll
    <2>1. UNCHANGED dcuVars /\ UNCHANGED late /\ Phase = "stopping"
      BY <1>6 DEF DisablePoll, Phase
    <2>2. CASE mainPc' = "stop"
      <3>1. Phase' = "stopped"
        BY <2>2 DEF Phase
      <3>2. Life!Halt
        BY <2>1, <2>2, <3>1 DEF Life!Halt, Everything, ShutdownInv, AllRetired, Undisturbed,
                                Retired, Powered, Commanded, dcuVars, Managed
      <3> QED
        BY <3>2 DEF Life!LNext
    <2>3. CASE mainPc' # "stop"
      <3>1. Phase' = "stopping"
        BY <1>6, <2>3 DEF DisablePoll, Go, PollAgain, Phase
      <3> QED
        BY <2>1, <3>1, LifeStutters DEF dcuVars, Commanded
    <2> QED
      BY <2>2, <2>3
  <1>7. ASSUME NEW a \in Actuators, CallbackSend(a) PROVE [Life!LNext]_(Life!lifeVars)
    <2>1. SetMitCmd(a, "motion") /\ Phase' = Phase /\ UNCHANGED <<power, faulty, late>>
      BY <1>7 DEF CallbackSend, SetMitCmd, mainVars, Phase
    <2>2. CASE a \in Passive
      <3>1. Commanded' = Commanded
        BY <2>1, <2>2 DEF SetMitCmd, Commanded, Managed, DcuTypeOK
      <3> QED
        BY <2>1, <3>1, LifeStutters
    <2>3. CASE a \notin Passive
      <3>1. Commanded' = Commanded \cup {a} /\ a \in Managed
        BY <2>1, <2>3 DEF SetMitCmd, Commanded, Managed, DcuTypeOK
      <3>2. Phase = "serving" \/ (Phase \in {"stopping", "stopped"} /\ late)
        <4>1. cbLeft # {}
          BY <1>7 DEF CallbackSend
        <4> QED
          BY <4>1 DEF Phase, TypeOK, Everything, EnableInv, QuietBeforeStart, LifeInv, OutlivesLate
      <3>3. Life!Command(a)
        BY <2>1, <3>1, <3>2 DEF Life!Command, Powered
      <3> QED
        BY <3>1, <3>3 DEF Life!LNext
    <2> QED
      BY <2>2, <2>3
  <1>8. ASSUME NEW dcu \in Dcus, WorkLoopPush(dcu) PROVE [Life!LNext]_(Life!lifeVars)
    <2>1. UNCHANGED <<mainPc, power, frame, faulty, late>>
      BY <1>8 DEF WorkLoopPush, PushRecvData
    <2> QED
      BY <2>1, LifeStutters DEF Phase, Commanded
  <1>9. ASSUME NEW dcu \in Dcus, WorkLoopPull(dcu) PROVE [Life!LNext]_(Life!lifeVars)
    <2>1. UNCHANGED <<mainPc, frame, faulty, late>> /\ PullSendData(dcu)
      BY <1>9 DEF WorkLoopPull, PullSendData
    <2>2. Phase' = Phase /\ Commanded' = Commanded
      BY <2>1 DEF Phase, Commanded
    <2>3. \A a \in Managed : /\ power[a] = "off" /\ power'[a] = "on" => frame[a] = "enable"
                             /\ power[a] = "on" /\ power'[a] = "off" =>
                                  ~Settled(a) /\ frame[a] = "disable"
      BY <2>1, PullPower DEF Settled
    <2>4. \A a \in Managed : power[a] \in {"off", "on"} /\ power'[a] \in {"off", "on"}
      BY DEF DcuTypeOK, Managed
    <2>5. CASE Phase = "starting"
      <3>1. \A a \in Managed : power[a] = "on" => power'[a] = "on"
        BY <2>3, <2>4, <2>5 DEF Phase, TypeOK, Everything, LifeInv, RequestsInPhase, Managed
      <3>2. Powered' = Powered \cup Powered' /\ Powered' \in SUBSET Managed
        BY <3>1 DEF Powered
      <3>3. Life!PowerOn
        BY <2>1, <2>2, <2>5, <3>2 DEF Life!PowerOn
      <3> QED
        BY <3>3 DEF Life!LNext
    <2>6. CASE Phase = "stopping"
      <3> DEFINE off == {a \in Managed : power[a] = "on" /\ power'[a] = "off"}
      <3>1. \A a \in Managed : power'[a] = "on" => power[a] = "on"
        BY <2>3, <2>4, <2>6 DEF Phase, TypeOK, Everything, LifeInv, RequestsInPhase, Managed
      <3>2. Powered' = Powered \ off
        BY <2>4, <3>1 DEF Powered
      <3>3. off \in SUBSET (Managed \ Commanded)
        BY <2>3 DEF Commanded
      <3>4. Life!PowerOff
        BY <2>1, <2>2, <2>6, <3>2, <3>3 DEF Life!PowerOff
      <3> QED
        BY <3>4 DEF Life!LNext
    <2>7. CASE Phase \in {"serving", "stopped"}
      <3>1. \A a \in Managed : power'[a] = power[a]
        <4>1. \A a \in Managed : frame[a] # "enable"
          BY <2>7 DEF Phase, TypeOK, Everything, LifeInv, RequestsInPhase, Managed
        <4>2. \A a \in Managed : frame[a] # "disable" \/ Settled(a)
          BY <2>7 DEF Phase, TypeOK, Everything, LifeInv, RequestsInPhase, AllSettled, Managed
        <4> QED
          BY <2>3, <2>4, <4>1, <4>2
      <3>2. Powered' = Powered
        BY <3>1 DEF Powered
      <3> QED
        BY <2>1, <2>2, <3>2
    <2> QED
      BY <2>5, <2>6, <2>7 DEF Phase, TypeOK
  <1>10. ASSUME NEW a \in Actuators, Fails(a) PROVE [Life!LNext]_(Life!lifeVars)
    <2>1. faulty' # {} /\ UNCHANGED <<mainPc, power, frame, late>>
      BY <1>10 DEF Fails, Fault, mainVars
    <2>2. Life!Disturb
      BY <2>1 DEF Life!Disturb, Phase, Powered, Commanded
    <2> QED
      BY <2>2 DEF Life!LNext
  <1>11. CASE UNCHANGED vars
    BY <1>11, LifeStutters DEF vars, dcuVars, mainVars, Phase, Commanded
  <1> QED
    BY <1>1, <1>2, <1>3, <1>4, <1>5, <1>6, <1>7, <1>8, <1>9, <1>10, <1>11
    DEF Next, MainStep, CallbackStep, WorkLoop

\* What the proofs above keep, together.
LEMMA DriverInvariant == Spec => []Everything
  <1>1. Init => Everything
    BY InitInv, Wiring
    DEF Everything, Init, DcuInit, CommandInv, Caching, AllReplaced, LifeInv, SeenIsOn,
        RequestsInPhase, OutlivesLate, AllSettled
  <1>2. Everything /\ [Next]_vars => Everything'
    BY TypeStep, EnableStep, CommandStep, ShutdownStep, SeenStep, RequestsStep, OutlivesStep,
       SettledStep
    DEF Everything, LifeInv, ShutdownInv
  <1> QED
    BY <1>1, <1>2, PTL DEF Spec

\* The driver implements the abstract life cycle of its actuators: power comes on
\* only before Start, every managed actuator is on when Start is called, none that
\* has a motion command is switched off, and an undisturbed Shutdown leaves all off.
THEOREM LifeImplemented == Spec => ImplementsLife
  <1>1. Init => Life!LInit
    <2> SUFFICES ASSUME Init PROVE Life!LInit
      OBVIOUS
    <2>1. Phase = "starting" /\ Powered = {} /\ Commanded = {}
      BY DEF Init, DcuInit, Phase, Powered, Commanded, Managed
    <2>2. (faulty # {} \/ late) = FALSE
      BY DEF Init, DcuInit
    <2> QED
      BY <2>1, <2>2 DEF Life!LInit
  <1> QED
    BY <1>1, DriverInvariant, LifeMaps, PTL DEF Spec, ImplementsLife, Life!LSpec

\* The abstract life cycle alone keeps the commanded actuators on.
LifeSafe ==
  /\ Phase \in {"starting", "serving", "stopping", "stopped"}
  /\ Commanded \subseteq Managed
  /\ Phase = "starting" => Commanded = {}
  /\ Phase = "serving" /\ enable_actuator_ => Powered = Managed
  /\ Life!CommandedIsOn

\* No step of the life cycle leaves a commanded actuator without power: while it
\* serves all are on, and while it stops only those without a command go off.
LEMMA LifeSafeStep ==
  ASSUME LifeSafe, [Life!LNext]_(Life!lifeVars)
  PROVE  LifeSafe'
  <1> USE DEF LifeSafe, Life!CommandedIsOn
  <1>1. CASE Life!PowerOn
    BY <1>1 DEF Life!PowerOn
  <1>2. CASE Life!Serve
    BY <1>2 DEF Life!Serve
  <1>3. CASE Life!Leave
    BY <1>3 DEF Life!Leave
  <1>4. CASE Life!PowerOff
    BY <1>4 DEF Life!PowerOff
  <1>5. CASE Life!Halt
    BY <1>5 DEF Life!Halt
  <1>6. CASE Life!Disturb
    BY <1>6 DEF Life!Disturb
  <1>7. ASSUME NEW a \in Managed, Life!Command(a) PROVE LifeSafe'
    BY <1>7 DEF Life!Command
  <1>8. ASSUME NEW a \in Managed, Life!Withdraw(a) PROVE LifeSafe'
    BY <1>8 DEF Life!Withdraw
  <1>9. CASE UNCHANGED Life!lifeVars
    BY <1>9 DEF Life!lifeVars
  <1> QED
    BY <1>1, <1>2, <1>3, <1>4, <1>5, <1>6, <1>7, <1>8, <1>9 DEF Life!LNext

\* An actuator whose frame is a motion command is powered, unless something stopped
\* obeying or a callback outlived Shutdown's join.
THEOREM DrivenIsPowered == Spec => []Life!CommandedIsOn
  <1>1. Life!LInit => LifeSafe
    BY DEF Life!LInit, LifeSafe, Life!CommandedIsOn
  <1>2. Life!LSpec => []LifeSafe
    BY <1>1, LifeSafeStep, PTL DEF Life!LSpec
  <1>3. LifeSafe => Life!CommandedIsOn
    BY DEF LifeSafe
  <1> QED
    BY <1>2, <1>3, LifeImplemented, PTL DEF ImplementsLife
=============================================================================
