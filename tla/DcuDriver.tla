------------------------------ MODULE DcuDriver ------------------------------
(***************************************************************************)
(* The DCU driver module (dcu_driver_module.cc) over the DCUs: InitDcu and *)
(* Shutdown in the framework's thread, PublishLoop, JointCmdCallback and   *)
(* the EtherCAT work loop.  The model begins when XyberController::Start   *)
(* has returned in InitDcu.                                                *)
(*                                                                         *)
(* The framework calls Start after a successful Initialize and Shutdown    *)
(* after Start, and delivers one joint command at a time.                  *)
(***************************************************************************)
EXTENDS Dcu, FiniteSets

CONSTANTS
  actuator_name_list_,  \* the order of enabling
  DisableOrder,         \* the order of dcu_map_ and actuator_map_, which is any
  enable_actuator_,
  Polls,                \* COM_TIME_UP_MS / 10
  MaxFaults             \* bound on the faults of a behaviour

ASSUME Lists ==
  /\ actuator_name_list_ \in Seq(Actuators)
  /\ DisableOrder \in Seq(Actuators)
  /\ \A a \in Actuators :
       /\ \E k \in DOMAIN actuator_name_list_ : actuator_name_list_[k] = a
       /\ \E k \in DOMAIN DisableOrder : DisableOrder[k] = a
  /\ enable_actuator_ \in BOOLEAN
  /\ Polls \in Nat \ {0}
  /\ MaxFaults \in Nat

VARIABLES
  is_running_,
  mainPc,       \* where the framework's thread is
  at,           \* the actuator of the list it is at
  polls,        \* the polls it has made for this actuator
  slept,        \* how far its 10 ms sleep has got: see Slept
  ret,          \* InitDcu's ret
  cbLeft,       \* the actuators JointCmdCallback has still to command
  pubPc,        \* where PublishLoop is
  busPc,        \* where WorkLoop is
  busLeft,      \* the DCUs it has still to serve there
  ecatRunning,  \* EthercatManager's is_running_
  confirmed,    \* history: actuators whose enabling InitDcu has seen
  late          \* history: a callback was still running when Shutdown went on to
                \* disable the actuators

mainVars == <<is_running_, mainPc, at, polls, slept, ret>>
threadVars == <<cbLeft, pubPc, busPc, busLeft, ecatRunning>>
vars == <<dcuVars, mainVars, threadVars, confirmed, late>>

TypeOK ==
  /\ DcuTypeOK
  /\ is_running_ \in BOOLEAN
  /\ mainPc \in {"enable", "enablePoll", "cache", "ready", "failed", "running", "join",
                 "disable", "disablePoll", "stop", "stopJoin", "stopped"}
  /\ at \in Nat
  /\ polls \in 0..(Polls - 1)
  /\ slept \in 0..2
  /\ ret \in BOOLEAN
  /\ cbLeft \subseteq Actuators
  /\ pubPc \in {"none", "test", "work", "done"}
  /\ busPc \in {"test", "push", "pull", "done"}
  /\ busLeft \subseteq Dcus
  /\ ecatRunning \in BOOLEAN
  /\ confirmed \subseteq Managed
  /\ late \in BOOLEAN

Init ==
  /\ DcuInit
  /\ is_running_ = FALSE
  /\ mainPc = IF enable_actuator_ THEN "enable" ELSE "ready"
  /\ at = 1
  /\ polls = 0
  /\ slept = 0
  /\ ret = TRUE
  /\ cbLeft = {}
  /\ pubPc = "none"
  /\ busPc = "test"
  /\ busLeft = {}
  /\ ecatRunning = TRUE
  /\ confirmed = {}
  /\ late = FALSE

-----------------------------------------------------------------------------
(* What plausible slips of the code would look like.                       *)

\* ret is assigned by every EnableActuator, so the last one decides.
EnabledOverwritten(ok) == ret' = ok

\* The motionless commands are left out.
AfterEnableNoCache == IF ret THEN "ready" ELSE "failed"

\* One poll too many.
LastPollMissed == polls = Polls

\* PublishLoop runs for ever.
PublishAgainForever == TRUE

-----------------------------------------------------------------------------
(* InitDcu.                                                                *)

\* The list entry the framework's thread is at, and the step to the next.
Go(pc) ==
  /\ mainPc' = pc
  /\ at' = at + 1
  /\ polls' = 0
  /\ slept' = 0

\* The sleep between two polls is ten cycles of the work loop: the buffer of
\* the actuator's DCU has been sent (1) and the answer handed in (2).
Slept == slept = 2

\* COM_TIME_UP_MS is over.
LastPoll == polls + 1 = Polls

\* The polls of EnableActuator and DisableActuator go on.
PollAgain ==
  /\ polls' = polls + 1
  /\ slept' = 0
  /\ UNCHANGED <<mainPc, at>>

\* InitDcu remembers that one enabling failed.
Enabled(ok) == ret' = (ret /\ ok)

EnableRequest ==
  /\ mainPc = "enable"
  /\ at <= Len(actuator_name_list_)
  /\ LET a == actuator_name_list_[at]
     IN  IF a \in Passive
         THEN Go("enable") /\ Enabled(TRUE) /\ UNCHANGED dcuVars
         ELSE /\ RequestState(a, "enable")
              /\ mainPc' = "enablePoll"
              /\ polls' = 0 /\ slept' = 0
              /\ UNCHANGED <<at, ret>>
  /\ UNCHANGED <<is_running_, threadVars, confirmed, late>>

EnablePoll ==
  /\ mainPc = "enablePoll"
  /\ Slept
  /\ LET a == actuator_name_list_[at]
     IN  \/ /\ GetPowerState(a) = "on"
            /\ Go("enable") /\ Enabled(TRUE)
            /\ confirmed' = confirmed \cup {a}
         \/ /\ GetPowerState(a) # "on" /\ LastPoll
            /\ Go("enable") /\ Enabled(FALSE)
            /\ UNCHANGED confirmed
         \/ /\ GetPowerState(a) # "on" /\ ~LastPoll
            /\ PollAgain
            /\ UNCHANGED <<ret, confirmed>>
  /\ UNCHANGED <<dcuVars, is_running_, threadVars, late>>

AfterEnable == IF ret THEN "cache" ELSE "failed"

EnableEnd ==
  /\ mainPc = "enable"
  /\ at > Len(actuator_name_list_)
  /\ mainPc' = AfterEnable
  /\ at' = 1
  /\ UNCHANGED <<dcuVars, is_running_, polls, slept, ret, threadVars, confirmed, late>>

\* The motionless command to every actuator.
Cache ==
  /\ mainPc = "cache"
  /\ IF at <= Len(actuator_name_list_)
     THEN SetMitCmd(actuator_name_list_[at], "still") /\ Go("cache")
     ELSE /\ mainPc' = "ready"
          /\ UNCHANGED <<dcuVars, at, polls, slept>>
  /\ UNCHANGED <<is_running_, ret, threadVars, confirmed, late>>

-----------------------------------------------------------------------------
(* Start and Shutdown.                                                     *)

Start ==
  /\ mainPc = "ready"
  /\ mainPc' = "running"
  /\ is_running_' = TRUE
  /\ pubPc' = "test"
  /\ UNCHANGED <<dcuVars, at, polls, slept, ret, cbLeft, busPc, busLeft, ecatRunning,
                 confirmed, late>>

Shutdown ==
  /\ mainPc = "running"
  /\ is_running_' = FALSE
  /\ mainPc' = "join"
  /\ UNCHANGED <<dcuVars, at, polls, slept, ret, threadVars, confirmed, late>>

\* publish_thread_ is joined; nobody waits for a callback.
Join ==
  /\ mainPc = "join"
  /\ pubPc = "done"
  /\ mainPc' = "disable"
  /\ at' = 1
  /\ late' = (cbLeft # {})
  /\ UNCHANGED <<dcuVars, is_running_, polls, slept, ret, threadVars, confirmed>>

\* DisableActuator has its answer.
Disabled(a) == GetPowerState(a) = "off"

DisableRequest ==
  /\ mainPc = "disable"
  /\ IF at <= Len(DisableOrder)
     THEN /\ RequestState(DisableOrder[at], "disable")
          /\ mainPc' = "disablePoll"
          /\ polls' = 0 /\ slept' = 0
     ELSE /\ mainPc' = "stop"
          /\ UNCHANGED <<dcuVars, polls, slept>>
  /\ UNCHANGED <<at, is_running_, ret, threadVars, confirmed, late>>

\* A slip: DisableActuator does not wait for the answer.
DisablePollUnseen ==
  /\ mainPc = "disablePoll"
  /\ Go("disable")
  /\ UNCHANGED <<dcuVars, is_running_, ret, threadVars, confirmed, late>>

\* A DisableActuator that fails ends DisableAllActuator of the Dcu and of the
\* XyberController.
DisablePoll ==
  /\ mainPc = "disablePoll"
  /\ Slept
  /\ \/ /\ Disabled(DisableOrder[at])
        /\ Go("disable")
     \/ /\ ~Disabled(DisableOrder[at]) /\ LastPoll
        /\ Go("stop")
     \/ /\ ~Disabled(DisableOrder[at]) /\ ~LastPoll
        /\ PollAgain
  /\ UNCHANGED <<dcuVars, is_running_, ret, threadVars, confirmed, late>>

\* XyberController::Stop.
StopBus ==
  /\ mainPc = "stop"
  /\ ecatRunning' = FALSE
  /\ mainPc' = "stopJoin"
  /\ UNCHANGED <<dcuVars, is_running_, at, polls, slept, ret, cbLeft, pubPc, busPc, busLeft,
                 confirmed, late>>

StopJoin ==
  /\ mainPc = "stopJoin"
  /\ busPc = "done"
  /\ mainPc' = "stopped"
  /\ UNCHANGED <<dcuVars, is_running_, at, polls, slept, ret, threadVars, confirmed, late>>

-----------------------------------------------------------------------------
(* JointCmdCallback, PublishLoop and WorkLoop.                             *)

\* is_running_ is read once; then every actuator gets its command, in the
\* order of an unordered map.
CallbackBegin ==
  /\ cbLeft = {}
  /\ is_running_
  /\ cbLeft' = Actuators
  /\ UNCHANGED <<dcuVars, mainVars, pubPc, busPc, busLeft, ecatRunning, confirmed, late>>

CallbackSend(a) ==
  /\ a \in cbLeft
  /\ SetMitCmd(a, "motion")
  /\ cbLeft' = cbLeft \ {a}
  /\ UNCHANGED <<mainVars, pubPc, busPc, busLeft, ecatRunning, confirmed, late>>

\* The condition of PublishLoop.
PublishAgain == is_running_

PublishLoop ==
  /\ \/ pubPc = "test" /\ pubPc' = (IF PublishAgain THEN "work" ELSE "done")
     \/ pubPc = "work" /\ pubPc' = "test"
  /\ UNCHANGED <<dcuVars, mainVars, cbLeft, busPc, busLeft, ecatRunning, confirmed, late>>

WorkLoopTest ==
  /\ busPc = "test"
  /\ \/ ecatRunning /\ busPc' = "push" /\ busLeft' = Dcus
     \/ ~ecatRunning /\ busPc' = "done" /\ UNCHANGED busLeft
  /\ UNCHANGED <<dcuVars, mainVars, cbLeft, pubPc, ecatRunning, confirmed, late>>

\* The loop over nodes_map_: the next DCU, and what follows the last one.
Serve(dcu, after, left) ==
  IF busLeft = {dcu}
  THEN busPc' = after /\ busLeft' = left
  ELSE UNCHANGED busPc /\ busLeft' = busLeft \ {dcu}

\* The DCU whose answer the framework's thread is sleeping for.
AwaitedFrom(dcu) ==
  \/ mainPc = "enablePoll" /\ Behind(actuator_name_list_[at], dcu)
  \/ mainPc = "disablePoll" /\ Behind(DisableOrder[at], dcu)

WorkLoopPush(dcu) ==
  /\ busPc = "push" /\ dcu \in busLeft
  /\ PushRecvData(dcu)
  /\ Serve(dcu, "pull", Dcus)
  /\ slept' = IF AwaitedFrom(dcu) /\ slept = 1 THEN 2 ELSE slept
  /\ UNCHANGED <<is_running_, mainPc, at, polls, ret, cbLeft, pubPc, ecatRunning, confirmed, late>>

WorkLoopPull(dcu) ==
  /\ busPc = "pull" /\ dcu \in busLeft
  /\ PullSendData(dcu)
  /\ Serve(dcu, "test", {})
  /\ slept' = IF AwaitedFrom(dcu) /\ slept = 0 THEN 1 ELSE slept
  /\ UNCHANGED <<is_running_, mainPc, at, polls, ret, cbLeft, pubPc, ecatRunning, confirmed, late>>

\* An actuator stops obeying, at any time.
Fails(a) ==
  /\ Cardinality(faulty) < MaxFaults
  /\ Fault(a)
  /\ UNCHANGED <<mainVars, threadVars, confirmed, late>>

-----------------------------------------------------------------------------
(* The specification.  Start and Shutdown are the framework's decisions,   *)
(* commands and faults come when they come; the threads keep running.      *)

MainStep ==
  \/ EnableRequest \/ EnablePoll \/ EnableEnd \/ Cache
  \/ Join \/ DisableRequest \/ DisablePoll \/ StopBus \/ StopJoin

CallbackStep == \E a \in Actuators : CallbackSend(a)

WorkLoop == WorkLoopTest \/ \E dcu \in Dcus : WorkLoopPush(dcu) \/ WorkLoopPull(dcu)

Next ==
  \/ MainStep \/ Start \/ Shutdown
  \/ CallbackBegin \/ CallbackStep
  \/ PublishLoop
  \/ WorkLoop
  \/ \E a \in Actuators : Fails(a)

Spec == Init /\ [][Next]_vars

FairSpec ==
  Spec /\ WF_vars(MainStep) /\ WF_vars(CallbackStep) /\ WF_vars(PublishLoop) /\ WF_vars(WorkLoop)

-----------------------------------------------------------------------------
(* Properties.                                                             *)

\* No actuator is ever given a motion command before InitDcu has seen every
\* managed actuator enabled, whatever fails on the way.
MotionAfterEnable ==
  enable_actuator_ /\ (\E a \in Actuators : frame[a] = "motion") => Managed \subseteq confirmed

\* While joint commands are accepted, a channel that is broadcast carries
\* commands only: no frame left from EnableActuator is read as a command.
BroadcastCarriesCommands ==
  enable_actuator_ /\ mainPc \in {"running", "join"} =>
    \A a \in Actuators : ctrl[ChannelOf[a]] = Everyone => frame[a] \in Commands

\* After Shutdown every managed actuator is off, when all obey and no callback
\* was caught between its test of is_running_ and its last command.
ShutdownDisables ==
  mainPc = "stopped" /\ faulty = {} /\ ~late => \A a \in Managed : power[a] = "off"

\* Shutdown returns: PublishLoop sees is_running_, the polls are bounded and the
\* work loop, which the polls need, is stopped last.
ShutdownEnds == (mainPc = "join") ~> (mainPc = "stopped")

\* TC-DCU-08: after Shutdown the actuators are disabled; a callback that is
\* under way loses them.  Checked without faults.
ShutdownPowersOff ==
  mainPc = "stopped" => \A a \in Managed : power[a] = "off"

\* What the driver is to the robot: its actuators' power and the commands they
\* have.  The driver has started once Start is called and is stopping from the end
\* of Shutdown's join to the end of DisableAllActuator.
Phase ==
  CASE mainPc \in {"enable", "enablePoll", "cache", "ready", "failed"} -> "starting"
    [] mainPc \in {"running", "join"} -> "serving"
    [] mainPc \in {"disable", "disablePoll"} -> "stopping"
    [] mainPc \in {"stop", "stopJoin", "stopped"} -> "stopped"

Powered   == {a \in Managed : power[a] = "on"}
Commanded == {a \in Managed : frame[a] = "motion"}

Life == INSTANCE ActuatorLife WITH
  Drives <- Managed, PowersUp <- enable_actuator_, phase <- Phase,
  powered <- Powered, commanded <- Commanded, disturbed <- faulty # {} \/ late

\* The driver keeps the promises of ActuatorLife: no actuator loses its power
\* while it serves or gains it later, and none that is driven is switched off.
ImplementsLife == Life!LSpec
=============================================================================
