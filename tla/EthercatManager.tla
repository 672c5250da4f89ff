--------------------------- MODULE EthercatManager ---------------------------
(***************************************************************************)
(* EthercatManager: Start with InitMaster, which takes the slaves to OP    *)
(* state, Stop, and the two threads between them.  WorkLoop measures the   *)
(* work counter, ErrorHandler compares it and brings slaves back.          *)
(*                                                                         *)
(* The slaves and the SOEM library are external.  A slave carries out a    *)
(* state request some time later; it can drop out, reboot, or fall back to *)
(* SAFE_OP with an error, and a frame can be lost.  Every slave is assumed *)
(* to have inputs and outputs, as the formula for expected_wkc_ does.  The *)
(* data WorkLoop exchanges with the nodes is modelled in DcuDriver.        *)
(***************************************************************************)
EXTENDS Integers, FiniteSets

CONSTANTS
  Nodes,          \* the ids of nodes_map_
  MaxSlaves,      \* bound on the slaves of the bus
  WKC_ERROR_CNT,
  MaxFaults       \* bound on the faults of a behaviour

ASSUME BusAssumption ==
  /\ MaxSlaves \in Nat
  /\ Nodes # {} /\ Nodes \subseteq 1..MaxSlaves
  /\ WKC_ERROR_CNT \in Nat \ {0}
  /\ MaxFaults \in Nat

VARIABLES
  mainPc,            \* where the thread that calls Start and Stop is
  tries,             \* calls of ec_config_init that found nobody
  left,              \* the nodes the current loop of InitMaster has still to check
  op_state,
  is_running_,
  workPc, errPc,     \* where the two threads are
  todo,              \* the nodes ErrorHandler has still to look at
  current_wkc_, expected_wkc_, wkc_error_, wkc_error_count_,
  docheckstate,      \* ec_group[0].docheckstate
  ec_slavecount,
  state, islost,     \* ec_slave[id].state and .islost, the master's view
  node_state_,       \* the state the nodes have been told
  al, request,       \* a slave's own state, and the request it has not met yet
  faults

mainVars == <<mainPc, tries, left, op_state, is_running_, ec_slavecount, expected_wkc_>>
errVars  == <<errPc, todo, wkc_error_, wkc_error_count_, docheckstate>>
busVars  == <<al, request, faults>>
vars == <<mainVars, errVars, busVars, workPc, current_wkc_, state, islost, node_state_>>

AlStates == {"INIT", "PRE_OP", "SAFE_OP", "SAFE_OP_ERROR", "OP"}

TypeOK ==
  /\ mainPc \in {"socket", "config", "preOp", "map", "safeOp", "op", "running",
                 "join", "stopped", "failed"}
  /\ tries \in 0..3
  /\ left \subseteq Nodes
  /\ op_state \in BOOLEAN
  /\ is_running_ \in BOOLEAN
  /\ workPc \in {"none", "loop", "done"}
  /\ errPc \in {"none", "loop", "resume", "check", "node", "turn", "done"}
  /\ todo \subseteq Nodes
  /\ current_wkc_ \in Int
  /\ expected_wkc_ \in Int
  /\ wkc_error_ \in BOOLEAN
  /\ wkc_error_count_ \in 0..WKC_ERROR_CNT
  /\ docheckstate \in BOOLEAN
  /\ ec_slavecount \in 0..MaxSlaves
  /\ state \in [Nodes -> AlStates \cup {"NONE"}]
  /\ islost \in [Nodes -> BOOLEAN]
  /\ node_state_ \in [Nodes -> AlStates \cup {"NONE"}]
  /\ al \in [1..MaxSlaves -> AlStates \cup {"gone", "fresh"}]
  /\ request \in [1..MaxSlaves -> AlStates \cup {"none", "ACK"}]
  /\ faults \in 0..MaxFaults

Init ==
  /\ mainPc = "socket" /\ tries = 0 /\ left = {} /\ op_state = TRUE
  /\ is_running_ = FALSE /\ ec_slavecount = 0 /\ expected_wkc_ = 0
  /\ workPc = "none" /\ current_wkc_ = 0
  /\ errPc = "none" /\ todo = {} /\ docheckstate = FALSE
  /\ wkc_error_ = FALSE /\ wkc_error_count_ = 0
  /\ state = [n \in Nodes |-> "NONE"]
  /\ islost = [n \in Nodes |-> FALSE]
  /\ node_state_ = [n \in Nodes |-> "NONE"]
  /\ al = [s \in 1..MaxSlaves |-> "INIT"]
  /\ request = [s \in 1..MaxSlaves |-> "none"]
  /\ faults = 0

-----------------------------------------------------------------------------
(* The bus.                                                                *)

Slaves == 1..ec_slavecount

\* A slave that has rebooted has lost its station address and does not answer.
Answers(s) == al[s] \notin {"gone", "fresh"}
Read(s) == IF Answers(s) THEN al[s] ELSE "NONE"

\* ec_writestate: a slave that does not answer does not hear it either.
Requested(set, r) ==
  [s \in 1..MaxSlaves |-> IF s \in set /\ Answers(s) THEN r ELSE request[s]]

\* What a slave makes of a request.
Met(s) ==
  CASE request[s] = "INIT" -> "INIT"
    [] request[s] = "PRE_OP" /\ al[s] = "INIT" -> "PRE_OP"
    [] request[s] = "SAFE_OP" /\ al[s] = "PRE_OP" -> "SAFE_OP"
    [] request[s] = "ACK" /\ al[s] = "SAFE_OP_ERROR" -> "SAFE_OP"
    [] request[s] = "OP" /\ al[s] = "SAFE_OP" -> "OP"
    [] OTHER -> al[s]

SlaveObeys(s) ==
  /\ request[s] # "none"
  /\ al' = [al EXCEPT ![s] = Met(s)]
  /\ request' = [request EXCEPT ![s] = "none"]
  /\ UNCHANGED <<mainVars, errVars, faults, workPc, current_wkc_, state, islost, node_state_>>

\* A slave disappears, reboots, or its watchdog takes it out of OP.
SlaveFails(s) ==
  /\ faults < MaxFaults
  /\ s \in Slaves /\ Answers(s)
  /\ \E a \in {"gone", "fresh"} \cup (IF al[s] = "OP" THEN {"SAFE_OP_ERROR"} ELSE {}) :
       al' = [al EXCEPT ![s] = a]
  /\ request' = [request EXCEPT ![s] = "none"]
  /\ faults' = faults + 1
  /\ UNCHANGED <<mainVars, errVars, workPc, current_wkc_, state, islost, node_state_>>

\* It comes back, with or without having lost its power.
SlaveReturns(s) ==
  /\ al[s] = "gone"
  /\ \E a \in {"fresh", "SAFE_OP_ERROR"} : al' = [al EXCEPT ![s] = a]
  /\ UNCHANGED <<mainVars, errVars, request, faults, workPc, current_wkc_, state, islost,
                 node_state_>>

\* The work counter of a frame that arrives: two for outputs, one for inputs.
Wkc == 2 * Cardinality({s \in Slaves : al[s] = "OP"})
       + Cardinality({s \in Slaves : al[s] \in {"SAFE_OP", "SAFE_OP_ERROR", "OP"}})

-----------------------------------------------------------------------------
(* What plausible slips of the code would look like.                       *)

\* A node is only suspicious when it has vanished.
SuspectOnlyLost(k) == k = "NONE"

\* The work counter is not compared.
BusSuspectFlagOnly == docheckstate

\* Stop joins the work loop only.
ThreadsDoneWorkOnly == workPc = "done"

\* The loop of ErrorHandler goes on while there is an error.
ErrAgainWhileError == is_running_ \/ wkc_error_

\* The count is tested before it is incremented.
LinkLostLate == wkc_error_count_ >= WKC_ERROR_CNT

-----------------------------------------------------------------------------
(* Start.                                                                  *)

UNCHANGEDthreads == UNCHANGED <<errVars, workPc, current_wkc_>>

OpenSocket ==
  /\ mainPc = "socket"
  /\ \E ok \in BOOLEAN : mainPc' = IF ok THEN "config" ELSE "failed"
  /\ UNCHANGEDthreads
  /\ UNCHANGED <<tries, left, op_state, is_running_, ec_slavecount, expected_wkc_, busVars,
                 state, islost, node_state_>>

\* ec_config_init, up to three times, and the check that every registered node
\* has been found.
ConfigInit ==
  /\ mainPc = "config"
  /\ \E n \in 0..MaxSlaves :
       /\ ec_slavecount' = n
       /\ IF n = 0
          THEN /\ tries' = tries + 1
               /\ mainPc' = IF tries + 1 < 3 THEN "config" ELSE "failed"
               /\ UNCHANGED <<left, request>>
          ELSE /\ UNCHANGED tries
               /\ request' = Requested(1..n, "PRE_OP")
               /\ left' = Nodes
               /\ mainPc' = IF \A id \in Nodes : id <= n THEN "preOp" ELSE "failed"
  /\ UNCHANGEDthreads
  /\ UNCHANGED <<op_state, is_running_, expected_wkc_, al, faults, state, islost, node_state_>>

\* UpdateSlaveState for all nodes.
UpdateAll(st) == node_state_' = [n \in Nodes |-> st]

\* ec_statecheck of one node against the state it should have reached: it sees
\* it, or gives up.
StateCheck(id, pc, st) ==
  /\ mainPc = pc /\ id \in left
  /\ state' = [state EXCEPT ![id] = Read(id)]
  /\ left' = left \ {id}
  /\ mainPc' = IF Read(id) = st THEN pc ELSE "failed"
  /\ UNCHANGEDthreads
  /\ UNCHANGED <<tries, op_state, is_running_, ec_slavecount, expected_wkc_, busVars, islost,
                 node_state_>>

CheckPreOp(id)  == StateCheck(id, "preOp", "PRE_OP")
CheckSafeOp(id) == StateCheck(id, "safeOp", "SAFE_OP")

\* ec_config_map takes all slaves to SAFE_OP; its result, or a node's Init, may
\* end the start.  Unregistered slaves stay in SAFE_OP and count one.
MapSlaves ==
  /\ mainPc = "preOp" /\ left = {}
  /\ UpdateAll("PRE_OP")
  /\ request' = Requested(Slaves, "SAFE_OP")
  /\ \/ /\ mainPc' = "safeOp" /\ left' = Nodes
        /\ expected_wkc_' = 3 * ec_slavecount - 2 * Cardinality(Slaves \ Nodes)
     \/ mainPc' = "failed" /\ UNCHANGED <<left, expected_wkc_>>
  /\ UNCHANGEDthreads
  /\ UNCHANGED <<tries, op_state, is_running_, ec_slavecount, al, faults, state, islost>>

RequestOp ==
  /\ mainPc = "safeOp" /\ left = {}
  /\ UpdateAll("SAFE_OP")
  /\ state' = [n \in Nodes |-> "OP"]
  /\ request' = Requested(Nodes, "OP")
  /\ mainPc' = "op" /\ left' = Nodes /\ op_state' = TRUE
  /\ UNCHANGEDthreads
  /\ UNCHANGED <<tries, is_running_, ec_slavecount, expected_wkc_, al, faults, islost>>

CheckOp(id) ==
  /\ mainPc = "op" /\ id \in left
  /\ state' = [state EXCEPT ![id] = Read(id)]
  /\ op_state' = (op_state /\ Read(id) = "OP")
  /\ left' = left \ {id}
  /\ UNCHANGEDthreads
  /\ UNCHANGED <<mainPc, tries, is_running_, ec_slavecount, expected_wkc_, busVars, islost,
                 node_state_>>

\* The loop is left after one pass: is_running_ is still false.  A start that
\* fails leaves the slaves as they are, and Stop will not touch them.
StartEnd ==
  /\ mainPc = "op" /\ left = {}
  /\ IF op_state
     THEN /\ UpdateAll("OP")
          /\ mainPc' = "running" /\ is_running_' = TRUE
          /\ workPc' = "loop" /\ errPc' = "loop"
     ELSE /\ mainPc' = "failed"
          /\ UNCHANGED <<node_state_, is_running_, workPc, errPc>>
  /\ UNCHANGED <<tries, left, op_state, ec_slavecount, expected_wkc_, todo, wkc_error_,
                 wkc_error_count_, docheckstate, busVars, current_wkc_, state, islost>>

-----------------------------------------------------------------------------
(* Stop.                                                                   *)

Stop ==
  /\ mainPc = "running"
  /\ is_running_' = FALSE
  /\ mainPc' = "join"
  /\ UNCHANGEDthreads
  /\ UNCHANGED <<tries, left, op_state, ec_slavecount, expected_wkc_, busVars, state, islost,
                 node_state_>>

ThreadsDone == workPc = "done" /\ errPc = "done"

StopJoin ==
  /\ mainPc = "join"
  /\ ThreadsDone
  /\ request' = Requested(Slaves, "INIT")
  /\ mainPc' = "stopped"
  /\ UNCHANGEDthreads
  /\ UNCHANGED <<tries, left, op_state, is_running_, ec_slavecount, expected_wkc_, al, faults,
                 state, islost, node_state_>>

-----------------------------------------------------------------------------
(* WorkLoop: one cycle, whose frame arrives or is lost.                    *)

WorkLoop ==
  /\ workPc = "loop"
  /\ \/ /\ is_running_ /\ current_wkc_' = Wkc
        /\ UNCHANGED <<workPc, faults>>
     \/ /\ is_running_ /\ faults < MaxFaults
        /\ current_wkc_' = -1 /\ faults' = faults + 1
        /\ UNCHANGED workPc
     \/ /\ ~is_running_ /\ workPc' = "done"
        /\ UNCHANGED <<current_wkc_, faults>>
  /\ UNCHANGED <<mainVars, errVars, al, request, state, islost, node_state_>>

-----------------------------------------------------------------------------
(* ErrorHandler.                                                           *)

ErrAgain == is_running_

ErrLoop ==
  /\ errPc = "loop"
  /\ errPc' = IF ErrAgain THEN "resume" ELSE "done"
  /\ UNCHANGED <<mainVars, busVars, todo, wkc_error_, wkc_error_count_, docheckstate, workPc,
                 current_wkc_, state, islost, node_state_>>

\* While the link is reported lost, nothing but the work counter is looked at.
ErrResume ==
  /\ errPc = "resume"
  /\ IF wkc_error_ /\ current_wkc_ # expected_wkc_
     THEN errPc' = "loop" /\ UNCHANGED <<wkc_error_, wkc_error_count_>>
     ELSE /\ errPc' = "check"
          /\ wkc_error_' = FALSE
          /\ wkc_error_count_' = IF wkc_error_ THEN 0 ELSE wkc_error_count_
  /\ UNCHANGED <<mainVars, busVars, todo, docheckstate, workPc, current_wkc_, state, islost,
                 node_state_>>

BusSuspect == current_wkc_ < expected_wkc_ \/ docheckstate

\* ec_readstate and the loop over the nodes, or nothing to do.
ErrCheck ==
  /\ errPc = "check"
  /\ IF BusSuspect
     THEN /\ docheckstate' = FALSE
          /\ state' = [n \in Nodes |-> Read(n)]
          /\ errPc' = "node" /\ todo' = Nodes
          /\ UNCHANGED wkc_error_count_
     ELSE /\ wkc_error_count_' = 0
          /\ errPc' = "loop"
          /\ UNCHANGED <<docheckstate, state, todo>>
  /\ UNCHANGED <<mainVars, busVars, wkc_error_, workPc, current_wkc_, islost, node_state_>>

\* The end of a node's turn: its state is st and its slave is in state a.  A lost
\* slave is looked for (ec_recover_slave gives a rebooted one its address back),
\* and the node is told.
Settle(id, st, lost, a) ==
  LET search == lost /\ st = "NONE"
  IN  /\ state' = [state EXCEPT ![id] = st]
      /\ node_state_' = [node_state_ EXCEPT ![id] = st]
      /\ islost' = [islost EXCEPT ![id] = search /\ a = "gone"]
      /\ al' = [al EXCEPT ![id] = IF search /\ a = "fresh" THEN "INIT" ELSE a]

\* ec_reconfig_slave gets as far as it can within its short timeout.
Reconfig(id) ==
  \/ /\ ~Answers(id)
     /\ Settle(id, "NONE", islost[id], al[id])
     /\ UNCHANGED request
  \/ /\ Answers(id)
     /\ \E st \in {"INIT", "PRE_OP", "SAFE_OP"} : Settle(id, st, FALSE, st)
     /\ request' = [request EXCEPT ![id] = "none"]

\* The node needs another look.
Suspect(k) == k # "OP"

HandleNode(id) ==
  LET k == state[id]
  IN  /\ docheckstate' = (docheckstate \/ Suspect(k))
      /\ \/ /\ k = "OP"
            /\ Settle(id, k, islost[id], al[id]) /\ UNCHANGED request
         \/ /\ k = "SAFE_OP_ERROR"
            /\ Settle(id, k, islost[id], al[id]) /\ request' = Requested({id}, "ACK")
         \/ /\ k = "SAFE_OP"
            /\ Settle(id, "OP", islost[id], al[id]) /\ request' = Requested({id}, "OP")
         \/ /\ k \in {"INIT", "PRE_OP"}
            /\ Reconfig(id)
         \/ /\ k = "NONE" /\ ~islost[id]
            /\ Settle(id, Read(id), Read(id) = "NONE", al[id]) /\ UNCHANGED request
         \/ /\ k = "NONE" /\ islost[id]
            /\ Settle(id, k, TRUE, al[id]) /\ UNCHANGED request

\* The loop over the nodes breaks when the manager is being stopped; Stop can
\* also begin after the test.
ErrNext ==
  /\ errPc = "node" /\ todo # {}
  /\ IF is_running_ THEN errPc' = "turn" /\ UNCHANGED todo
                    ELSE todo' = {} /\ UNCHANGED errPc
  /\ UNCHANGED <<mainVars, busVars, wkc_error_, wkc_error_count_, docheckstate, workPc,
                 current_wkc_, state, islost, node_state_>>

ErrNode(id) ==
  /\ errPc = "turn" /\ id \in todo
  /\ HandleNode(id)
  /\ todo' = todo \ {id} /\ errPc' = "node"
  /\ UNCHANGED <<mainVars, wkc_error_, wkc_error_count_, faults, workPc, current_wkc_>>

LinkLost == wkc_error_count_ + 1 >= WKC_ERROR_CNT

ErrCount ==
  /\ errPc = "node" /\ todo = {}
  /\ wkc_error_count_' = wkc_error_count_ + 1
  /\ wkc_error_' = LinkLost
  /\ errPc' = "loop"
  /\ UNCHANGED <<mainVars, busVars, todo, docheckstate, workPc, current_wkc_, state, islost,
                 node_state_>>

-----------------------------------------------------------------------------

StartStep ==
  \/ OpenSocket \/ ConfigInit \/ MapSlaves \/ RequestOp \/ StartEnd
  \/ \E id \in Nodes : CheckPreOp(id) \/ CheckSafeOp(id) \/ CheckOp(id)

ErrorHandler ==
  ErrLoop \/ ErrResume \/ ErrCheck \/ ErrNext \/ ErrCount \/ \E id \in Nodes : ErrNode(id)

Bus == \E s \in 1..MaxSlaves : SlaveObeys(s) \/ SlaveFails(s) \/ SlaveReturns(s)

Next == StartStep \/ Stop \/ StopJoin \/ WorkLoop \/ ErrorHandler \/ Bus

Spec == Init /\ [][Next]_vars

\* The threads run, slaves obey, and one that has dropped out comes back.
FairSpec ==
  /\ Spec
  /\ WF_vars(StartStep) /\ WF_vars(StopJoin) /\ WF_vars(WorkLoop) /\ WF_vars(ErrorHandler)
  /\ \A s \in 1..MaxSlaves : WF_vars(SlaveObeys(s)) /\ WF_vars(SlaveReturns(s))

-----------------------------------------------------------------------------
(* Properties.                                                             *)

\* When ErrorHandler has ended a pass without asking for another one ("all
\* slaves resumed OPERATIONAL"), every node was last seen in OP state, none is
\* taken for lost, and every node has been told so, whatever happened to the
\* slaves in the passes before (ethercat_manager.cpp:389-444).
StandsDown ==
  (is_running_ /\ errPc \notin {"node", "turn"} /\ ~docheckstate) =>
     \A id \in Nodes : state[id] = "OP" /\ node_state_[id] = "OP" /\ ~islost[id]

\* Stop leaves no slave in an operating state and no request that would take one
\* there, although ErrorHandler may be in the middle of a pass that requests OP
\* when Stop begins (ethercat_manager.cpp:69-80, 398-402).
StoppedInInit ==
  mainPc = "stopped" =>
     \A s \in Slaves : \/ request[s] = "INIT"
                       \/ request[s] = "none" /\ al[s] \notin {"PRE_OP", "SAFE_OP", "OP"}

\* A node out of OP state does not go unnoticed: it is brought back, or the link
\* is reported as lost, or the manager is stopped.
LinkRestoredOrReported ==
  []<>((\A id \in Nodes : al[id] = "OP") \/ wkc_error_ \/ ~is_running_)

\* Stop returns, whatever ErrorHandler and the slaves are doing when it begins.
StopEnds == (mainPc = "join") ~> (mainPc = "stopped")

\* doc/artifacts/control_chain_init_analysis.md:213 describes the error handler as
\* recovering SAFE_OP+ERROR and reconfiguring lost slaves: with finitely many
\* faults and slaves that return, all nodes end up in OP state.
ComesBack == (mainPc = "running") ~> (is_running_ => \A id \in Nodes : al[id] = "OP")
=============================================================================
