------------------------ MODULE EthercatManagerProofs ------------------------
(***************************************************************************)
(* What holds of the bus for every set of nodes, number of slaves, length  *)
(* of the error count and number of faults.                                *)
(***************************************************************************)
EXTENDS EthercatManager, FiniteSetTheorems, TLAPS

\* Start has not returned, and whether it has failed.
Starting == mainPc \in {"socket", "config", "preOp", "map", "safeOp", "op", "failed"}

\* The counters stay in their ranges: a third empty bus ends the start, and a
\* pass is only counted while the link is not reported lost.
CountersInv ==
  /\ mainPc \in {"socket", "config"} => tries < 3
  /\ ~wkc_error_ => wkc_error_count_ < WKC_ERROR_CNT
  /\ errPc \in {"check", "node", "turn"} => ~wkc_error_

TypeInv == TypeOK /\ CountersInv

\* The flag and the threads follow the framework's thread.
LifeInv ==
  /\ is_running_ <=> mainPc = "running"
  /\ Starting => errPc = "none" /\ \A id \in Nodes : ~islost[id]
  /\ mainPc = "stopped" => errPc = "done"

InOp(id) == state[id] = "OP" /\ node_state_[id] = "OP" /\ ~islost[id]

\* What CheckOp has seen, and what a pass of ErrorHandler has seen so far.
OpSeen == mainPc = "op" /\ op_state => \A id \in Nodes : id \in left \/ state[id] = "OP"

PassSeen ==
  is_running_ /\ errPc \in {"node", "turn"} /\ ~docheckstate =>
    \A id \in Nodes : id \in todo \/ InOp(id)

StandInv == LifeInv /\ OpSeen /\ PassSeen /\ StandsDown

\* A slave that does not answer has nothing to obey.
DeafInv == \A s \in 1..MaxSlaves : ~Answers(s) => request[s] = "none"

StopInv == LifeInv /\ DeafInv /\ StoppedInInit

-----------------------------------------------------------------------------
\* A node is identified by its place on the bus.
LEMMA NodeIds == Nodes \subseteq 1..MaxSlaves /\ MaxSlaves \in Nat
BY BusAssumption

\* The work counters are numbers.
LEMMA Counters ==
  ASSUME TypeOK
  PROVE  Wkc \in Int /\ Cardinality(Slaves \ Nodes) \in Int
  <1>1. IsFiniteSet(Slaves)
    BY FS_Interval, NodeIds DEF TypeOK, Slaves
  <1>2. \A T : T \subseteq Slaves => Cardinality(T) \in Nat
    BY <1>1, FS_Subset, FS_CardinalityType
  <1>3. Cardinality({s \in Slaves : al[s] = "OP"}) \in Nat
    BY <1>2
  <1>4. Cardinality({s \in Slaves : al[s] \in {"SAFE_OP", "SAFE_OP_ERROR", "OP"}}) \in Nat
    BY <1>2
  <1>5. Cardinality(Slaves \ Nodes) \in Nat
    BY <1>2
  <1> QED BY <1>3, <1>4, <1>5 DEF Wkc

\* Before Start nothing runs and no slave is asked for anything.
LEMMA InitInv == Init => TypeInv /\ StandInv /\ StopInv
  <1> SUFFICES ASSUME Init PROVE TypeInv /\ StandInv /\ StopInv
    OBVIOUS
  <1>1. TypeInv
    <2>1. TypeOK
      <3>1. 0 \in 0..3 /\ 0 \in 0..MaxSlaves /\ 0 \in 0..WKC_ERROR_CNT /\ 0 \in 0..MaxFaults
        BY BusAssumption
      <3>2. /\ state \in [Nodes -> AlStates \cup {"NONE"}]
            /\ node_state_ \in [Nodes -> AlStates \cup {"NONE"}]
            /\ al \in [1..MaxSlaves -> AlStates \cup {"gone", "fresh"}]
            /\ request \in [1..MaxSlaves -> AlStates \cup {"none", "ACK"}]
        BY DEF Init, AlStates
      <3>3. islost \in [Nodes -> BOOLEAN]
        BY DEF Init
      <3>4. current_wkc_ \in Int /\ expected_wkc_ \in Int
        BY DEF Init
      <3> QED BY <3>1, <3>2, <3>3, <3>4, Zenon DEF Init, TypeOK
    <2>2. 0 < WKC_ERROR_CNT /\ tries < 3
      BY BusAssumption DEF Init
    <2> QED BY <2>1, <2>2 DEF Init, TypeInv, CountersInv
  <1>2. LifeInv
    BY DEF Init, LifeInv, Starting
  <1> QED
    BY <1>1, <1>2
    DEF Init, StandInv, OpSeen, PassSeen, StandsDown, StopInv, DeafInv, StoppedInInit

\* The effect of a node's turn on the bus: only its own entries change.
LEMMA TurnTypes ==
  ASSUME TypeOK, NEW id \in Nodes, HandleNode(id)
  PROVE  /\ docheckstate' \in BOOLEAN
         /\ state' \in [Nodes -> AlStates \cup {"NONE"}]
         /\ islost' \in [Nodes -> BOOLEAN]
         /\ node_state_' \in [Nodes -> AlStates \cup {"NONE"}]
         /\ al' \in [1..MaxSlaves -> AlStates \cup {"gone", "fresh"}]
         /\ request' \in [1..MaxSlaves -> AlStates \cup {"none", "ACK"}]
  <1>1. id \in 1..MaxSlaves /\ Read(id) \in AlStates \cup {"NONE"}
    BY NodeIds DEF TypeOK, Read, Answers, AlStates
  <1>2. docheckstate' \in BOOLEAN
    BY DEF HandleNode, Suspect, TypeOK
  <1>3. PICK st \in AlStates \cup {"NONE"}, lost \in BOOLEAN,
             a \in AlStates \cup {"gone", "fresh"} :
          Settle(id, st, lost, a)
    BY <1>1 DEF HandleNode, Reconfig, TypeOK, AlStates
  <1>4. request' \in [1..MaxSlaves -> AlStates \cup {"none", "ACK"}]
    BY <1>1 DEF HandleNode, Reconfig, Requested, TypeOK, AlStates
  <1> QED BY <1>1, <1>2, <1>3, <1>4 DEF Settle, TypeOK, AlStates

\* Every step keeps the types, the error handler's included.
LEMMA TypeStep ==
  ASSUME TypeInv, [Next]_vars
  PROVE  TypeInv'
  <1> USE DEF TypeInv, CountersInv
  <1> USE NodeIds
  <1>1. CASE OpenSocket
    BY <1>1 DEF OpenSocket, UNCHANGEDthreads, errVars, busVars, TypeOK
  <1>2. CASE ConfigInit
    <2> PICK n \in 0..MaxSlaves :
       /\ ec_slavecount' = n
       /\ IF n = 0
          THEN /\ tries' = tries + 1
               /\ mainPc' = IF tries + 1 < 3 THEN "config" ELSE "failed"
               /\ UNCHANGED <<left, request>>
          ELSE /\ UNCHANGED tries
               /\ request' = Requested(1..n, "PRE_OP")
               /\ left' = Nodes
               /\ mainPc' = IF \A id \in Nodes : id <= n THEN "preOp" ELSE "failed"
      BY <1>2 DEF ConfigInit
    <2>1. request' \in [1..MaxSlaves -> AlStates \cup {"none", "ACK"}]
      BY DEF Requested, TypeOK, AlStates
    <2>2. tries' \in 0..3 /\ (mainPc' = "config" => tries' < 3) /\ mainPc' # "socket"
      BY <1>2 DEF ConfigInit, TypeOK
    <2> QED
      BY <1>2, <2>1, <2>2 DEF ConfigInit, UNCHANGEDthreads, errVars, TypeOK
  <1>3. ASSUME NEW id \in Nodes, CheckPreOp(id) \/ CheckSafeOp(id) \/ CheckOp(id) PROVE TypeInv'
    <2>1. Read(id) \in AlStates \cup {"NONE"}
      BY DEF TypeOK, Read, Answers, AlStates
    <2>2. state' \in [Nodes -> AlStates \cup {"NONE"}]
      BY <1>3, <2>1 DEF CheckPreOp, CheckSafeOp, StateCheck, CheckOp, TypeOK
    <2>3. UNCHANGED errVars /\ mainPc' \notin {"socket", "config"}
      BY <1>3 DEF CheckPreOp, CheckSafeOp, StateCheck, CheckOp, UNCHANGEDthreads
    <2>4. TypeOK'
      BY <1>3, <2>2
      DEF CheckPreOp, CheckSafeOp, StateCheck, CheckOp, UNCHANGEDthreads, errVars, busVars, TypeOK
    <2> QED BY <2>3, <2>4 DEF errVars
  <1>4. CASE MapSlaves
    <2>1. request' \in [1..MaxSlaves -> AlStates \cup {"none", "ACK"}]
      BY <1>4 DEF MapSlaves, Requested, TypeOK, AlStates
    <2>2. expected_wkc_' \in Int
      BY <1>4, Counters DEF MapSlaves, TypeOK
    <2> QED
      BY <1>4, <2>1, <2>2
      DEF MapSlaves, UpdateAll, UNCHANGEDthreads, errVars, TypeOK, AlStates
  <1>5. CASE RequestOp
    <2>1. request' \in [1..MaxSlaves -> AlStates \cup {"none", "ACK"}]
      BY <1>5 DEF RequestOp, Requested, TypeOK, AlStates
    <2> QED
      BY <1>5, <2>1 DEF RequestOp, UpdateAll, UNCHANGEDthreads, errVars, TypeOK, AlStates
  <1>6. CASE StartEnd
    BY <1>6 DEF StartEnd, UpdateAll, busVars, TypeOK, AlStates
  <1>7. CASE Stop
    BY <1>7 DEF Stop, UNCHANGEDthreads, errVars, busVars, TypeOK
  <1>8. CASE StopJoin
    <2>1. request' \in [1..MaxSlaves -> AlStates \cup {"none", "ACK"}]
      BY <1>8 DEF StopJoin, Requested, TypeOK, AlStates
    <2> QED
      BY <1>8, <2>1 DEF StopJoin, UNCHANGEDthreads, errVars, TypeOK
  <1>9. CASE WorkLoop
    <2>1. current_wkc_' \in Int /\ faults' \in 0..MaxFaults
      BY <1>9, Counters, BusAssumption DEF WorkLoop, TypeOK
    <2> QED
      BY <1>9, <2>1 DEF WorkLoop, mainVars, errVars, TypeOK
  <1>10. CASE ErrLoop \/ ErrNext
    <2>1. TypeOK'
      BY <1>10 DEF ErrLoop, ErrNext, mainVars, busVars, TypeOK
    <2>2. UNCHANGED <<mainPc, tries, wkc_error_, wkc_error_count_>>
      BY <1>10 DEF ErrLoop, ErrNext, mainVars
    <2>3. errPc' \in {"check", "node", "turn"} => errPc = "node"
      BY <1>10 DEF ErrLoop, ErrNext
    <2> QED BY <2>1, <2>2, <2>3
  <1>11. CASE ErrResume
    <2>1. CASE wkc_error_ /\ current_wkc_ # expected_wkc_
      <3>1. UNCHANGED <<mainVars, busVars, todo, docheckstate, workPc, current_wkc_, state, islost,
                        node_state_, wkc_error_, wkc_error_count_>> /\ errPc' = "loop"
        BY <1>11, <2>1 DEF ErrResume
      <3>2. TypeOK'
        BY <3>1 DEF mainVars, busVars, TypeOK
      <3> QED BY <3>1, <3>2 DEF mainVars
    <2>2. CASE ~(wkc_error_ /\ current_wkc_ # expected_wkc_)
      <3>1. /\ UNCHANGED <<mainVars, busVars, todo, docheckstate, workPc, current_wkc_, state,
                           islost, node_state_>>
            /\ errPc' = "check" /\ wkc_error_' = FALSE
        BY <1>11, <2>2 DEF ErrResume
      <3>2. wkc_error_count_' \in 0..WKC_ERROR_CNT /\ wkc_error_count_' < WKC_ERROR_CNT
        BY <1>11, <2>2, BusAssumption DEF ErrResume, TypeOK
      <3>3. TypeOK'
        BY <3>1, <3>2 DEF mainVars, busVars, TypeOK
      <3> QED BY <3>1, <3>2, <3>3 DEF mainVars
    <2> QED BY <2>1, <2>2
  <1>12. CASE ErrCheck
    <2>1. state' \in [Nodes -> AlStates \cup {"NONE"}]
      BY <1>12 DEF ErrCheck, Read, Answers, TypeOK, AlStates
    <2>2. TypeOK'
      <3>1. wkc_error_count_' \in 0..WKC_ERROR_CNT
        BY <1>12, BusAssumption DEF ErrCheck, TypeOK
      <3>2. docheckstate' \in BOOLEAN
        BY <1>12 DEF ErrCheck, TypeOK
      <3>3. errPc' \in {"node", "loop"} /\ todo' \subseteq Nodes
        BY <1>12 DEF ErrCheck, TypeOK
      <3>4. UNCHANGED <<mainVars, busVars, wkc_error_, workPc, current_wkc_, islost, node_state_>>
        BY <1>12 DEF ErrCheck
      <3> QED BY <2>1, <3>1, <3>2, <3>3, <3>4 DEF mainVars, busVars, TypeOK
    <2>3. UNCHANGED <<mainPc, tries, wkc_error_>> /\ ~wkc_error_
      BY <1>12 DEF ErrCheck, mainVars
    <2>4. wkc_error_count_' < WKC_ERROR_CNT
      BY <1>12, <2>3, BusAssumption DEF ErrCheck
    <2> QED BY <2>2, <2>3, <2>4
  <1>13. CASE ErrCount
    <2>1. wkc_error_count_' \in 0..WKC_ERROR_CNT /\ wkc_error_' \in BOOLEAN
      BY <1>13, BusAssumption DEF ErrCount, LinkLost, TypeOK
    <2>2. wkc_error_count_' < WKC_ERROR_CNT \/ wkc_error_' = TRUE
      <3>1. wkc_error_count_' = wkc_error_count_ + 1 /\ wkc_error_' = LinkLost
        BY <1>13 DEF ErrCount
      <3>2. wkc_error_count_ + 1 < WKC_ERROR_CNT \/ LinkLost
        BY BusAssumption DEF LinkLost, TypeOK
      <3> QED BY <3>1, <3>2
    <2> QED
      BY <1>13, <2>1, <2>2 DEF ErrCount, mainVars, busVars, TypeOK
  <1>14. ASSUME NEW id \in Nodes, ErrNode(id) PROVE TypeInv'
    BY <1>14, TurnTypes DEF ErrNode, mainVars, TypeOK
  <1>15. ASSUME NEW s \in 1..MaxSlaves, SlaveObeys(s) \/ SlaveFails(s) \/ SlaveReturns(s)
         PROVE  TypeInv'
    <2>1. al' \in [1..MaxSlaves -> AlStates \cup {"gone", "fresh"}]
      BY <1>15 DEF SlaveObeys, SlaveFails, SlaveReturns, Met, TypeOK, AlStates
    <2>2. request' \in [1..MaxSlaves -> AlStates \cup {"none", "ACK"}]
      BY <1>15 DEF SlaveObeys, SlaveFails, SlaveReturns, TypeOK
    <2>3. faults' \in 0..MaxFaults
      BY <1>15, BusAssumption DEF SlaveObeys, SlaveFails, SlaveReturns, TypeOK
    <2>4. UNCHANGED <<mainVars, errVars, workPc, current_wkc_, state, islost, node_state_>>
      BY <1>15 DEF SlaveObeys, SlaveFails, SlaveReturns
    <2>5. TypeOK'
      BY <2>1, <2>2, <2>3, <2>4 DEF mainVars, errVars, TypeOK
    <2> QED BY <2>4, <2>5 DEF mainVars, errVars
  <1>16. CASE UNCHANGED vars
    BY <1>16 DEF vars, mainVars, errVars, busVars, TypeOK
  <1> QED
    BY <1>1, <1>2, <1>3, <1>4, <1>5, <1>6, <1>7, <1>8, <1>9, <1>10, <1>11, <1>12, <1>13, <1>14,
       <1>15, <1>16
    DEF Next, StartStep, ErrorHandler, Bus

\* Every part of the bus keeps its type under all interleavings and faults, and
\* the counters of attempts and of bad passes stay within their limits.
THEOREM BusTypeCorrect == Spec => []TypeOK
  <1>1. Spec => []TypeInv
    BY InitInv, TypeStep, PTL DEF Spec
  <1>2. TypeInv => TypeOK
    BY DEF TypeInv
  <1> QED BY <1>1, <1>2, PTL

-----------------------------------------------------------------------------
\* Stop comes after Start, and ErrorHandler has ended when Stop returns.
LEMMA LifeStep ==
  ASSUME TypeInv, LifeInv, [Next]_vars
  PROVE  LifeInv'
  <1> USE DEF LifeInv, Starting
  <1>1. CASE OpenSocket \/ ConfigInit \/ MapSlaves \/ RequestOp
    BY <1>1 DEF OpenSocket, ConfigInit, MapSlaves, RequestOp, UNCHANGEDthreads, errVars
  <1>2. ASSUME NEW id \in Nodes, CheckPreOp(id) \/ CheckSafeOp(id) \/ CheckOp(id) PROVE LifeInv'
    BY <1>2 DEF CheckPreOp, CheckSafeOp, StateCheck, CheckOp, UNCHANGEDthreads, errVars
  <1>3. CASE StartEnd
    BY <1>3 DEF StartEnd
  <1>4. CASE Stop \/ StopJoin
    BY <1>4 DEF Stop, StopJoin, ThreadsDone, UNCHANGEDthreads, errVars
  <1>5. CASE WorkLoop
    BY <1>5 DEF WorkLoop, mainVars, errVars
  <1>6. CASE ErrLoop \/ ErrResume \/ ErrCheck \/ ErrNext \/ ErrCount
    BY <1>6 DEF ErrLoop, ErrResume, ErrCheck, ErrNext, ErrCount, mainVars
  <1>7. ASSUME NEW id \in Nodes, ErrNode(id) PROVE LifeInv'
    BY <1>7 DEF ErrNode, mainVars
  <1>8. ASSUME NEW s \in 1..MaxSlaves, SlaveObeys(s) \/ SlaveFails(s) \/ SlaveReturns(s)
        PROVE  LifeInv'
    BY <1>8 DEF SlaveObeys, SlaveFails, SlaveReturns, mainVars, errVars
  <1>9. CASE UNCHANGED vars
    BY <1>9 DEF vars, mainVars, errVars
  <1> QED
    BY <1>1, <1>2, <1>3, <1>4, <1>5, <1>6, <1>7, <1>8, <1>9
    DEF Next, StartStep, ErrorHandler, Bus

\* A node that is in OP state when its turn comes is found in order; any other
\* asks for another pass.
LEMMA TurnSees ==
  ASSUME TypeOK, NEW id \in Nodes, HandleNode(id)
  PROVE  /\ docheckstate => docheckstate'
         /\ docheckstate' \/ InOp(id)'
         /\ \A n \in Nodes \ {id} : InOp(n) => InOp(n)'
  <1>1. docheckstate' = (docheckstate \/ state[id] # "OP")
    BY DEF HandleNode, Suspect
  <1>2. ASSUME state[id] = "OP" PROVE InOp(id)'
    <2>1. Settle(id, "OP", islost[id], al[id])
      BY <1>2 DEF HandleNode
    <2>2. state'[id] = "OP" /\ node_state_'[id] = "OP"
      BY <2>1 DEF Settle, TypeOK
    <2>3. islost'[id] = FALSE
      BY <2>1 DEF Settle, TypeOK
    <2> QED BY <2>2, <2>3 DEF InOp
  <1>3. \A n \in Nodes \ {id} :
          state'[n] = state[n] /\ node_state_'[n] = node_state_[n] /\ islost'[n] = islost[n]
    BY DEF HandleNode, Reconfig, Settle, TypeOK
  <1> QED BY <1>1, <1>2, <1>3 DEF InOp, TypeOK

\* ErrorHandler stands down only after a whole pass that saw every node in OP
\* (ethercat_manager.cpp:389-444).
LEMMA StandStep ==
  ASSUME TypeInv, StandInv, [Next]_vars
  PROVE  StandInv'
  <1> USE DEF StandInv, OpSeen, PassSeen, StandsDown, InOp
  <1> LifeInv' BY LifeStep
  <1> TypeOK BY DEF TypeInv
  <1>1. CASE OpenSocket \/ ConfigInit \/ MapSlaves
    BY <1>1 DEF OpenSocket, ConfigInit, MapSlaves, LifeInv
  <1>2. CASE RequestOp
    BY <1>2 DEF RequestOp, LifeInv
  <1>3. ASSUME NEW id \in Nodes, CheckPreOp(id) \/ CheckSafeOp(id) PROVE StandInv'
    BY <1>3 DEF CheckPreOp, CheckSafeOp, StateCheck, LifeInv
  <1>4. ASSUME NEW id \in Nodes, CheckOp(id) PROVE StandInv'
    BY <1>4 DEF CheckOp, LifeInv, TypeOK
  <1>5. CASE StartEnd
    <2>1. CASE op_state
      BY <1>5, <2>1 DEF StartEnd, UpdateAll, LifeInv, Starting
    <2>2. CASE ~op_state
      BY <1>5, <2>2 DEF StartEnd, LifeInv
    <2> QED BY <2>1, <2>2
  <1>6. CASE Stop \/ StopJoin
    BY <1>6 DEF Stop, StopJoin, LifeInv
  <1>7. CASE WorkLoop
    BY <1>7 DEF WorkLoop, mainVars, errVars
  <1>8. CASE ErrLoop \/ ErrResume \/ ErrCheck \/ ErrNext \/ ErrCount
    BY <1>8 DEF ErrLoop, ErrResume, ErrCheck, ErrNext, ErrCount, mainVars, LifeInv, Starting
  <1>9. ASSUME NEW id \in Nodes, ErrNode(id) PROVE StandInv'
    <2>1. /\ mainPc # "op" /\ UNCHANGED mainPc
          /\ errPc' = "node" /\ todo' = todo \ {id} /\ errPc = "turn"
          /\ UNCHANGED is_running_
      BY <1>9 DEF ErrNode, LifeInv, Starting, mainVars
    <2>2. PassSeen'
      BY <1>9, <2>1, TurnSees DEF ErrNode
    <2> QED BY <2>1, <2>2
  <1>10. ASSUME NEW s \in 1..MaxSlaves, SlaveObeys(s) \/ SlaveFails(s) \/ SlaveReturns(s)
         PROVE  StandInv'
    BY <1>10 DEF SlaveObeys, SlaveFails, SlaveReturns, mainVars, errVars
  <1>11. CASE UNCHANGED vars
    BY <1>11 DEF vars, mainVars, errVars
  <1> QED
    BY <1>1, <1>2, <1>3, <1>4, <1>5, <1>6, <1>7, <1>8, <1>9, <1>10, <1>11
    DEF Next, StartStep, ErrorHandler, Bus

\* ErrorHandler stands down only with every node in OP state, told so, and not
\* taken for lost, for any number of nodes and any order of their turns.
THEOREM StandsDownInOp == Spec => []StandsDown
  <1>1. Spec => [](TypeInv /\ StandInv)
    BY InitInv, TypeStep, StandStep, PTL DEF Spec
  <1>2. StandInv => StandsDown
    BY DEF StandInv
  <1> QED BY <1>1, <1>2, PTL

-----------------------------------------------------------------------------
\* A request reaches only a slave that answers.
LEMMA RequestsHeard ==
  ASSUME TypeOK, DeafInv, NEW set, NEW r, request' = Requested(set, r), UNCHANGED al
  PROVE  DeafInv'
BY DEF DeafInv, Requested, Answers

\* The turn of a node leaves no request with a slave that does not answer.
LEMMA TurnHeard ==
  ASSUME TypeOK, DeafInv, NEW id \in Nodes, HandleNode(id)
  PROVE  DeafInv'
  <1>1. id \in 1..MaxSlaves
    BY NodeIds
  <1>2. CASE Reconfig(id)
    <2>1. CASE ~Answers(id) /\ Settle(id, "NONE", islost[id], al[id]) /\ UNCHANGED request
      BY <1>1, <2>1 DEF Settle, DeafInv, Answers, TypeOK
    <2>2. CASE \E st \in {"INIT", "PRE_OP", "SAFE_OP"} :
                  Settle(id, st, FALSE, st) /\ request' = [request EXCEPT ![id] = "none"]
      BY <1>1, <2>2 DEF Settle, DeafInv, Answers, TypeOK
    <2> QED BY <1>2, <2>1, <2>2 DEF Reconfig
  <1>3. CASE state[id] = "OP" \/ state[id] = "NONE"
    <2>1. UNCHANGED request /\ \E st, lost : Settle(id, st, lost, al[id])
      BY <1>3 DEF HandleNode
    <2>2. al' = al \/ (al[id] = "fresh" /\ al' = [al EXCEPT ![id] = "INIT"])
      BY <1>1, <2>1 DEF Settle, TypeOK
    <2> QED BY <2>1, <2>2 DEF DeafInv, Answers, TypeOK
  <1>4. CASE state[id] \in {"SAFE_OP_ERROR", "SAFE_OP"}
    <2>1. al' = al /\ \E r : request' = Requested({id}, r)
      BY <1>1, <1>4 DEF HandleNode, Settle, TypeOK
    <2> QED BY <2>1, RequestsHeard
  <1> QED BY <1>2, <1>3, <1>4 DEF HandleNode

\* Stop's last request is INIT, and no later step asks a slave for another state
\* (ethercat_manager.cpp:69-80).
LEMMA StopStep ==
  ASSUME TypeInv, StopInv, [Next]_vars
  PROVE  StopInv'
  <1> USE DEF StopInv, StoppedInInit
  <1> LifeInv' BY LifeStep
  <1> TypeOK BY DEF TypeInv
  <1>1. CASE OpenSocket \/ Stop \/ StartEnd
    BY <1>1 DEF OpenSocket, Stop, StartEnd, busVars, DeafInv, Answers
  <1>2. CASE ConfigInit
    <2>1. \/ UNCHANGED <<request, al>>
          \/ UNCHANGED al /\ \E n : request' = Requested(1..n, "PRE_OP")
      BY <1>2 DEF ConfigInit
    <2>2. DeafInv'
      BY <2>1, RequestsHeard DEF DeafInv, Answers
    <2> QED BY <1>2, <2>2 DEF ConfigInit
  <1>3. CASE MapSlaves \/ RequestOp
    <2>1. UNCHANGED al /\ \E set, r : request' = Requested(set, r)
      BY <1>3 DEF MapSlaves, RequestOp
    <2>2. DeafInv'
      BY <2>1, RequestsHeard
    <2> QED BY <1>3, <2>2 DEF MapSlaves, RequestOp
  <1>4. ASSUME NEW id \in Nodes, CheckPreOp(id) \/ CheckSafeOp(id) \/ CheckOp(id) PROVE StopInv'
    BY <1>4 DEF CheckPreOp, CheckSafeOp, StateCheck, CheckOp, busVars, DeafInv, Answers
  <1>5. CASE StopJoin
    <2>1. UNCHANGED <<al, ec_slavecount>> /\ request' = Requested(Slaves, "INIT")
      BY <1>5 DEF StopJoin
    <2>2. Slaves \subseteq 1..MaxSlaves /\ Slaves' = Slaves
      BY <2>1, NodeIds DEF Slaves, TypeOK
    <2>3. \A s \in Slaves : request'[s] = "INIT" \/ (request'[s] = "none" /\ ~Answers(s))
      BY <2>1, <2>2 DEF Requested, DeafInv
    <2> QED BY <2>1, <2>2, <2>3, RequestsHeard DEF Answers
  <1>6. CASE WorkLoop
    BY <1>6 DEF WorkLoop, mainVars, DeafInv, Answers, Slaves
  <1>7. CASE ErrLoop \/ ErrResume \/ ErrCheck \/ ErrNext \/ ErrCount
    BY <1>7 DEF ErrLoop, ErrResume, ErrCheck, ErrNext, ErrCount, mainVars, busVars, DeafInv,
                Answers, Slaves
  <1>8. ASSUME NEW id \in Nodes, ErrNode(id) PROVE StopInv'
    BY <1>8, TurnHeard DEF ErrNode, LifeInv, mainVars
  <1>9. ASSUME NEW s \in 1..MaxSlaves, SlaveObeys(s) \/ SlaveFails(s) \/ SlaveReturns(s)
        PROVE  StopInv'
    <2>1. UNCHANGED <<mainPc, ec_slavecount>> /\ Slaves' = Slaves
      BY <1>9 DEF SlaveObeys, SlaveFails, SlaveReturns, mainVars, Slaves
    <2>2. \A n \in 1..MaxSlaves : n # s => al'[n] = al[n] /\ request'[n] = request[n]
      BY <1>9 DEF SlaveObeys, SlaveFails, SlaveReturns, TypeOK
    <2>3. Answers(s)' \/ request'[s] = "none"
      BY <1>9 DEF SlaveObeys, SlaveFails, SlaveReturns, DeafInv, Answers, TypeOK
    <2>4. DeafInv'
      BY <2>2, <2>3 DEF DeafInv, Answers
    <2>5. ASSUME \/ request[s] = "INIT"
                 \/ request[s] = "none" /\ al[s] \notin {"PRE_OP", "SAFE_OP", "OP"}
          PROVE  request'[s] = "none" /\ al'[s] \notin {"PRE_OP", "SAFE_OP", "OP"}
      BY <1>9, <2>5 DEF SlaveObeys, SlaveFails, SlaveReturns, Met, DeafInv, Answers, TypeOK
    <2>6. Slaves \subseteq 1..MaxSlaves
      BY NodeIds DEF Slaves, TypeOK
    <2> QED BY <2>1, <2>2, <2>4, <2>5, <2>6
  <1>10. CASE UNCHANGED vars
    BY <1>10 DEF vars, mainVars, busVars, DeafInv, Answers, Slaves
  <1> QED
    BY <1>1, <1>2, <1>3, <1>4, <1>5, <1>6, <1>7, <1>8, <1>9, <1>10
    DEF Next, StartStep, ErrorHandler, Bus

\* When Stop has returned, no request takes a slave back to an operating state,
\* wherever ErrorHandler was when Stop began.
THEOREM StopLeavesInit == Spec => []StoppedInInit
  <1>1. Spec => [](TypeInv /\ StopInv)
    BY InitInv, TypeStep, StopStep, PTL DEF Spec
  <1>2. StopInv => StoppedInInit
    BY DEF StopInv
  <1> QED BY <1>1, <1>2, PTL
=============================================================================
