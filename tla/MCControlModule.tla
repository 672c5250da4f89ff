--------------------------- MODULE MCControlModule ---------------------------
(***************************************************************************)
(* The control module on a part of the X1 configuration: the states MCOnly *)
(* and the joint groups MCJoints of a cfg, with every edge, topic and list *)
(* the file has between them.                                              *)
(***************************************************************************)
EXTENDS ControlModule, SequencesExt, X1Config

CONSTANTS MCOnly, MCJoints

MCTopicStates ==
  LET Part(t) == SelectSeq(X1TopicStates[t], LAMBDA s : s \in MCOnly)
  IN  [t \in {u \in DOMAIN X1TopicStates : Part(u) # <<>>} |-> Part(t)]

MCTopics         == DOMAIN MCTopicStates
MCPreStates      == [s \in MCOnly |-> X1PreStates[s]]
MCControllerList == [s \in MCOnly |-> X1ControllerList[s]]
MCControllers    == UNION {ToSet(X1ControllerList[s]) : s \in MCOnly}
MCJointsOf       == [c \in MCControllers |-> X1JointsOf[c] \cap MCJoints]
MCKeep           == MCControllers \cap {"pd_keep"}
MCPlan           == MCControllers \cap {"pd_plan"}
MCRl             == MCControllers \cap {"rl_walk_leg", "rl_walk_leg_shoulder"}
MCWaypoints      == <<ZeroPose>>
=============================================================================
