-------------------------- MODULE MCTransmissions --------------------------
(***************************************************************************)
(* Two DCUs with one channel of one place each, two actuators and two      *)
(* joints; every type of transmission, with one actuator turned round.     *)
(***************************************************************************)
EXTENDS Transmissions

MCList == <<"A", "B">>

Pairs(types) ==
  {[type |-> type, joints |-> <<"pitch", "roll">>, actuators |-> <<"A", "B">>,
    directions |-> <<1, -1>>] : type \in types}

MCTransmissible ==
  Pairs({"LeftAnkle", "RightAnkle", "LeftWrist", "RightWrist", "Lumbar"})
  \cup {[type |-> "Simple", joints |-> <<j>>, actuators |-> <<a>>, directions |-> <<-1>>] :
          j \in {"pitch", "roll"}, a \in {"A", "C"}}

Command(p, v, e) == [position |-> p, velocity |-> v, effort |-> e, kp |-> 4095, kd |-> 1]

\* A command to both joints, and one to an unknown joint and to roll only, which
\* is outside the range of the code.
MCMessages ==
  {[pitch |-> Command(1, 2, 3), roll |-> Command(-1, 5, 7)],
   [waist |-> Command(0, 0, 0), roll |-> Command(32769, 1, -2048)]}

\* The table covers the first command on both ankles, and not the second.
MCQm5 == <<-3, 4>>
MCQm6 == <<-2, 5>>

MCSymmetry == Permutations(Dcus) \cup Permutations(EcatIds)
=============================================================================
