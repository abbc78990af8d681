---------------------------- MODULE MCTaskBinding ---------------------------
(* Model-checking instance of TaskBinding: a Task that asks for input,     *)
(* goes on and completes.                                                  *)
EXTENDS TaskBinding, FiniteSets, TLC
MCLifeline == <<"WORKING", "INPUT_REQUIRED", "COMPLETED">>
AllStamped == {1, 2, 3}
FirstTwoStamped == {1, 2}
SecondStamped == {2}
ShortLifeline == <<"WORKING", "COMPLETED">>
FirstStamped == {1}
NoneStamped == {}
Symmetry == Permutations(Observer)

(* One artifact, published while the Task waits for input; and not every   *)
(* event of the Task reaches this chat.                                    *)
SomeEvents ==
  /\ Cardinality(events) <= 4
  /\ \A o \in Observer :
       observer[o].obs # None /\ observer[o].obs.kind = "artifact"
         => observer[o].obs.n = 2
=============================================================================
