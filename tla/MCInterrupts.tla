---------------------------- MODULE MCInterrupts ----------------------------
(* Model-checking instance of Interrupts: a Task that asks twice.          *)
EXTENDS Interrupts, TLC
Input == [phase |-> "awaiting_user_input", request |-> "q1",
          schema |-> {"yes"}]
Plan == [phase |-> "awaiting_plan_confirmation", request |-> None,
         schema |-> {None}]
InputThenPlan == <<Input, Plan>>
PlanThenPlan == <<Plan, Plan>>
MCAnswers == {[action |-> "provide_input", request |-> "q1", data |-> "yes"],
              [action |-> "provide_input", request |-> "q1", data |-> "no"],
              [action |-> "confirm_plan", request |-> None, data |-> None],
              [action |-> "revise_plan", request |-> None, data |-> None]}
Symmetry == Permutations(Turn) \cup Permutations(Run)
=============================================================================
