-------------------------- MODULE MCTaskCoordinator -------------------------
(* Model-checking instance of TaskCoordinator.                             *)
EXTENDS TaskCoordinator, TLC

(* A chat whose earlier messages may have left Tasks bound and at work, no *)
(* more than it may have.                                                  *)
BoundInit ==
  /\ requests = [m \in Message |-> NoRequest]
  /\ slot = NoLease
  /\ tasks \in [Task -> {[bound |-> b, lease |-> NoLease] : b \in {"no", "active"}}]
  /\ Cardinality(Active) <= MaxActive
  /\ sdar = [m \in Message |-> None]
  /\ turn = [o \in Turn |-> IdleTurn]
  /\ crashes = 0

BoundSpec == BoundInit /\ [][Next]_vars

Symmetry == Permutations(Message) \cup Permutations(Task) \cup Permutations(Turn)
=============================================================================
