--------------------------- MODULE GroundingGuard ---------------------------
(***************************************************************************)
(* What the database itself accepts of chat_service.grounding_execution:   *)
(* the CHECK constraints and the update trigger of migration 0010. A       *)
(* repository statement that left this specification would raise inside    *)
(* its transaction. The repository is shown to implement it.               *)
(***************************************************************************)
CONSTANTS Key, None

VARIABLE rows  \* state, context (the request), result, reserved, task, leased

Terminal == {"COMPLETED", "FAILED", "CANCELLED"}

(* The table's CHECK constraints.                                          *)
Shape(row) ==
  /\ row.state = "GROUNDING_PENDING" =>
       row.result = None /\ ~row.reserved /\ ~row.task
  /\ row.state \in {"GROUNDING_READY", "SDAR_SUBMISSION_RESERVED",
                    "SDAR_SUBMITTED", "COMPLETED"} => row.result # None
  /\ row.state = "GROUNDING_READY" => ~row.reserved /\ ~row.task
  /\ row.state = "SDAR_SUBMISSION_RESERVED" => row.reserved /\ ~row.task
  /\ row.state = "SDAR_SUBMITTED" => row.reserved /\ row.task
  /\ row.state \in Terminal \cup {"GROUNDING_READY", "SDAR_SUBMITTED"} =>
       ~row.leased

(* enforce_grounding_execution_update.                                     *)
Forward(from, to) ==
  CASE from = "GROUNDING_PENDING" ->
         to \in {"GROUNDING_READY", "FAILED", "CANCELLED"}
    [] from = "GROUNDING_READY" ->
         to \in {"SDAR_SUBMISSION_RESERVED"} \cup Terminal
    [] from = "SDAR_SUBMISSION_RESERVED" ->
         to \in {"SDAR_SUBMITTED", "FAILED", "CANCELLED"}
    [] from = "SDAR_SUBMITTED" -> to \in Terminal
    [] OTHER -> FALSE

OnceRecorded(old, new) ==
  /\ new.context = old.context
  /\ old.result # None => new.result = old.result
  /\ old.reserved => new.reserved
  /\ old.task => new.task

OnlyTheLease(old, new) == new = [old EXCEPT !.leased = new.leased]

Insert(k, new) ==
  /\ rows[k].state = "ABSENT" /\ new.state = "GROUNDING_PENDING"
  /\ Shape(new)

Update(k, new) ==
  /\ rows[k].state \notin Terminal \cup {"ABSENT"}
  /\ Shape(new) /\ OnceRecorded(rows[k], new)
  /\ Forward(rows[k].state, new.state) \/ OnlyTheLease(rows[k], new)

Init == \A k \in Key : rows[k].state = "ABSENT"

Next ==
  \A k \in Key : rows'[k] # rows[k] =>
                   Insert(k, rows'[k]) \/ Update(k, rows'[k])

Spec == Init /\ [][Next]_rows
=============================================================================
