--------------------------- MODULE GroundingTable ---------------------------
(***************************************************************************)
(* GroundingPersistenceRepository: the lifecycle rows of the groundings,   *)
(* each operation one transaction that locks its row. A key stands for the *)
(* stable turn hash of which the grounding id and the idempotency key are  *)
(* made; a context stands for what else the WSGS request hash covers. The  *)
(* event each transaction appends repeats its transition and is left out.  *)
(***************************************************************************)
CONSTANTS
  Key,
  Holder,   \* lease owners
  Context,
  Outcome,  \* the terminal status that a WSGS result carries
  None

VARIABLE groundings

Terminal == {"COMPLETED", "FAILED", "CANCELLED"}

Grounding == [state : {"ABSENT", "GROUNDING_PENDING", "GROUNDING_READY",
                       "SDAR_SUBMISSION_RESERVED", "SDAR_SUBMITTED"}
                      \cup Terminal,
              context : Context \cup {None}, result : Outcome \cup {None},
              reserved : BOOLEAN, task : BOOLEAN,
              holder : Holder \cup {None}, leased : BOOLEAN]

NoGrounding == [state |-> "ABSENT", context |-> None, result |-> None,
                reserved |-> FALSE, task |-> FALSE,
                holder |-> None, leased |-> FALSE]

Held(k, o) == groundings[k].holder = o /\ groundings[k].leased

(* The new row of k; every transition but a reservation ends the lease.    *)
Write(k, row) == groundings' = [groundings EXCEPT ![k] = row]

Moved(k, state) == [groundings[k] EXCEPT !.state = state, !.holder = None,
                                         !.leased = FALSE]

-----------------------------------------------------------------------------
(* claim.                                                                  *)
Created(k, c, o) ==
  /\ groundings[k].state = "ABSENT"
  /\ Write(k, [NoGrounding EXCEPT !.state = "GROUNDING_PENDING",
                 !.context = c, !.holder = o, !.leased = TRUE])

HashConflicts(k, c) ==
  groundings[k].state # "ABSENT" /\ groundings[k].context # c

BeyondPending(k) == groundings[k].state \notin {"ABSENT", "GROUNDING_PENDING"}

Replayed(k, c) == BeyondPending(k) /\ groundings[k].context = c

Busy(k, c, o) ==
  /\ groundings[k].state = "GROUNDING_PENDING" /\ groundings[k].context = c
  /\ groundings[k].leased /\ groundings[k].holder # o

Acquired(k, c, o) ==
  /\ groundings[k].state = "GROUNDING_PENDING" /\ groundings[k].context = c
  /\ ~Busy(k, c, o)
  /\ Write(k, [groundings[k] EXCEPT !.holder = o, !.leased = TRUE])

-----------------------------------------------------------------------------
(* recordGroundingReady, reserveSdarSubmission and recordSdarSubmitted: a  *)
(* repetition with the same content is accepted and writes nothing. The    *)
(* first and the third ask for an unexpired lease.                         *)
RecordReady(k, r, o) ==
  \/ /\ groundings[k].state = "GROUNDING_PENDING" /\ Held(k, o)
     /\ Write(k, [Moved(k, "GROUNDING_READY") EXCEPT !.result = r])
  \/ /\ groundings[k].state # "GROUNDING_PENDING"
     /\ groundings[k].result = r
     /\ UNCHANGED groundings

CanRecordReady(k, r, o) ==
  IF groundings[k].state = "GROUNDING_PENDING" THEN Held(k, o)
                                               ELSE groundings[k].result = r

Reserve(k, o) ==
  /\ groundings[k].state = "GROUNDING_READY"
  /\ Write(k, [groundings[k] EXCEPT !.state = "SDAR_SUBMISSION_RESERVED",
                 !.reserved = TRUE, !.holder = o, !.leased = TRUE])

RecordSubmitted(k, o) ==
  /\ groundings[k].state = "SDAR_SUBMISSION_RESERVED" /\ Held(k, o)
  /\ Write(k, [Moved(k, "SDAR_SUBMITTED") EXCEPT !.task = TRUE])

(* transitionTerminal: complete, fail and cancel. None of them asks for    *)
(* the lease.                                                              *)
CanEnd(k, state) ==
  \/ groundings[k].state = state
  \/ /\ groundings[k].state \notin Terminal \cup {"ABSENT"}
     /\ state = "COMPLETED" =>
          groundings[k].state \in {"GROUNDING_READY", "SDAR_SUBMITTED"}

End_Reopens(k, state) ==  \* fault: no isTerminal check
  /\ CanEnd(k, state) \/ groundings[k].state \in Terminal
  /\ Write(k, Moved(k, state))

End(k, state) ==
  /\ CanEnd(k, state)
  /\ IF groundings[k].state = state THEN UNCHANGED groundings
                                    ELSE Write(k, Moved(k, state))

(* claimRecoverable, releaseLease, and the passing of lease_until.         *)
Recover(k, o) ==
  /\ groundings[k].state \in {"GROUNDING_PENDING", "SDAR_SUBMISSION_RESERVED"}
  /\ ~groundings[k].leased
  /\ Write(k, [groundings[k] EXCEPT !.holder = o, !.leased = TRUE])

Release(k, o) ==
  /\ groundings[k].holder = o
  /\ Write(k, [groundings[k] EXCEPT !.holder = None, !.leased = FALSE])

Lapse(k) ==
  /\ groundings[k].leased
  /\ Write(k, [groundings[k] EXCEPT !.leased = FALSE])
=============================================================================
