---------------------------- MODULE RequestTable ----------------------------
(***************************************************************************)
(* The table chat_service.interaction_request: the idempotency ledger that *)
(* both northbound protocols, the durable AG-UI runs and the grounding     *)
(* runtime claim before they do anything with an effect.                   *)
(*                                                                         *)
(* A key stands for the unique tuple (protocol, external request id,       *)
(* principal, thread); a content stands for the SHA-256 request hash.      *)
(* `lease_until > now()` is the Boolean `leased`: database time only       *)
(* matters to this table through the moment at which a lease runs out.     *)
(* Each operator below is one SQL statement (or one transaction), so it is *)
(* atomic; the modules that extend this one put statements into steps.     *)
(***************************************************************************)
CONSTANTS
  Key,      \* request identities
  Content,  \* request hashes
  Owner,    \* lease owners: one random UUID per turn that claims
  Result,   \* completed results, TASK or MESSAGE
  None      \* SQL NULL; as a lease owner, an owner that is no turn

ASSUME NoneAssumption == None \notin Owner \cup Content \cup Result

VARIABLE requests  \* the rows, by key

RequestStatus == {"ABSENT", "CLAIMED", "COMPLETED"}

Request == [status : RequestStatus,
            hash   : Content \cup {None},
            owner  : Owner \cup {None},
            leased : BOOLEAN,
            result : Result \cup {None}]

(* The CHECK constraint of migration 0009 on the result columns, and what  *)
(* the statements below keep of the lease columns: a row has a result when *)
(* it is completed and only then, and a completed row is leased to nobody. *)
WellFormed(row) ==
  /\ row.status = "COMPLETED" <=> row.result # None
  /\ row.status = "ABSENT" <=> row.hash = None
  /\ row.status # "CLAIMED" => row.owner = None /\ ~row.leased

NoRequest == [status |-> "ABSENT", hash |-> None, owner |-> None,
              leased |-> FALSE, result |-> None]

Claimed(h, o) == [status |-> "CLAIMED", hash |-> h, owner |-> o,
                  leased |-> TRUE, result |-> None]

-----------------------------------------------------------------------------
(* claimRequest, first statement: INSERT ... ON CONFLICT DO NOTHING.       *)
InsertClaim(k, h, o) ==
  /\ requests[k].status = "ABSENT"
  /\ requests' = [requests EXCEPT ![k] = Claimed(h, o)]

(* claimRequest, after the insert found a row: SELECT ... FOR UPDATE and   *)
(* the guarded UPDATE that re-leases an expired claim.                     *)
Conflicts(k, h) == requests[k].status # "ABSENT" /\ requests[k].hash # h

Replays_AnyContent(k, h) ==  \* fault: the request hash is not compared
  requests[k].status = "COMPLETED"

Replays(k, h) == requests[k].status = "COMPLETED" /\ requests[k].hash = h

Expired_AnyClaim(k) ==  \* fault: lease_until is not consulted
  requests[k].status = "CLAIMED"

Expired_Never(k) == FALSE  \* fault: a claim is in progress for ever

Expired(k) == requests[k].status = "CLAIMED" /\ ~requests[k].leased

InProgress(k, h) ==
  /\ requests[k].status = "CLAIMED"
  /\ requests[k].hash = h
  /\ requests[k].leased

TakeOver_Completed(k, h, o) ==  \* fault: no status = 'CLAIMED' guard
  /\ requests[k].status # "ABSENT" /\ ~requests[k].leased
  /\ requests[k].hash = h
  /\ requests' = [requests EXCEPT ![k] = Claimed(h, o)]

TakeOver_AnyContent(k, h, o) ==  \* fault: the request hash is not compared
  /\ Expired(k)
  /\ requests' = [requests EXCEPT ![k].owner = o, ![k].leased = TRUE]

TakeOver(k, h, o) ==
  /\ Expired(k)
  /\ requests[k].hash = h
  /\ requests' = [requests EXCEPT ![k].owner = o, ![k].leased = TRUE]

-----------------------------------------------------------------------------
(* completeRequest and completeCoordinatorRequest: one UPDATE that sets    *)
(* the status and the whole result. It asks for the owner but not for an   *)
(* unexpired lease, so a late owner still completes an unclaimed row.      *)
OwnsClaim_AnyOwner(k, h, o) ==  \* fault: no lease_owner guard
  /\ requests[k].status # "ABSENT"
  /\ requests[k].hash = h

OwnsClaim(k, h, o) ==
  /\ requests[k].status = "CLAIMED"
  /\ requests[k].hash = h
  /\ requests[k].owner = o

CompletedRow_KeepsLease(row, r) ==  \* fault: lease columns not cleared
  [row EXCEPT !.status = "COMPLETED", !.result = r]

CompletedRow(row, r) ==
  [row EXCEPT !.status = "COMPLETED", !.owner = None, !.leased = FALSE,
              !.result = r]

CompleteClaim(k, h, o, r) ==
  /\ OwnsClaim(k, h, o)
  /\ requests' = [requests EXCEPT ![k] = CompletedRow(@, r)]

(* abandonCoordinatorRequest: DELETE of the caller's own CLAIMED row; it   *)
(* succeeds silently when there is none.                                   *)
AbandonClaim(k, h, o) ==
  requests' = IF OwnsClaim(k, h, o)
              THEN [requests EXCEPT ![k] = NoRequest]
              ELSE requests

(* now() passes lease_until of a claimed row.                              *)
ExpireClaim(k) ==
  /\ requests[k].status = "CLAIMED" /\ requests[k].leased
  /\ requests' = [requests EXCEPT ![k].leased = FALSE]

(* reconcileStartup, first statement: every expired claim gets a fresh     *)
(* lease in the name of the starting process, which works on none of them. *)
ReclaimExpired ==
  requests' = [k \in Key |->
                 IF Expired(k)
                 THEN [requests[k] EXCEPT !.owner = None, !.leased = TRUE]
                 ELSE requests[k]]
=============================================================================
