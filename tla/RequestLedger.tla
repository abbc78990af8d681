---------------------------- MODULE RequestLedger ---------------------------
(***************************************************************************)
(* The callers of the request table. A turn is one execution of a handler  *)
(* that claims a request: SdarTaskCoordinator.submit, followUp and cancel, *)
(* DurableAgUiRunService.run and WorldGroundingRuntime all follow the same *)
(* protocol around it: claim, do the work, then complete the claim, give   *)
(* it back (abandon), or end without doing either. Turns run concurrently, *)
(* may outlive their lease, and lose everything but the table when the     *)
(* process dies. What the work is belongs to the modules of the callers.   *)
(***************************************************************************)
EXTENDS RequestTable

VARIABLE turn  \* the turns, by the lease owner each draws

TurnState ==
  {"idle", "conflicted", "working", "answered", "refused", "failed"}

Turn == [pc     : TurnState,
         key    : Key \cup {None},
         hash   : Content \cup {None},
         answer : Result \cup {None}]

IdleTurn == [pc |-> "idle", key |-> None, hash |-> None, answer |-> None]

vars == <<requests, turn>>

(* The rows satisfy the table's constraints, and the turns are turns.      *)
TypeOK ==
  /\ requests \in [Key -> Request]
  /\ \A k \in Key : WellFormed(requests[k])
  /\ turn \in [Owner -> Turn]

Init ==
  /\ requests = [k \in Key |-> NoRequest]
  /\ turn = [o \in Owner |-> IdleTurn]

EndTurn(o, how, r) ==
  turn' = [turn EXCEPT ![o] = [@ EXCEPT !.pc = how, !.answer = r]]

-----------------------------------------------------------------------------
(* A lease owner is a random UUID: a turn never draws one a row still has. *)
Fresh(o) == \A k \in Key : requests[k].owner # o

(* A client sends a request, or sends it again; the insert claims it ...   *)
ClaimNew(o, k, h) ==
  /\ turn[o].pc = "idle" /\ Fresh(o)
  /\ InsertClaim(k, h, o)
  /\ turn' = [turn EXCEPT ![o] = [@ EXCEPT !.pc = "working",
                                           !.key = k, !.hash = h]]

(* ... or finds a row, which the transaction then reads and locks. The row *)
(* may be gone by then: the two statements do not share a snapshot.        *)
ClaimExisting(o, k, h) ==
  /\ turn[o].pc = "idle" /\ Fresh(o)
  /\ requests[k].status # "ABSENT"
  /\ turn' = [turn EXCEPT ![o] = [@ EXCEPT !.pc = "conflicted",
                                           !.key = k, !.hash = h]]
  /\ UNCHANGED requests

ResolveClaim(o) ==
  LET k == turn[o].key
      h == turn[o].hash
  IN  /\ turn[o].pc = "conflicted"
      /\ \/ /\ requests[k].status = "ABSENT"
            /\ EndTurn(o, "failed", None)
            /\ UNCHANGED requests
         \/ /\ Conflicts(k, h) \/ InProgress(k, h)
            /\ EndTurn(o, "refused", None)
            /\ UNCHANGED requests
         \/ /\ Replays(k, h)
            /\ EndTurn(o, "answered", requests[k].result)
            /\ UNCHANGED requests
         \/ /\ TakeOver(k, h, o)
            /\ turn' = [turn EXCEPT ![o].pc = "working"]

-----------------------------------------------------------------------------
(* The work produced a result; the completion fails when the claim is no   *)
(* longer the turn's own, and the turn then ends in an error.              *)
Complete(o) ==
  LET k == turn[o].key
      h == turn[o].hash
  IN  /\ turn[o].pc = "working"
      /\ \/ \E r \in Result : /\ CompleteClaim(k, h, o, r)
                              /\ EndTurn(o, "answered", r)
         \/ /\ ~OwnsClaim(k, h, o)
            /\ EndTurn(o, "failed", None)
            /\ UNCHANGED requests

(* The turn cannot proceed and gives the claim back.                       *)
Abandon(o) ==
  /\ turn[o].pc = "working"
  /\ AbandonClaim(turn[o].key, turn[o].hash, o)
  /\ EndTurn(o, "refused", None)

(* The turn ends without a result and leaves the claim to its lease.       *)
GiveUp(o) ==
  /\ turn[o].pc = "working"
  /\ EndTurn(o, "failed", None)
  /\ UNCHANGED requests

(* The response is over; the client may ask again in a new turn.           *)
Rest(o) ==
  /\ turn[o].pc \in {"answered", "refused", "failed"}
  /\ turn' = [turn EXCEPT ![o] = IdleTurn]
  /\ UNCHANGED requests

LeaseExpires(k) == ExpireClaim(k) /\ UNCHANGED turn

(* The process dies and starts again: no turn survives, and the startup    *)
(* reconciliation runs before the server listens.                          *)
Restart ==
  /\ turn' = [o \in Owner |-> IdleTurn]
  /\ ReclaimExpired

Step(o) ==
  \/ ResolveClaim(o) \/ Complete(o) \/ Abandon(o) \/ GiveUp(o) \/ Rest(o)

Ask(o, k, h) == ClaimNew(o, k, h) \/ ClaimExisting(o, k, h)

Next ==
  \/ \E o \in Owner : Step(o)
  \/ \E o \in Owner, k \in Key, h \in Content : Ask(o, k, h)
  \/ \E k \in Key : LeaseExpires(k)
  \/ Restart

Spec == Init /\ [][Next]_vars

-----------------------------------------------------------------------------
(* A turn that was answered, by its own work or by a replay, was answered  *)
(* for the content and with the result that the row holds now: a retry     *)
(* replays the exact result, and never that of different content.          *)
AnswersAgree ==
  \A o \in Owner : turn[o].pc = "answered" =>
    /\ requests[turn[o].key].status = "COMPLETED"
    /\ requests[turn[o].key].hash = turn[o].hash
    /\ requests[turn[o].key].result = turn[o].answer

(* A turn that works and whose lease a row still carries works on that     *)
(* very request and content: whatever was taken over, reclaimed or deleted *)
(* in between, no turn ever works for two rows, or under another's hash.   *)
SoleLessee ==
  \A k \in Key, o \in Owner :
    (requests[k].owner = o /\ turn[o].pc = "working") =>
      turn[o].key = k /\ turn[o].hash = requests[k].hash

(* A completed row is final: no claim, abandonment, expiry or restart ever *)
(* changes or deletes it.                                                  *)
CompletedIsFinal ==
  [][\A k \in Key : requests[k].status = "COMPLETED" =>
       requests'[k] = requests[k]]_vars

(* An unexpired lease is that of a turn that may still complete the claim: *)
(* startup reconciliation leaves no abandoned request leased.              *)
LeasedToSomeone == \A k \in Key : requests[k].leased => requests[k].owner # None

-----------------------------------------------------------------------------
(* The ledger implements the contract: a key is decided when its row is    *)
(* completed, and the answers are those of the turns.                      *)
ASSUME DecisionAssumption == None \notin [hash : Content, result : Result]

DecidedBy(row) ==
  IF row.status = "COMPLETED" THEN [hash |-> row.hash, result |-> row.result]
                              ELSE None

AnswerOf(t) ==
  IF t.pc = "answered" THEN [key |-> t.key, hash |-> t.hash, result |-> t.answer]
                       ELSE None

Contract == INSTANCE IdempotentRequest WITH
  Asker   <- Owner,
  decided <- [k \in Key |-> DecidedBy(requests[k])],
  answer  <- [o \in Owner |-> AnswerOf(turn[o])]

ImplementsContract == Contract!Spec
=============================================================================
