--------------------------- MODULE TaskCoordinator --------------------------
(***************************************************************************)
(* SdarTaskCoordinator for one chat: the turns that submit a new SDAR Task *)
(* (submit) or mutate an existing one (followUp, cancel), the request      *)
(* ledger they claim, the chat's submission lease, the interaction lease   *)
(* of each bound Task, and SDAR behind them.                               *)
(*                                                                         *)
(* Every step below is one database statement, one call of SDAR, or the    *)
(* code between two of them, so that turns interleave wherever the code    *)
(* awaits. A turn that throws runs its finally block; a turn that dies     *)
(* (its process is killed, or the release itself fails) does not, and      *)
(* leaves its leases to the clock. What a turn shows of the Tasks it       *)
(* observes, and how a row becomes terminal, is the subject of TaskBinding *)
(* and appears here as the step RecordTerminal.                            *)
(***************************************************************************)
EXTENDS Naturals, FiniteSets

CONSTANTS
  Message,     \* message ids, the idempotency keys of the chat
  Task,        \* SDAR Task ids
  Turn,        \* handler executions; each draws a random lease owner
  Op,          \* the operations users ask for
  Reply,       \* the MESSAGE result
  None,
  MaxActive,   \* CHAT_MAX_ACTIVE_TASKS_PER_CHAT
  Stalls,      \* may a lease run out while its turn is still at work?
  MaxCrashes   \* bound: deaths and restarts in a behaviour

(* The content of a request is what it asks for: its hash covers the       *)
(* operation and the Task.                                                 *)
Intent == {i \in [op : Op, task : Task \cup {None}] :
             (i.op = "submit") <=> (i.task = None)}

ASSUME CoordinatorAssumption ==
  /\ Op \subseteq {"submit", "followUp", "cancel"}
  /\ None \notin Turn \cup Intent \cup Task \cup {Reply}
  /\ Reply \notin Task
  /\ IsFiniteSet(Task)
  /\ MaxActive \in Nat \ {0}
  /\ Stalls \in BOOLEAN
  /\ MaxCrashes \in Nat

VARIABLES
  requests,  \* interaction_request
  slot,      \* the submission lease of conversation_thread
  tasks,     \* conversation_task_binding with the interaction leases
  sdar,      \* what SDAR has answered to a submitted message id
  turn,      \* the turns
  crashes

vars == <<requests, slot, tasks, sdar, turn, crashes>>

INSTANCE RequestTable WITH
  Key <- Message, Content <- Intent, Owner <- Turn, Result <- Task \cup {Reply}

Lease == [owner : Turn \cup {None}, live : BOOLEAN]
NoLease == [owner |-> None, live |-> FALSE]
LeasedTo(o) == [owner |-> o, live |-> TRUE]

Ended == {"told", "conflict", "busy", "refused", "unbound", "failed", "dead"}
InTry == {"submitting", "binding", "bound", "streaming", "mutating",
          "releasing"}
AtWork == InTry \cup {"asking", "claimed"}

TurnState == [pc     : {"idle"} \cup AtWork \cup Ended,
              msg    : Message \cup {None},
              intent : Intent \cup {None},
              task   : Task \cup {None},  \* the Task the turn works on
              end    : Ended \cup {None}] \* how it ends after releasing

IdleTurn == [pc |-> "idle", msg |-> None, intent |-> None, task |-> None,
             end |-> None]

(* "ended": the row shows a final status but terminal_at is not set yet.   *)
TaskRow == [bound : {"no", "active", "ended", "terminal"}, lease : Lease]

(* The rows satisfy the table's constraints, and the turns are turns.      *)
TypeOK ==
  /\ requests \in [Message -> Request]
  /\ \A m \in Message : WellFormed(requests[m])
  /\ slot \in Lease
  /\ tasks \in [Task -> TaskRow]
  /\ sdar \in [Message -> Task \cup {Reply, None}]
  /\ turn \in [Turn -> TurnState]
  /\ crashes \in 0..MaxCrashes

Init ==
  /\ requests = [m \in Message |-> NoRequest]
  /\ slot = NoLease
  /\ tasks = [t \in Task |-> [bound |-> "no", lease |-> NoLease]]
  /\ sdar = [m \in Message |-> None]
  /\ turn = [o \in Turn |-> IdleTurn]
  /\ crashes = 0

(* The Tasks that the limit counts, and those that may be mutated.         *)
Active == {t \in Task : tasks[t].bound \in {"active", "ended"}}
Open == {t \in Task : tasks[t].bound = "active"}

Goto(o, pc) == turn' = [turn EXCEPT ![o].pc = pc]

(* return or throw inside the try block: its finally is next.              *)
Leave(o, how) ==
  turn' = [turn EXCEPT ![o] = [@ EXCEPT !.pc = "releasing", !.end = how]]

Submits(o) == turn[o].intent.op = "submit"

-----------------------------------------------------------------------------
(* A handler starts, for a new message or for one that is sent again. A    *)
(* mutation first looks at its Task: it must be bound and not terminal,    *)
(* and a follow-up must fit the phase that its binding shows.              *)
Begin(o, m, i) ==
  /\ turn[o].pc = "idle"
  /\ \E pc \in {"asking", "unbound"} :
       /\ pc = "asking" => (i.op = "submit" \/ i.task \in Open)
       /\ pc = "unbound" => (i.op = "followUp"
                               \/ (i.op = "cancel" /\ i.task \notin Open))
       /\ turn' = [turn EXCEPT ![o] =
            [pc |-> pc, msg |-> m, intent |-> i, task |-> i.task, end |-> None]]
  /\ UNCHANGED <<requests, slot, tasks, sdar, crashes>>

(* claimRequest                                                            *)
Claim(o) ==
  LET m == turn[o].msg
      i == turn[o].intent
  IN  /\ turn[o].pc = "asking"
      /\ \/ /\ InsertClaim(m, i, o) \/ TakeOver(m, i, o)
            /\ Goto(o, "claimed")
         \/ /\ \/ Conflicts(m, i) /\ Goto(o, "conflict")
               \/ InProgress(m, i) /\ Goto(o, "busy")
               \/ Replays(m, i) /\ Goto(o, "told")
            /\ UNCHANGED requests
      /\ UNCHANGED <<slot, tasks, sdar, crashes>>

-----------------------------------------------------------------------------
(* claimTaskSubmissionSlot: one UPDATE that asks for a free lease and for  *)
(* fewer active Tasks than the limit. A submission that is refused returns *)
(* and keeps its claim.                                                    *)
LeaseFree_Any(lease) == lease \in Lease      \* fault: the lease is not asked for
LeaseFree(lease) == ~lease.live

HasRoom_OffByOne(a) == Cardinality(a) <= MaxActive  \* fault: <= for <
HasRoom(a) == Cardinality(a) < MaxActive

ClaimSubmissionSlot(o) ==
  /\ turn[o].pc = "claimed" /\ Submits(o)
  /\ IF LeaseFree(slot) /\ HasRoom(Active)
     THEN slot' = LeasedTo(o) /\ Goto(o, "submitting")
     ELSE UNCHANGED slot /\ Goto(o, "refused")
  /\ UNCHANGED <<requests, tasks, sdar, crashes>>

(* SDAR accepts a submission; it answers a message id it knows with the    *)
(* Task, or the message, it gave before.                                   *)
SdarAccepts(o) ==
  LET m == turn[o].msg
  IN  /\ turn[o].pc = "submitting"
      /\ sdar[m] = None
      /\ \E a \in Task \cup {Reply} :
           /\ a \in Task => /\ tasks[a].bound = "no"
                            /\ \A n \in Message : sdar[n] # a
           /\ sdar' = [sdar EXCEPT ![m] = a]
      /\ UNCHANGED <<requests, slot, tasks, turn, crashes>>

(* The stream delivers the answer: an event that names the Task, or agent  *)
(* messages until the stream ends.                                         *)
ReceiveAnswer_CompletesFirst(o) ==  \* fault: completes before it binds
  /\ turn[o].pc = "submitting"
  /\ sdar[turn[o].msg] # None
  /\ turn' = [turn EXCEPT ![o] = [@ EXCEPT !.pc = "bound",
       !.task = IF sdar[turn[o].msg] \in Task THEN sdar[turn[o].msg] ELSE None]]
  /\ UNCHANGED <<requests, slot, tasks, sdar, crashes>>

ReceiveAnswer(o) ==
  LET a == sdar[turn[o].msg]
  IN  /\ turn[o].pc = "submitting"
      /\ a # None
      /\ turn' = [turn EXCEPT ![o] =
           [@ EXCEPT !.pc = IF a \in Task THEN "binding" ELSE "bound",
                     !.task = IF a \in Task THEN a ELSE None]]
      /\ UNCHANGED <<requests, slot, tasks, sdar, crashes>>

(* ensureBinding: an existing binding is used, or one is created; it       *)
(* counts as active, even if the event reports a final state.              *)
EnsureBinding(o) ==
  LET t == turn[o].task
  IN  /\ turn[o].pc = "binding"
      /\ \E b \in {"active", "ended"} :
           tasks' = IF tasks[t].bound = "no"
                    THEN [tasks EXCEPT ![t].bound = b] ELSE tasks
      /\ Goto(o, "bound")
      /\ UNCHANGED <<requests, slot, sdar, crashes>>

(* completeRequest, with the Task or the message. A lost claim throws; an  *)
(* error is swallowed when the response has been aborted meanwhile.        *)
CompleteSubmission(o) ==
  LET m == turn[o].msg
      t == turn[o].task
  IN  /\ turn[o].pc = "bound"
      /\ \/ /\ t # None
            /\ CompleteClaim(m, turn[o].intent, o, t)
            /\ Goto(o, "streaming")
         \/ /\ t = None
            /\ CompleteClaim(m, turn[o].intent, o, Reply)
            /\ Leave(o, "told")
         \/ /\ ~OwnsClaim(m, turn[o].intent, o)
            /\ \E how \in {"failed", "told"} : Leave(o, how)
            /\ UNCHANGED requests
      /\ UNCHANGED <<slot, tasks, sdar, crashes>>

(* The response ends at a boundary of the Task, or at the end of the       *)
(* stream and polling budgets.                                             *)
EndStream(o) ==
  /\ turn[o].pc = "streaming"
  /\ Leave(o, "told")
  /\ UNCHANGED <<requests, slot, tasks, sdar, crashes>>

-----------------------------------------------------------------------------
(* claimTaskInteractionSlot, which does not look at the Task's state any   *)
(* more; a mutation that is refused gives its claim back.                  *)
ClaimInteractionSlot(o) ==
  LET t == turn[o].task
  IN  /\ turn[o].pc = "claimed" /\ ~Submits(o)
      /\ IF LeaseFree(tasks[t].lease)
         THEN /\ tasks' = [tasks EXCEPT ![t].lease = LeasedTo(o)]
              /\ Goto(o, "mutating")
              /\ UNCHANGED requests
         ELSE /\ AbandonClaim(turn[o].msg, turn[o].intent, o)
              /\ Goto(o, "refused")
              /\ UNCHANGED tasks
      /\ UNCHANGED <<slot, sdar, crashes>>

(* SDAR has answered sendFollowUp, with the Task or a message, or          *)
(* cancelTask; the answer completes the request.                           *)
CompleteMutation(o) ==
  LET m == turn[o].msg
      i == turn[o].intent
  IN  /\ turn[o].pc = "mutating"
      /\ \/ \E r \in {turn[o].task} \cup
                     (IF i.op = "followUp" THEN {Reply} ELSE {}) :
              CompleteClaim(m, i, o, r) /\ Leave(o, "told")
         \/ ~OwnsClaim(m, i, o) /\ Leave(o, "failed") /\ UNCHANGED requests
      /\ UNCHANGED <<slot, tasks, sdar, crashes>>

-----------------------------------------------------------------------------
(* finally: releaseTaskSubmissionSlot or releaseTaskInteractionSlot, which *)
(* clear the lease if it is still the turn's own.                          *)
Release(o) ==
  LET t == turn[o].task
  IN  /\ turn[o].pc = "releasing"
      /\ IF Submits(o)
         THEN /\ slot' = IF slot.owner = o THEN NoLease ELSE slot
              /\ UNCHANGED tasks
         ELSE /\ tasks' = IF tasks[t].lease.owner = o
                          THEN [tasks EXCEPT ![t].lease = NoLease] ELSE tasks
              /\ UNCHANGED slot
      /\ Goto(o, turn[o].end)
      /\ UNCHANGED <<requests, sdar, crashes>>

(* An error, or a client that went away: SDAR fails, times out or names    *)
(* another Task; before the try block nothing has to be released.          *)
Fail_NoFinally(o) ==  \* fault: the release is not in a finally block
  /\ turn[o].pc \in AtWork \ {"releasing"}
  /\ Goto(o, "failed")
  /\ UNCHANGED <<requests, slot, tasks, sdar, crashes>>

Fail(o) ==
  /\ turn[o].pc \in AtWork \ {"releasing"}
  /\ IF turn[o].pc \in InTry THEN Leave(o, "failed") ELSE Goto(o, "failed")
  /\ UNCHANGED <<requests, slot, tasks, sdar, crashes>>

(* The handler is gone, and the random owner it drew will never be drawn   *)
(* again: a lease that it still has becomes that of an owner who is nobody.*)
Rest(o) ==
  /\ turn[o].pc \in Ended
  /\ turn' = [turn EXCEPT ![o] = IdleTurn]
  /\ requests' = [m \in Message |->
       IF requests[m].owner = o THEN [requests[m] EXCEPT !.owner = None]
                                ELSE requests[m]]
  /\ slot' = IF slot.owner = o THEN [slot EXCEPT !.owner = None] ELSE slot
  /\ tasks' = [t \in Task |->
       IF tasks[t].lease.owner = o THEN [tasks[t] EXCEPT !.lease.owner = None]
                                   ELSE tasks[t]]
  /\ UNCHANGED <<sdar, crashes>>

-----------------------------------------------------------------------------
(* A turn is lost without its finally block.                               *)
Die(o) ==
  /\ turn[o].pc \in AtWork
  /\ crashes < MaxCrashes
  /\ crashes' = crashes + 1
  /\ Goto(o, "dead")
  /\ UNCHANGED <<requests, slot, tasks, sdar>>

(* The process dies and starts again: reconcileStartup re-leases expired   *)
(* claims and clears expired submission and interaction leases.            *)
Cleared(lease) == IF lease.live THEN lease ELSE NoLease

Restart ==
  /\ crashes < MaxCrashes
  /\ crashes' = crashes + 1
  /\ turn' = [o \in Turn |->
       IF turn[o].pc \in AtWork THEN [turn[o] EXCEPT !.pc = "dead"] ELSE turn[o]]
  /\ ReclaimExpired
  /\ slot' = Cleared(slot)
  /\ tasks' = [t \in Task |-> [tasks[t] EXCEPT !.lease = Cleared(@)]]
  /\ UNCHANGED sdar

(* A lease runs out. Unless turns stall, no turn at work outlives one:     *)
(* stream and polling budgets are shorter than the lease.                  *)
MayExpire(o) == o \in Turn => (Stalls \/ turn[o].pc \notin AtWork)

RequestLeaseExpires(m) ==
  /\ ExpireClaim(m)
  /\ MayExpire(requests[m].owner)
  /\ UNCHANGED <<slot, tasks, sdar, turn, crashes>>

SlotExpires ==
  /\ slot.live /\ MayExpire(slot.owner)
  /\ slot' = [slot EXCEPT !.live = FALSE]
  /\ UNCHANGED <<requests, tasks, sdar, turn, crashes>>

InteractionLeaseExpires(t) ==
  /\ tasks[t].lease.live /\ MayExpire(tasks[t].lease.owner)
  /\ tasks' = [tasks EXCEPT ![t].lease.live = FALSE]
  /\ UNCHANGED <<requests, slot, sdar, turn, crashes>>

(* Some turn has observed the final state of a bound Task.                 *)
RecordTerminal(t) ==
  /\ t \in Active
  /\ tasks' = [tasks EXCEPT ![t].bound = "terminal"]
  /\ UNCHANGED <<requests, slot, sdar, turn, crashes>>

Work(o) ==
  \/ Claim(o) \/ ClaimSubmissionSlot(o) \/ SdarAccepts(o) \/ ReceiveAnswer(o)
  \/ EnsureBinding(o) \/ CompleteSubmission(o) \/ EndStream(o)
  \/ ClaimInteractionSlot(o) \/ CompleteMutation(o) \/ Release(o) \/ Rest(o)

Next ==
  \/ \E o \in Turn : Work(o) \/ Fail(o) \/ Die(o)
  \/ \E o \in Turn, m \in Message, i \in Intent : Begin(o, m, i)
  \/ \E m \in Message : RequestLeaseExpires(m)
  \/ SlotExpires
  \/ \E t \in Task : InteractionLeaseExpires(t) \/ RecordTerminal(t)
  \/ Restart

Spec == Init /\ [][Next]_vars

(* Turns run on and leases run out; clients send their message again until *)
(* it is answered; SDAR does not always fail at the same point, and Tasks  *)
(* come to an end.                                                         *)
Fairness ==
  /\ \A o \in Turn : WF_vars(Work(o))
  /\ \A m \in Message :
       /\ WF_vars(RequestLeaseExpires(m))
       /\ SF_vars(\E o \in Turn, i \in Intent : Begin(o, m, i))
       /\ SF_vars(\E o \in Turn : turn[o].msg = m /\ Claim(o)
                                    /\ turn'[o].pc = "claimed")
       /\ SF_vars(\E o \in Turn : turn[o].msg = m /\ slot' = LeasedTo(o)
                                    /\ ClaimSubmissionSlot(o))
       /\ SF_vars(\E o \in Turn : turn[o].msg = m /\ SdarAccepts(o))
       /\ SF_vars(\E o \in Turn : turn[o].msg = m /\ ReceiveAnswer(o))
       /\ SF_vars(\E o \in Turn : turn[o].msg = m /\ EnsureBinding(o))
       /\ SF_vars(\E o \in Turn : turn[o].msg = m /\ CompleteSubmission(o))
  /\ WF_vars(SlotExpires)
  /\ \A t \in Task : WF_vars(RecordTerminal(t))

FairSpec == Spec /\ Fairness

-----------------------------------------------------------------------------
(* The chat never holds more active Tasks than configured, although the    *)
(* limit is only looked at when the submission lease is claimed, long      *)
(* before the binding is created.                                          *)
ActiveLimit == Cardinality(Active) <= MaxActive

(* A completed request names a Task that is bound: a replay never ends in  *)
(* "Idempotency replay has no authorized Task binding".                    *)
CompletedTaskIsBound ==
  \A m \in Message :
    requests[m].result \in Task => tasks[requests[m].result].bound # "no"

(* Mutations of one Task are serialized: one turn at a time calls SDAR.    *)
OneMutator ==
  \A o, p \in Turn :
    (/\ turn[o].pc = "mutating" /\ turn[p].pc = "mutating"
     /\ turn[o].task = turn[p].task) => o = p

(* A message is handed to SDAR by one turn at a time, however often the    *)
(* client repeats it.                                                      *)
Calling == {"claimed", "submitting", "binding", "bound", "mutating"}

OneSender ==
  \A o, p \in Turn :
    (/\ turn[o].pc \in Calling /\ turn[p].pc \in Calling
     /\ turn[o].msg = turn[p].msg) => o = p

(* A message whose result is stored is never handed to SDAR again.         *)
NeverSentAgain ==
  [][\A o \in Turn :
       (turn'[o].pc \in {"submitting", "mutating"} /\ turn'[o] # turn[o]) =>
         requests[turn[o].msg].status = "CLAIMED"]_vars

(* A submission or interaction lease is held by a turn inside its try      *)
(* block, or by one that died: no way out of a handler keeps one.          *)
Holder == InTry \cup {"dead"}

LeasesAreReturned ==
  /\ slot.owner # None => turn[slot.owner].pc \in Holder
  /\ \A t \in Task : tasks[t].lease.owner # None =>
       turn[tasks[t].lease.owner].pc \in Holder

(* A client that repeats its message gets it decided, whatever died.       *)
ClaimIsDecided ==
  \A m \in Message :
    requests[m].status = "CLAIMED" ~> requests[m].status = "COMPLETED"

(* While a request is reported as in progress, the turn that claimed it is *)
(* at work on it, unless it was lost or failed: no turn that has given up  *)
(* on purpose makes its client wait for a lease.                           *)
BusyMeansAtWork ==
  \A m \in Message : (requests[m].leased /\ requests[m].owner # None) =>
    turn[requests[m].owner].pc \in AtWork \cup {"failed", "dead"}

(* A retry of a completed mutation is replayed, not turned away.           *)
RetryIsReplayed ==
  \A o \in Turn : turn[o].pc = "unbound" =>
    ~Replays(turn[o].msg, turn[o].intent)
=============================================================================
