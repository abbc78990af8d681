----------------------- MODULE TaskCoordinator_proofs -----------------------
(***************************************************************************)
(* Proofs about TaskCoordinator for any number of messages, Tasks, turns   *)
(* and crashes, and any limit.                                             *)
(*                                                                         *)
(* TypeInv says what a turn has in hand at each point of its handler, and *)
(* that its Task is bound where the code relies on it; it needs nothing    *)
(* about leases. Holds says that a turn which has passed a claim still has *)
(* it: the request it works on, the chat's submission lease, its Task's    *)
(* interaction lease. It needs turns that do not outlive their leases      *)
(* (~Stalls), and from it follow OneSender, NeverSentAgain, OneMutator and *)
(* ActiveLimit. HeldInv says whose the leases are that the rows carry, and  *)
(* gives LeasesAreReturned whether or not turns outlive them.              *)
(***************************************************************************)
EXTENDS TaskCoordinator, FiniteSetTheorems, TLAPS

PC == {"idle"} \cup AtWork \cup Ended

(* What a turn has in hand.                                                *)
Placed(u) ==
  /\ u.pc # "idle" => u.msg \in Message /\ u.intent \in Intent
  /\ u.pc \in {"submitting", "binding", "bound", "streaming"} =>
       u.intent.op = "submit"
  /\ u.pc = "mutating" => u.intent.op # "submit"
  /\ (u.pc # "idle" /\ u.intent.op # "submit") => u.task = u.intent.task
  /\ u.pc \in {"asking", "claimed"} => u.task = u.intent.task
  /\ u.pc = "binding" => u.task \in Task
  /\ u.pc = "releasing" => u.end \in Ended

TypeInv == TypeOK /\ \A o \in Turn : Placed(turn[o])

USE CoordinatorAssumption DEF CoordinatorAssumption

LEMMA IntentFacts ==
  ASSUME NEW i \in Intent
  PROVE  /\ i.op \in Op /\ i.task \in Task \cup {None}
         /\ i.op # "submit" => i.task \in Task
         /\ i.op = "submit" => i.task = None
BY DEF Intent

LEMMA TypeFacts ==
  ASSUME TypeOK
  PROVE  /\ requests \in [Message -> Request]
         /\ \A m \in Message : WellFormed(requests[m])
         /\ slot \in Lease
         /\ tasks \in [Task -> TaskRow]
         /\ sdar \in [Message -> Task \cup {Reply, None}]
         /\ turn \in [Turn -> TurnState]
         /\ \A o \in Turn : turn[o] \in TurnState
         /\ crashes \in 0..MaxCrashes
BY DEF TypeOK

LEMMA InitTypeInv == Init => TypeInv
<1> SUFFICES ASSUME Init PROVE TypeInv
  OBVIOUS
<1>1. requests \in [Message -> Request] /\ \A m \in Message : WellFormed(requests[m])
  BY DEF Init, NoRequest, Request, RequestStatus, WellFormed
<1>2. slot \in Lease /\ tasks \in [Task -> TaskRow] /\ crashes \in 0..MaxCrashes
  BY DEF Init, NoLease, Lease, TaskRow
<1>3. sdar \in [Message -> Task \cup {Reply, None}]
  BY DEF Init
<1>4. IdleTurn \in TurnState /\ Placed(IdleTurn)
  BY DEF IdleTurn, TurnState, Placed
<1>5. turn \in [Turn -> TurnState] /\ \A o \in Turn : Placed(turn[o])
  BY <1>4 DEF Init
<1> QED BY <1>1, <1>2, <1>3, <1>5 DEF TypeInv, TypeOK

-----------------------------------------------------------------------------
(* How one turn moves.                                                     *)
LEMMA Moves ==
  ASSUME TypeOK, NEW o \in Turn, NEW v \in TurnState,
         turn' = [turn EXCEPT ![o] = v]
  PROVE  /\ turn' \in [Turn -> TurnState]
         /\ turn'[o] = v
         /\ \A p \in Turn : p # o => turn'[p] = turn[p]
BY TypeFacts

LEMMA GotoFacts ==
  ASSUME TypeOK, NEW o \in Turn, NEW pc \in PC, Goto(o, pc)
  PROVE  /\ turn' \in [Turn -> TurnState]
         /\ turn'[o].pc = pc /\ turn'[o].msg = turn[o].msg
         /\ turn'[o].intent = turn[o].intent /\ turn'[o].task = turn[o].task
         /\ turn'[o].end = turn[o].end
         /\ \A p \in Turn : p # o => turn'[p] = turn[p]
<1> DEFINE v == [turn[o] EXCEPT !.pc = pc]
<1>1. turn[o] \in TurnState
  BY TypeFacts
<1>2. /\ v \in TurnState /\ v.pc = pc /\ v.msg = turn[o].msg
      /\ v.intent = turn[o].intent /\ v.task = turn[o].task /\ v.end = turn[o].end
  BY <1>1 DEF TurnState, PC
<1>3. turn' = [turn EXCEPT ![o] = v]
  BY DEF Goto
<1> HIDE DEF v
<1> QED BY <1>2, <1>3, Moves

LEMMA LeaveFacts ==
  ASSUME TypeOK, NEW o \in Turn, NEW how \in Ended, Leave(o, how)
  PROVE  /\ turn' \in [Turn -> TurnState]
         /\ turn'[o].pc = "releasing" /\ turn'[o].msg = turn[o].msg
         /\ turn'[o].intent = turn[o].intent /\ turn'[o].task = turn[o].task
         /\ turn'[o].end = how
         /\ \A p \in Turn : p # o => turn'[p] = turn[p]
<1> DEFINE v == [turn[o] EXCEPT !.pc = "releasing", !.end = how]
<1>1. turn[o] \in TurnState
  BY TypeFacts
<1>2. /\ v \in TurnState /\ v.pc = "releasing" /\ v.msg = turn[o].msg
      /\ v.intent = turn[o].intent /\ v.task = turn[o].task /\ v.end = how
  BY <1>1 DEF TurnState, AtWork, InTry
<1>3. turn' = [turn EXCEPT ![o] = v]
  BY DEF Leave
<1> HIDE DEF v
<1> QED BY <1>2, <1>3, Moves

(* What a statement on interaction_request leaves behind.                  *)
LEMMA RowReplaced ==
  ASSUME TypeOK, NEW m \in Message, NEW row \in Request, WellFormed(row),
         requests' = [requests EXCEPT ![m] = row]
  PROVE  /\ requests' \in [Message -> Request]
         /\ \A n \in Message : WellFormed(requests'[n])
         /\ requests'[m] = row
         /\ \A n \in Message : n # m => requests'[n] = requests[n]
BY TypeFacts

LEMMA ClaimFacts ==
  ASSUME TypeOK, NEW m \in Message, NEW i \in Intent, NEW o \in Turn,
         InsertClaim(m, i, o) \/ TakeOver(m, i, o)
  PROVE  /\ requests' \in [Message -> Request]
         /\ \A n \in Message : WellFormed(requests'[n])
         /\ requests'[m].status = "CLAIMED" /\ requests'[m].hash = i
         /\ requests'[m].owner = o /\ requests'[m].leased
         /\ requests'[m].result = None
         /\ ~(requests[m].status = "CLAIMED" /\ requests[m].leased)
         /\ \A n \in Message : n # m => requests'[n] = requests[n]
<1>1. requests[m] \in Request /\ WellFormed(requests[m])
  BY TypeFacts
<1>2. Claimed(i, o) \in Request /\ WellFormed(Claimed(i, o))
  BY DEF Claimed, Request, RequestStatus, WellFormed
<1>3. CASE InsertClaim(m, i, o)
  <2>1. requests' = [requests EXCEPT ![m] = Claimed(i, o)]
    BY <1>3 DEF InsertClaim
  <2>2. /\ requests'[m] = Claimed(i, o)
        /\ requests' \in [Message -> Request]
        /\ \A n \in Message : WellFormed(requests'[n])
        /\ \A n \in Message : n # m => requests'[n] = requests[n]
    BY <1>2, <2>1, RowReplaced
  <2> QED BY <1>3, <2>2 DEF InsertClaim, Claimed
<1>4. CASE TakeOver(m, i, o)
  <2> DEFINE row == [requests[m] EXCEPT !.owner = o, !.leased = TRUE]
  <2>1. requests' = [requests EXCEPT ![m] = row]
    BY <1>4, TypeFacts DEF TakeOver
  <2>2. requests[m].status = "CLAIMED" /\ requests[m].hash = i /\ ~requests[m].leased
    BY <1>4 DEF TakeOver, Expired
  <2>3. /\ row \in Request /\ WellFormed(row)
        /\ row.status = "CLAIMED" /\ row.hash = i /\ row.owner = o /\ row.leased
        /\ row.result = None
    BY <1>1, <2>2 DEF Request, WellFormed
  <2> HIDE DEF row
  <2> QED BY <2>1, <2>2, <2>3, RowReplaced
<1> QED BY <1>3, <1>4

LEMMA CompleteFacts ==
  ASSUME TypeOK, NEW m \in Message, NEW i \in Intent, NEW o \in Turn,
         NEW r \in Task \cup {Reply}, CompleteClaim(m, i, o, r)
  PROVE  /\ requests' \in [Message -> Request]
         /\ \A n \in Message : WellFormed(requests'[n])
         /\ requests'[m].result = r /\ requests'[m].status = "COMPLETED"
         /\ requests[m].owner = o
         /\ \A n \in Message : n # m => requests'[n] = requests[n]
<1> DEFINE row == CompletedRow(requests[m], r)
<1>1. requests[m] \in Request /\ WellFormed(requests[m])
  BY TypeFacts
<1>2. requests[m].status = "CLAIMED" /\ requests[m].hash = i /\ requests[m].owner = o
  BY DEF CompleteClaim, OwnsClaim
<1>3. requests' = [requests EXCEPT ![m] = row]
  BY DEF CompleteClaim
<1>4. /\ row \in Request /\ row.result = r /\ row.status = "COMPLETED"
      /\ row.owner = None /\ ~row.leased /\ row.hash = i
  BY <1>1, <1>2 DEF CompletedRow, Request, RequestStatus
<1>5. WellFormed(row)
  BY <1>4 DEF WellFormed
<1> HIDE DEF row
<1> QED BY <1>2, <1>3, <1>4, <1>5, RowReplaced

LEMMA AbandonFacts ==
  ASSUME TypeOK, NEW m \in Message, NEW i \in Intent, NEW o \in Turn,
         AbandonClaim(m, i, o)
  PROVE  /\ requests' \in [Message -> Request]
         /\ \A n \in Message : WellFormed(requests'[n])
         /\ \A n \in Message :
              \/ requests'[n] = requests[n]
              \/ requests[n].owner = o /\ requests'[n] = NoRequest
<1>1. CASE OwnsClaim(m, i, o)
  <2>1. requests' = [requests EXCEPT ![m] = NoRequest] /\ requests[m].owner = o
    BY <1>1 DEF AbandonClaim, OwnsClaim
  <2>2. NoRequest \in Request /\ WellFormed(NoRequest)
    BY DEF NoRequest, Request, RequestStatus, WellFormed
  <2> QED BY <2>1, <2>2, RowReplaced
<1>2. CASE ~OwnsClaim(m, i, o)
  BY <1>2, TypeFacts DEF AbandonClaim
<1> QED BY <1>1, <1>2

-----------------------------------------------------------------------------
(* One lemma per operation: TypeInv is kept.                               *)
LEMMA OneMoves ==
  ASSUME TypeInv, NEW o \in Turn, turn' \in [Turn -> TurnState],
         \A p \in Turn : p # o => turn'[p] = turn[p], Placed(turn'[o]),
         requests' \in [Message -> Request],
         \A m \in Message : WellFormed(requests'[m]),
         slot' \in Lease, tasks' \in [Task -> TaskRow],
         sdar' \in [Message -> Task \cup {Reply, None}],
         crashes' \in 0..MaxCrashes
  PROVE  TypeInv'
<1>1. ASSUME NEW p \in Turn PROVE Placed(turn'[p])
  BY DEF TypeInv
<1>2. TypeOK'
  BY DEF TypeOK
<1> QED BY <1>1, <1>2 DEF TypeInv, Placed

LEMMA InvFacts ==
  ASSUME TypeInv, NEW o \in Turn
  PROVE  TypeOK /\ turn[o] \in TurnState /\ Placed(turn[o])
BY TypeFacts DEF TypeInv

LEMMA BeginTypeInv ==
  ASSUME TypeInv, NEW o \in Turn, NEW m \in Message, NEW i \in Intent,
         Begin(o, m, i)
  PROVE  TypeInv'
<1>1. PICK pc \in {"asking", "unbound"} :
        turn' = [turn EXCEPT ![o] =
          [pc |-> pc, msg |-> m, intent |-> i, task |-> i.task, end |-> None]]
  BY DEF Begin
<1> DEFINE v == [pc |-> pc, msg |-> m, intent |-> i, task |-> i.task, end |-> None]
<1>3. pc \in PC /\ pc \notin {"idle", "releasing", "binding", "mutating",
                              "submitting", "bound", "streaming"}
  BY DEF PC, AtWork, Ended
<1>4. v \in TurnState /\ Placed(v)
  BY <1>3, IntentFacts DEF TurnState, Placed, PC
<1>5. turn' = [turn EXCEPT ![o] = v]
  BY <1>1
<1> HIDE DEF v
<1>6. UNCHANGED <<requests, slot, tasks, sdar, crashes>>
  BY DEF Begin
<1> QED BY <1>4, <1>5, <1>6, OneMoves, Moves, TypeFacts, InvFacts

LEMMA ClaimTypeInv ==
  ASSUME TypeInv, NEW o \in Turn, Claim(o) PROVE TypeInv'
<1> DEFINE m == turn[o].msg
           i == turn[o].intent
<1>1. turn[o].pc = "asking" /\ m \in Message /\ i \in Intent
      /\ turn[o].task = i.task
  BY InvFacts DEF Claim, Placed
<1>2. UNCHANGED <<slot, tasks, sdar, crashes>>
  BY DEF Claim
<1>3. CASE (InsertClaim(m, i, o) \/ TakeOver(m, i, o)) /\ Goto(o, "claimed")
  <2>1. Placed(turn'[o]) /\ turn' \in [Turn -> TurnState]
        /\ \A p \in Turn : p # o => turn'[p] = turn[p]
    BY <1>1, <1>3, GotoFacts, InvFacts DEF Placed, PC, AtWork
  <2>2. requests' \in [Message -> Request] /\ \A n \in Message : WellFormed(requests'[n])
    BY <1>1, <1>3, ClaimFacts, InvFacts
  <2> QED BY <1>2, <2>1, <2>2, OneMoves, TypeFacts, InvFacts
<1>4. ASSUME NEW how \in {"conflict", "busy", "told"}, Goto(o, how),
             requests' = requests
      PROVE  TypeInv'
  <2>1. how \in PC
    BY DEF PC, Ended
  <2>2. Placed(turn'[o]) /\ turn' \in [Turn -> TurnState]
        /\ \A p \in Turn : p # o => turn'[p] = turn[p]
    BY <1>1, <1>4, <2>1, GotoFacts, InvFacts DEF Placed
  <2> QED BY <1>2, <1>4, <2>2, OneMoves, TypeFacts, InvFacts
<1> QED BY <1>3, <1>4 DEF Claim

LEMMA ClaimSubmissionSlotTypeInv ==
  ASSUME TypeInv, NEW o \in Turn, ClaimSubmissionSlot(o) PROVE TypeInv'
<1>1. turn[o].pc = "claimed" /\ turn[o].intent.op = "submit" /\ Placed(turn[o])
  BY InvFacts DEF ClaimSubmissionSlot, Submits
<1>2. UNCHANGED <<requests, tasks, sdar, crashes>>
  BY DEF ClaimSubmissionSlot
<1>3. \/ Goto(o, "submitting") /\ slot' = LeasedTo(o)
      \/ Goto(o, "refused") /\ slot' = slot
  BY DEF ClaimSubmissionSlot
<1>4. slot' \in Lease
  <2>1. LeasedTo(o) \in Lease
    BY DEF LeasedTo, Lease
  <2> QED BY <1>3, <2>1, TypeFacts, InvFacts
<1>5. {"submitting", "refused"} \subseteq PC
  BY DEF PC, AtWork, InTry, Ended
<1>6. Placed(turn'[o]) /\ turn' \in [Turn -> TurnState]
      /\ \A p \in Turn : p # o => turn'[p] = turn[p]
  BY <1>1, <1>3, <1>5, GotoFacts, InvFacts DEF Placed
<1> QED BY <1>2, <1>4, <1>6, OneMoves, TypeFacts, InvFacts

LEMMA SdarAcceptsTypeInv ==
  ASSUME TypeInv, NEW o \in Turn, SdarAccepts(o) PROVE TypeInv'
<1>1. sdar' \in [Message -> Task \cup {Reply, None}]
  BY TypeFacts, InvFacts DEF SdarAccepts
<1>2. UNCHANGED <<requests, slot, tasks, turn, crashes>>
  BY DEF SdarAccepts
<1> QED BY <1>1, <1>2, OneMoves, TypeFacts, InvFacts

LEMMA ReceiveAnswerFacts ==
  ASSUME TypeInv, NEW o \in Turn, ReceiveAnswer(o)
  PROVE  /\ TypeInv'
         /\ turn[o].pc = "submitting"
         /\ turn'[o].pc \in {"binding", "bound"}
         /\ turn'[o].msg = turn[o].msg /\ turn'[o].intent = turn[o].intent
         /\ turn'[o].pc = "bound" => turn'[o].task = None
         /\ \A p \in Turn : p # o => turn'[p] = turn[p]
<1> DEFINE a == sdar[turn[o].msg]
           pc == IF a \in Task THEN "binding" ELSE "bound"
           t == IF a \in Task THEN a ELSE None
           v == [turn[o] EXCEPT !.pc = pc, !.task = t]
<1>1. turn[o].pc = "submitting" /\ turn' = [turn EXCEPT ![o] = v]
      /\ UNCHANGED <<requests, slot, tasks, sdar, crashes>>
  BY DEF ReceiveAnswer
<1>2. /\ pc \in {"binding", "bound"} /\ t \in Task \cup {None}
      /\ pc = "binding" => t \in Task
      /\ pc = "bound" => t = None
  OBVIOUS
<1>3. turn[o] \in TurnState /\ Placed(turn[o])
  BY InvFacts
<1> HIDE DEF a, pc, t
<1>4. /\ v \in TurnState /\ v.pc = pc /\ v.task = t /\ v.msg = turn[o].msg
      /\ v.intent = turn[o].intent
  BY <1>2, <1>3 DEF TurnState, AtWork, InTry
<1>5. Placed(v)
  BY <1>1, <1>2, <1>3, <1>4 DEF Placed
<1> HIDE DEF v
<1>6. TypeInv'
  BY <1>1, <1>4, <1>5, OneMoves, Moves, TypeFacts, InvFacts
<1> QED BY <1>1, <1>2, <1>4, <1>6, Moves, InvFacts

LEMMA BindFacts ==
  ASSUME tasks \in [Task -> TaskRow], NEW t \in Task, NEW b \in {"active", "ended"},
         tasks' = IF tasks[t].bound = "no"
                  THEN [tasks EXCEPT ![t].bound = b] ELSE tasks
  PROVE  /\ tasks' \in [Task -> TaskRow]
         /\ tasks'[t].bound # "no"
         /\ \A s \in Task : tasks'[s].lease = tasks[s].lease
         /\ \A s \in Task : s # t => tasks'[s] = tasks[s]
         /\ tasks[t].bound # "no" => tasks' = tasks
BY DEF TaskRow

LEMMA EnsureBindingFacts ==
  ASSUME TypeInv, NEW o \in Turn, EnsureBinding(o)
  PROVE  /\ TypeInv'
         /\ turn[o].pc = "binding" /\ turn[o].task \in Task
         /\ turn'[o].pc = "bound" /\ turn'[o].task = turn[o].task
         /\ turn'[o].msg = turn[o].msg /\ turn'[o].intent = turn[o].intent
         /\ \A p \in Turn : p # o => turn'[p] = turn[p]
         /\ tasks'[turn[o].task].bound # "no"
         /\ \A s \in Task : tasks'[s].lease = tasks[s].lease
         /\ \A s \in Task : s # turn[o].task => tasks'[s] = tasks[s]
<1>1. turn[o].pc = "binding" /\ turn[o].task \in Task /\ Placed(turn[o])
  BY InvFacts DEF EnsureBinding, Placed
<1>2. UNCHANGED <<requests, slot, sdar, crashes>> /\ Goto(o, "bound")
  BY DEF EnsureBinding
<1>3. /\ tasks' \in [Task -> TaskRow]
      /\ tasks'[turn[o].task].bound # "no"
      /\ \A s \in Task : tasks'[s].lease = tasks[s].lease
      /\ \A s \in Task : s # turn[o].task => tasks'[s] = tasks[s]
  BY <1>1, BindFacts, TypeFacts, InvFacts DEF EnsureBinding
<1>4. /\ turn'[o].pc = "bound" /\ turn'[o].task = turn[o].task
      /\ turn'[o].msg = turn[o].msg /\ turn'[o].intent = turn[o].intent
      /\ turn' \in [Turn -> TurnState]
      /\ \A p \in Turn : p # o => turn'[p] = turn[p]
  BY <1>2, GotoFacts, InvFacts DEF PC, AtWork, InTry
<1>5. Placed(turn'[o])
  BY <1>1, <1>4 DEF Placed
<1> QED BY <1>1, <1>2, <1>3, <1>4, <1>5, OneMoves, TypeFacts, InvFacts

LEMMA CompleteSubmissionFacts ==
  ASSUME TypeInv, NEW o \in Turn, CompleteSubmission(o)
  PROVE  /\ TypeInv'
         /\ turn[o].pc = "bound" /\ turn[o].msg \in Message
         /\ turn'[o].pc \in {"streaming", "releasing"}
         /\ turn'[o].msg = turn[o].msg /\ turn'[o].intent = turn[o].intent
         /\ turn'[o].task = turn[o].task
         /\ \A p \in Turn : p # o => turn'[p] = turn[p]
         /\ \A n \in Message :
              \/ requests'[n] = requests[n]
              \/ /\ n = turn[o].msg /\ requests[n].owner = o
                 /\ requests'[n].result \in {turn[o].task, Reply}
<1> DEFINE m == turn[o].msg
           i == turn[o].intent
           t == turn[o].task
<1>1. /\ turn[o].pc = "bound" /\ m \in Message /\ i \in Intent
      /\ i.op = "submit" /\ t \in Task \cup {None} /\ Placed(turn[o])
  BY InvFacts DEF CompleteSubmission, Placed, TurnState
<1>2. UNCHANGED <<slot, tasks, sdar, crashes>>
  BY DEF CompleteSubmission
<1> HIDE DEF m, i, t
<1>3. \/ \E r \in Task \cup {Reply} : CompleteClaim(m, i, o, r) /\ r \in {t, Reply}
      \/ requests' = requests
  BY <1>1 DEF CompleteSubmission, m, i, t
<1>4. \/ Goto(o, "streaming")
      \/ \E how \in {"told", "failed"} : Leave(o, how)
  BY DEF CompleteSubmission
<1>5. "streaming" \in PC /\ {"told", "failed"} \subseteq Ended
  BY DEF PC, AtWork, InTry, Ended
<1>6. /\ turn' \in [Turn -> TurnState]
      /\ turn'[o].pc \in {"streaming", "releasing"}
      /\ turn'[o].pc = "releasing" => turn'[o].end \in Ended
      /\ turn'[o].msg = m /\ turn'[o].intent = i /\ turn'[o].task = t
      /\ \A p \in Turn : p # o => turn'[p] = turn[p]
  <2>1. CASE Goto(o, "streaming")
    BY <1>5, <2>1, GotoFacts, InvFacts DEF m, i, t
  <2>2. ASSUME NEW how \in {"told", "failed"}, Leave(o, how)
        PROVE  /\ turn' \in [Turn -> TurnState]
               /\ turn'[o].pc = "releasing" /\ turn'[o].end \in Ended
               /\ turn'[o].msg = m /\ turn'[o].intent = i /\ turn'[o].task = t
               /\ \A p \in Turn : p # o => turn'[p] = turn[p]
    BY <1>5, <2>2, LeaveFacts, InvFacts DEF m, i, t
  <2> QED BY <1>4, <2>1, <2>2
<1>7. Placed(turn'[o])
  BY <1>1, <1>6 DEF Placed
<1>8. /\ requests' \in [Message -> Request]
      /\ \A n \in Message : WellFormed(requests'[n])
      /\ \A n \in Message :
           \/ requests'[n] = requests[n]
           \/ /\ n = m /\ requests[n].owner = o
              /\ requests'[n].result \in {t, Reply}
  <2>1. CASE requests' = requests
    BY <2>1, TypeFacts, InvFacts
  <2>2. ASSUME NEW r \in Task \cup {Reply}, CompleteClaim(m, i, o, r), r \in {t, Reply}
        PROVE  /\ requests' \in [Message -> Request]
               /\ \A n \in Message : WellFormed(requests'[n])
               /\ \A n \in Message :
                    \/ requests'[n] = requests[n]
                    \/ /\ n = m /\ requests[n].owner = o
                       /\ requests'[n].result \in {t, Reply}
    <3>1. TypeOK
      BY InvFacts
    <3> QED BY <1>1, <2>2, <3>1, CompleteFacts
  <2> QED BY <1>3, <2>1, <2>2
<1>9. TypeInv'
  BY <1>2, <1>6, <1>7, <1>8, OneMoves, TypeFacts, InvFacts
<1> QED BY <1>1, <1>6, <1>8, <1>9 DEF m, i, t

LEMMA CompleteMutationFacts ==
  ASSUME TypeInv, NEW o \in Turn, CompleteMutation(o)
  PROVE  /\ TypeInv'
         /\ turn[o].pc = "mutating" /\ turn[o].msg \in Message
         /\ turn[o].task \in Task
         /\ turn'[o].pc = "releasing"
         /\ turn'[o].msg = turn[o].msg /\ turn'[o].intent = turn[o].intent
         /\ turn'[o].task = turn[o].task
         /\ \A p \in Turn : p # o => turn'[p] = turn[p]
         /\ \A n \in Message :
              \/ requests'[n] = requests[n]
              \/ /\ n = turn[o].msg /\ requests[n].owner = o
                 /\ requests'[n].result \in {turn[o].task, Reply}
<1> DEFINE m == turn[o].msg
           i == turn[o].intent
           t == turn[o].task
<1>1. /\ turn[o].pc = "mutating" /\ m \in Message /\ i \in Intent
      /\ i.op # "submit" /\ t = i.task /\ Placed(turn[o])
  BY InvFacts DEF CompleteMutation, Placed
<1>2. t \in Task
  BY <1>1, IntentFacts
<1>3. UNCHANGED <<slot, tasks, sdar, crashes>>
  BY DEF CompleteMutation
<1>4. {"told", "failed"} \subseteq Ended
  BY DEF Ended
<1>5. \/ \E r \in Task \cup {Reply} : CompleteClaim(m, i, o, r) /\ r \in {t, Reply}
      \/ requests' = requests
  BY <1>2 DEF CompleteMutation
<1>6. \E how \in {"told", "failed"} : Leave(o, how)
  BY DEF CompleteMutation
<1> HIDE DEF m, i, t
<1>7. /\ turn' \in [Turn -> TurnState]
      /\ turn'[o].pc = "releasing" /\ turn'[o].end \in Ended
      /\ turn'[o].msg = m /\ turn'[o].intent = i /\ turn'[o].task = t
      /\ \A p \in Turn : p # o => turn'[p] = turn[p]
  BY <1>4, <1>6, LeaveFacts, InvFacts DEF m, i, t
<1>8. Placed(turn'[o])
  BY <1>1, <1>7 DEF Placed
<1>9. /\ requests' \in [Message -> Request]
      /\ \A n \in Message : WellFormed(requests'[n])
      /\ \A n \in Message :
           \/ requests'[n] = requests[n]
           \/ /\ n = m /\ requests[n].owner = o
              /\ requests'[n].result \in {t, Reply}
  <2>1. CASE requests' = requests
    BY <2>1, TypeFacts, InvFacts
  <2>2. ASSUME NEW r \in Task \cup {Reply}, CompleteClaim(m, i, o, r), r \in {t, Reply}
        PROVE  /\ requests' \in [Message -> Request]
               /\ \A n \in Message : WellFormed(requests'[n])
               /\ \A n \in Message :
                    \/ requests'[n] = requests[n]
                    \/ /\ n = m /\ requests[n].owner = o
                       /\ requests'[n].result \in {t, Reply}
    <3>1. TypeOK
      BY InvFacts
    <3> QED BY <1>1, <2>2, <3>1, CompleteFacts
  <2> QED BY <1>5, <2>1, <2>2
<1>10. TypeInv'
  BY <1>3, <1>7, <1>8, <1>9, OneMoves, TypeFacts, InvFacts
<1> QED BY <1>1, <1>2, <1>7, <1>9, <1>10 DEF m, i, t

LEMMA EndStreamFacts ==
  ASSUME TypeInv, NEW o \in Turn, EndStream(o)
  PROVE  /\ TypeInv'
         /\ turn[o].pc = "streaming" /\ turn'[o].pc = "releasing"
         /\ turn'[o].task = turn[o].task
         /\ \A p \in Turn : p # o => turn'[p] = turn[p]
<1>1. turn[o].pc = "streaming" /\ Placed(turn[o]) /\ Leave(o, "told")
      /\ UNCHANGED <<requests, slot, tasks, sdar, crashes>>
  BY InvFacts DEF EndStream
<1>2. "told" \in Ended
  BY DEF Ended
<1>3. /\ turn' \in [Turn -> TurnState]
      /\ turn'[o].pc = "releasing" /\ turn'[o].end \in Ended
      /\ turn'[o].msg = turn[o].msg /\ turn'[o].intent = turn[o].intent
      /\ turn'[o].task = turn[o].task
      /\ \A p \in Turn : p # o => turn'[p] = turn[p]
  BY <1>1, <1>2, LeaveFacts, InvFacts
<1>4. Placed(turn'[o])
  BY <1>1, <1>3 DEF Placed
<1> QED BY <1>1, <1>3, <1>4, OneMoves, TypeFacts, InvFacts

LEMMA LeaseFacts ==
  ASSUME tasks \in [Task -> TaskRow], NEW t \in Task, NEW l \in Lease,
         tasks' = [tasks EXCEPT ![t].lease = l]
  PROVE  /\ tasks' \in [Task -> TaskRow]
         /\ tasks'[t].lease = l
         /\ \A s \in Task : tasks'[s].bound = tasks[s].bound
         /\ \A s \in Task : s # t => tasks'[s] = tasks[s]
BY DEF TaskRow

LEMMA LeaseTypes ==
  ASSUME NEW o \in Turn
  PROVE  /\ LeasedTo(o) \in Lease /\ NoLease \in Lease
         /\ LeasedTo(o).owner = o /\ LeasedTo(o).live
         /\ NoLease.owner = None /\ ~NoLease.live
BY DEF LeasedTo, NoLease, Lease

LEMMA ClaimInteractionSlotFacts ==
  ASSUME TypeInv, NEW o \in Turn, ClaimInteractionSlot(o)
  PROVE  /\ TypeInv'
         /\ turn[o].pc = "claimed" /\ turn[o].task \in Task
         /\ turn'[o].pc \in {"mutating", "refused"}
         /\ turn'[o].msg = turn[o].msg /\ turn'[o].intent = turn[o].intent
         /\ turn'[o].task = turn[o].task
         /\ \A p \in Turn : p # o => turn'[p] = turn[p]
         /\ turn'[o].pc = "mutating" =>
              /\ ~tasks[turn[o].task].lease.live
              /\ tasks'[turn[o].task].lease = LeasedTo(o)
              /\ requests' = requests
         /\ \A s \in Task : /\ tasks'[s].bound = tasks[s].bound
                            /\ tasks[s].lease.live => tasks'[s] = tasks[s]
         /\ \A n \in Message :
              \/ requests'[n] = requests[n]
              \/ requests[n].owner = o /\ requests'[n] = NoRequest
<1> DEFINE t == turn[o].task
<1>1. /\ turn[o].pc = "claimed" /\ turn[o].msg \in Message /\ turn[o].intent \in Intent
      /\ turn[o].intent.op # "submit" /\ t = turn[o].intent.task
      /\ Placed(turn[o])
  BY InvFacts DEF ClaimInteractionSlot, Placed, Submits
<1>2. t \in Task
  BY <1>1, IntentFacts
<1>3. UNCHANGED <<slot, sdar, crashes>>
  BY DEF ClaimInteractionSlot
<1>4. {"mutating", "refused"} \subseteq PC
  BY DEF PC, AtWork, InTry, Ended
<1>5. CASE LeaseFree(tasks[t].lease)
  <2>1. /\ tasks' = [tasks EXCEPT ![t].lease = LeasedTo(o)]
        /\ Goto(o, "mutating") /\ requests' = requests
    BY <1>5 DEF ClaimInteractionSlot
  <2>2. ~tasks[t].lease.live
    BY <1>5 DEF LeaseFree
  <2> HIDE DEF t
  <2>3. /\ tasks' \in [Task -> TaskRow]
        /\ tasks'[t].lease = LeasedTo(o)
        /\ \A s \in Task : tasks'[s].bound = tasks[s].bound
        /\ \A s \in Task : s # t => tasks'[s] = tasks[s]
    BY <1>2, <2>1, LeaseFacts, LeaseTypes, TypeFacts, InvFacts
  <2>4. /\ turn' \in [Turn -> TurnState] /\ turn'[o].pc = "mutating"
        /\ turn'[o].msg = turn[o].msg /\ turn'[o].intent = turn[o].intent
        /\ turn'[o].task = turn[o].task
        /\ \A p \in Turn : p # o => turn'[p] = turn[p]
    BY <1>4, <2>1, GotoFacts, InvFacts
  <2>5. Placed(turn'[o])
    BY <1>1, <2>4 DEF Placed, t
  <2>6. TypeInv'
    BY <1>3, <2>1, <2>3, <2>4, <2>5, OneMoves, TypeFacts, InvFacts
  <2> QED BY <1>1, <1>2, <2>1, <2>2, <2>3, <2>4, <2>6 DEF t
<1>6. CASE ~LeaseFree(tasks[t].lease)
  <2>1. /\ AbandonClaim(turn[o].msg, turn[o].intent, o)
        /\ Goto(o, "refused") /\ tasks' = tasks
    BY <1>6 DEF ClaimInteractionSlot
  <2>2. /\ requests' \in [Message -> Request]
        /\ \A n \in Message : WellFormed(requests'[n])
        /\ \A n \in Message :
             \/ requests'[n] = requests[n]
             \/ requests[n].owner = o /\ requests'[n] = NoRequest
    BY <1>1, <2>1, AbandonFacts, InvFacts
  <2>3. /\ turn' \in [Turn -> TurnState] /\ turn'[o].pc = "refused"
        /\ turn'[o].msg = turn[o].msg /\ turn'[o].intent = turn[o].intent
        /\ turn'[o].task = turn[o].task
        /\ \A p \in Turn : p # o => turn'[p] = turn[p]
    BY <1>4, <2>1, GotoFacts, InvFacts
  <2>4. Placed(turn'[o])
    BY <1>1, <2>3 DEF Placed
  <2>5. TypeInv'
    BY <1>3, <2>1, <2>2, <2>3, <2>4, OneMoves, TypeFacts, InvFacts
  <2> QED BY <1>1, <1>2, <2>1, <2>2, <2>3, <2>5
<1> QED BY <1>5, <1>6

LEMMA ReleaseFacts ==
  ASSUME TypeInv, NEW o \in Turn, Release(o)
  PROVE  /\ TypeInv'
         /\ turn[o].pc = "releasing" /\ turn'[o].pc \in Ended
         /\ \A p \in Turn : p # o => turn'[p] = turn[p]
         /\ slot' = slot \/ slot.owner = o
         /\ \A s \in Task : /\ tasks'[s].bound = tasks[s].bound
                            /\ tasks'[s] = tasks[s] \/ tasks[s].lease.owner = o
<1> DEFINE t == turn[o].task
<1>1. /\ turn[o].pc = "releasing" /\ turn[o].intent \in Intent /\ turn[o].msg \in Message
      /\ turn[o].end \in Ended /\ Placed(turn[o])
      /\ turn[o].intent.op # "submit" => t = turn[o].intent.task
  BY InvFacts DEF Release, Placed
<1>2. turn[o].intent.op # "submit" => t \in Task
  BY <1>1, IntentFacts
<1>3. UNCHANGED <<requests, sdar, crashes>> /\ Goto(o, turn[o].end)
  BY DEF Release
<1>4. /\ slot' \in Lease
      /\ slot' = slot \/ slot.owner = o
  BY LeaseTypes, TypeFacts, InvFacts DEF Release
<1>5. /\ tasks' \in [Task -> TaskRow]
      /\ \A s \in Task : /\ tasks'[s].bound = tasks[s].bound
                         /\ tasks'[s] = tasks[s] \/ tasks[s].lease.owner = o
  <2>1. CASE tasks' = tasks
    BY <2>1, TypeFacts, InvFacts
  <2>2. CASE /\ turn[o].intent.op # "submit" /\ tasks[t].lease.owner = o
             /\ tasks' = [tasks EXCEPT ![t].lease = NoLease]
    <3> HIDE DEF t
    <3>1. t \in Task /\ tasks \in [Task -> TaskRow]
      BY <1>2, <2>2, TypeFacts, InvFacts
    <3> QED BY <2>2, <3>1, LeaseFacts, LeaseTypes
  <2> QED BY <2>1, <2>2 DEF Release, Submits
<1>6. /\ turn' \in [Turn -> TurnState] /\ turn'[o].pc \in Ended
      /\ turn'[o].msg = turn[o].msg /\ turn'[o].intent = turn[o].intent
      /\ turn'[o].task = turn[o].task
      /\ \A p \in Turn : p # o => turn'[p] = turn[p]
  <2>1. turn[o].end \in PC
    BY <1>1 DEF PC
  <2> QED BY <1>1, <1>3, <2>1, GotoFacts, InvFacts
<1>7. Placed(turn'[o])
  BY <1>1, <1>6 DEF Placed, Ended
<1> QED BY <1>1, <1>3, <1>4, <1>5, <1>6, <1>7, OneMoves, TypeFacts, InvFacts

LEMMA FailFacts ==
  ASSUME TypeInv, NEW o \in Turn, Fail(o) \/ Die(o)
  PROVE  /\ TypeInv'
         /\ turn[o].pc \in AtWork
         /\ turn'[o].pc \in Ended \cup {"releasing"}
         /\ \A p \in Turn : p # o => turn'[p] = turn[p]
         /\ UNCHANGED <<requests, slot, tasks, sdar>>
<1>1. /\ turn[o].pc \in AtWork /\ turn[o].pc # "idle" /\ Placed(turn[o])
      /\ UNCHANGED <<requests, slot, tasks, sdar>>
      /\ crashes' \in 0..MaxCrashes
  BY TypeFacts, InvFacts DEF Fail, Die, AtWork, InTry
<1>2. \/ Leave(o, "failed") \/ Goto(o, "failed") \/ Goto(o, "dead")
  BY DEF Fail, Die
<1>3. {"failed", "dead"} \subseteq PC \cap Ended
  BY DEF PC, Ended
<1>4. /\ turn' \in [Turn -> TurnState]
      /\ turn'[o].pc \in {"failed", "dead", "releasing"}
      /\ turn'[o].pc = "releasing" => turn'[o].end \in Ended
      /\ turn'[o].msg = turn[o].msg /\ turn'[o].intent = turn[o].intent
      /\ turn'[o].task = turn[o].task
      /\ \A p \in Turn : p # o => turn'[p] = turn[p]
  <2>1. CASE Leave(o, "failed")
    BY <1>3, <2>1, LeaveFacts, InvFacts
  <2>2. CASE Goto(o, "failed")
    BY <1>3, <2>2, GotoFacts, InvFacts
  <2>3. CASE Goto(o, "dead")
    BY <1>3, <2>3, GotoFacts, InvFacts
  <2> QED BY <1>2, <2>1, <2>2, <2>3
<1>5. Placed(turn'[o])
  BY <1>1, <1>4 DEF Placed
<1>6. TypeInv'
  BY <1>1, <1>4, <1>5, OneMoves, TypeFacts, InvFacts
<1> QED BY <1>1, <1>3, <1>4, <1>6

LEMMA RestFacts ==
  ASSUME TypeInv, NEW o \in Turn, Rest(o)
  PROVE  /\ TypeInv'
         /\ turn[o].pc \in Ended /\ turn'[o] = IdleTurn
         /\ \A p \in Turn : p # o => turn'[p] = turn[p]
         /\ \A n \in Message :
              /\ requests'[n].result = requests[n].result
              /\ requests'[n] = requests[n] \/ requests[n].owner = o
         /\ slot' = slot \/ slot.owner = o
         /\ \A s \in Task : /\ tasks'[s].bound = tasks[s].bound
                            /\ tasks'[s] = tasks[s] \/ tasks[s].lease.owner = o
<1> DEFINE row(n) == [requests[n] EXCEPT !.owner = None]
           free(s) == [tasks[s] EXCEPT !.lease.owner = None]
<1>1. turn[o].pc \in Ended /\ turn' = [turn EXCEPT ![o] = IdleTurn]
      /\ UNCHANGED <<sdar, crashes>>
  BY DEF Rest
<1>2. IdleTurn \in TurnState /\ Placed(IdleTurn)
  BY DEF IdleTurn, TurnState, Placed
<1>3. /\ turn' \in [Turn -> TurnState] /\ turn'[o] = IdleTurn
      /\ \A p \in Turn : p # o => turn'[p] = turn[p]
  BY <1>1, <1>2, Moves, InvFacts
<1>4. ASSUME NEW n \in Message
      PROVE  /\ row(n) \in Request /\ WellFormed(row(n))
             /\ row(n).result = requests[n].result
  BY TypeFacts, InvFacts DEF Request, WellFormed
<1>5. requests' = [n \in Message |-> IF requests[n].owner = o THEN row(n) ELSE requests[n]]
  BY DEF Rest
<1>6. ASSUME NEW s \in Task
      PROVE  free(s) \in TaskRow /\ free(s).bound = tasks[s].bound
  <2>1. tasks[s] \in TaskRow /\ tasks[s].lease \in Lease
    BY TypeFacts, InvFacts DEF TaskRow
  <2>2. [tasks[s].lease EXCEPT !.owner = None] \in Lease
    BY <2>1 DEF Lease
  <2>3. free(s) = [tasks[s] EXCEPT !.lease = [tasks[s].lease EXCEPT !.owner = None]]
    OBVIOUS
  <2> QED BY <2>1, <2>2, <2>3 DEF TaskRow
<1>7. tasks' = [s \in Task |-> IF tasks[s].lease.owner = o THEN free(s) ELSE tasks[s]]
  BY DEF Rest
<1>8. slot' \in Lease /\ (slot' = slot \/ slot.owner = o)
  <2>1. [slot EXCEPT !.owner = None] \in Lease
    BY TypeFacts, InvFacts DEF Lease
  <2> QED BY <2>1, TypeFacts, InvFacts DEF Rest
<1> HIDE DEF row, free
<1>9. /\ requests' \in [Message -> Request]
      /\ \A n \in Message : WellFormed(requests'[n])
      /\ \A n \in Message :
           /\ requests'[n].result = requests[n].result
           /\ requests'[n] = requests[n] \/ requests[n].owner = o
  BY <1>4, <1>5, TypeFacts, InvFacts
<1>10. /\ tasks' \in [Task -> TaskRow]
       /\ \A s \in Task : /\ tasks'[s].bound = tasks[s].bound
                          /\ tasks'[s] = tasks[s] \/ tasks[s].lease.owner = o
  BY <1>6, <1>7, TypeFacts, InvFacts
<1>11. TypeInv'
  BY <1>1, <1>2, <1>3, <1>8, <1>9, <1>10, OneMoves, TypeFacts, InvFacts
<1> QED BY <1>1, <1>3, <1>8, <1>9, <1>10, <1>11

LEMMA RestartFacts ==
  ASSUME TypeInv, Restart
  PROVE  /\ TypeInv'
         /\ \A p \in Turn :
              /\ turn'[p].pc \notin AtWork
              /\ turn[p].pc \notin AtWork => turn'[p] = turn[p]
         /\ \A n \in Message : requests'[n].result = requests[n].result
         /\ \A s \in Task : tasks'[s].bound = tasks[s].bound
<1> DEFINE row(n) == [requests[n] EXCEPT !.owner = None, !.leased = TRUE]
           free(s) == [tasks[s] EXCEPT !.lease = Cleared(tasks[s].lease)]
           gone(p) == [turn[p] EXCEPT !.pc = "dead"]
<1>1. /\ turn' = [p \in Turn |-> IF turn[p].pc \in AtWork THEN gone(p) ELSE turn[p]]
      /\ requests' = [n \in Message |-> IF Expired(n) THEN row(n) ELSE requests[n]]
      /\ slot' = Cleared(slot)
      /\ tasks' = [s \in Task |-> free(s)]
      /\ sdar' = sdar
  BY DEF Restart, ReclaimExpired
<1>2. crashes' \in 0..MaxCrashes
  BY TypeFacts DEF TypeInv, Restart
<1>3. ASSUME NEW p \in Turn
      PROVE  gone(p) \in TurnState /\ gone(p).pc = "dead"
             /\ (turn[p].pc \in AtWork => Placed(gone(p)))
  <2>1. turn[p] \in TurnState /\ Placed(turn[p])
    BY InvFacts
  <2>2. /\ gone(p) \in TurnState /\ gone(p).pc = "dead" /\ gone(p).msg = turn[p].msg
        /\ gone(p).intent = turn[p].intent /\ gone(p).task = turn[p].task
    BY <2>1 DEF TurnState, Ended
  <2>3. "idle" \notin AtWork
    BY DEF AtWork, InTry
  <2> HIDE DEF gone
  <2> QED BY <2>1, <2>2, <2>3 DEF Placed
<1>4. ASSUME NEW n \in Message, Expired(n)
      PROVE  /\ row(n) \in Request /\ WellFormed(row(n))
             /\ row(n).result = requests[n].result
  <2>1. requests[n] \in Request /\ WellFormed(requests[n]) /\ requests[n].status = "CLAIMED"
    BY <1>4, TypeFacts DEF TypeInv, Expired
  <2>2. /\ row(n) \in Request /\ row(n).status = "CLAIMED"
        /\ row(n).hash = requests[n].hash /\ row(n).result = requests[n].result
    BY <2>1 DEF Request
  <2> HIDE DEF row
  <2> QED BY <2>1, <2>2 DEF WellFormed
<1>5. ASSUME NEW l \in Lease PROVE Cleared(l) \in Lease
  BY LeaseTypes DEF Cleared, NoLease, Lease
<1>6. ASSUME NEW s \in Task
      PROVE  free(s) \in TaskRow /\ free(s).bound = tasks[s].bound
  <2>1. tasks[s] \in TaskRow /\ Cleared(tasks[s].lease) \in Lease
    BY <1>5, TypeFacts DEF TypeInv, TaskRow
  <2> QED BY <2>1 DEF TaskRow
<1> HIDE DEF row, free, gone
<1>7. ASSUME NEW p \in Turn
      PROVE  /\ turn'[p] \in TurnState /\ Placed(turn'[p])
             /\ turn'[p].pc \notin AtWork
             /\ turn[p].pc \notin AtWork => turn'[p] = turn[p]
  <2>1. "dead" \notin AtWork
    BY DEF AtWork, InTry
  <2>2. turn'[p] = IF turn[p].pc \in AtWork THEN gone(p) ELSE turn[p]
    BY <1>1
  <2> QED BY <1>3, <2>1, <2>2, InvFacts
<1>8. turn' \in [Turn -> TurnState]
  BY <1>1, <1>7
<1>9. ASSUME NEW n \in Message
      PROVE  /\ requests'[n] \in Request /\ WellFormed(requests'[n])
             /\ requests'[n].result = requests[n].result
  BY <1>1, <1>4, TypeFacts DEF TypeInv
<1>10. requests' \in [Message -> Request]
  BY <1>1, <1>9
<1>11. slot' \in Lease /\ tasks' \in [Task -> TaskRow]
       /\ \A s \in Task : tasks'[s].bound = tasks[s].bound
  BY <1>1, <1>5, <1>6, TypeFacts DEF TypeInv
<1>12. TypeOK'
  BY <1>1, <1>2, <1>8, <1>9, <1>10, <1>11, TypeFacts DEF TypeInv, TypeOK
<1>13. TypeInv'
  BY <1>7, <1>12 DEF TypeInv, Placed
<1> QED BY <1>7, <1>9, <1>11, <1>13

LEMMA ClockFacts ==
  ASSUME TypeInv,
         \/ \E m \in Message : RequestLeaseExpires(m)
         \/ SlotExpires
         \/ \E t \in Task : InteractionLeaseExpires(t) \/ RecordTerminal(t)
  PROVE  /\ TypeInv' /\ turn' = turn
         /\ \A n \in Message :
              /\ requests'[n].result = requests[n].result
              /\ requests'[n] = requests[n] \/ MayExpire(requests[n].owner)
         /\ slot' = slot \/ MayExpire(slot.owner)
         /\ \A s \in Task :
              /\ tasks'[s].lease = tasks[s].lease \/ MayExpire(tasks[s].lease.owner)
              /\ tasks[s].bound # "no" => tasks'[s].bound # "no"
              /\ tasks'[s].bound \in {"active", "ended"} => tasks'[s].bound = tasks[s].bound
<1> DEFINE Goal ==
         /\ TypeInv' /\ turn' = turn
         /\ \A n \in Message :
              /\ requests'[n].result = requests[n].result
              /\ requests'[n] = requests[n] \/ MayExpire(requests[n].owner)
         /\ slot' = slot \/ MayExpire(slot.owner)
         /\ \A s \in Task :
              /\ tasks'[s].lease = tasks[s].lease \/ MayExpire(tasks[s].lease.owner)
              /\ tasks[s].bound # "no" => tasks'[s].bound # "no"
              /\ tasks'[s].bound \in {"active", "ended"} => tasks'[s].bound = tasks[s].bound
<1>0. ASSUME turn' = turn, sdar' = sdar, crashes' = crashes, slot' \in Lease,
             requests' \in [Message -> Request],
             \A n \in Message : WellFormed(requests'[n]),
             tasks' \in [Task -> TaskRow]
      PROVE  TypeInv'
  BY <1>0, TypeFacts DEF TypeInv, TypeOK, Placed
<1>1. ASSUME NEW m \in Message, RequestLeaseExpires(m) PROVE Goal
  <2> DEFINE row == [requests[m] EXCEPT !.leased = FALSE]
  <2>1. /\ requests' = [requests EXCEPT ![m] = row]
        /\ requests[m].status = "CLAIMED" /\ MayExpire(requests[m].owner)
        /\ UNCHANGED <<slot, tasks, sdar, turn, crashes>>
    BY <1>1 DEF RequestLeaseExpires, ExpireClaim
  <2>a. requests[m] \in Request /\ WellFormed(requests[m])
    BY TypeFacts DEF TypeInv
  <2>b. /\ row \in Request /\ row.status = "CLAIMED"
        /\ row.hash = requests[m].hash /\ row.result = requests[m].result
    BY <2>1, <2>a DEF Request
  <2> HIDE DEF row
  <2>2. row \in Request /\ WellFormed(row) /\ row.result = requests[m].result
    BY <2>1, <2>a, <2>b DEF WellFormed
  <2>3. /\ requests' \in [Message -> Request]
        /\ \A n \in Message : WellFormed(requests'[n])
        /\ requests'[m] = row
        /\ \A n \in Message : n # m => requests'[n] = requests[n]
    BY <2>1, <2>2, RowReplaced DEF TypeInv
  <2> QED BY <1>0, <2>1, <2>2, <2>3, TypeFacts DEF TypeInv
<1>2. ASSUME SlotExpires PROVE Goal
  <2>1. [slot EXCEPT !.live = FALSE] \in Lease
    BY TypeFacts DEF TypeInv, Lease
  <2> QED BY <1>0, <1>2, <2>1, TypeFacts DEF TypeInv, SlotExpires
<1>3. ASSUME NEW t \in Task, InteractionLeaseExpires(t) PROVE Goal
  <2> DEFINE l == [tasks[t].lease EXCEPT !.live = FALSE]
  <2>1. tasks \in [Task -> TaskRow] /\ tasks[t].lease \in Lease
    BY TypeFacts DEF TypeInv, TaskRow
  <2>2. l \in Lease
    BY <2>1 DEF Lease
  <2>3. tasks' = [tasks EXCEPT ![t].lease = l] /\ MayExpire(tasks[t].lease.owner)
        /\ UNCHANGED <<requests, slot, sdar, turn, crashes>>
    BY <1>3, <2>1 DEF InteractionLeaseExpires
  <2> HIDE DEF l
  <2>4. /\ tasks' \in [Task -> TaskRow]
        /\ \A s \in Task : tasks'[s].bound = tasks[s].bound
        /\ \A s \in Task : s # t => tasks'[s] = tasks[s]
    BY <2>1, <2>2, <2>3, LeaseFacts
  <2> QED BY <1>0, <2>3, <2>4, TypeFacts DEF TypeInv
<1>4. ASSUME NEW t \in Task, RecordTerminal(t) PROVE Goal
  <2>1. tasks' = [tasks EXCEPT ![t].bound = "terminal"]
        /\ UNCHANGED <<requests, slot, sdar, turn, crashes>>
    BY <1>4 DEF RecordTerminal
  <2>2. /\ tasks' \in [Task -> TaskRow]
        /\ \A s \in Task : tasks'[s].lease = tasks[s].lease
        /\ tasks'[t].bound = "terminal"
        /\ \A s \in Task : s # t => tasks'[s] = tasks[s]
    BY <2>1, TypeFacts DEF TypeInv, TaskRow
  <2> QED BY <1>0, <2>1, <2>2, TypeFacts DEF TypeInv
<1> HIDE DEF Goal
<1>5. ASSUME NEW t \in Task, InteractionLeaseExpires(t) \/ RecordTerminal(t) PROVE Goal
  BY <1>3, <1>4, <1>5
<1>6. Goal
  BY <1>1, <1>2, <1>5
<1> QED BY <1>6 DEF Goal

LEMMA NextTypeInv == TypeInv /\ [Next]_vars => TypeInv'
<1> SUFFICES ASSUME TypeInv, [Next]_vars PROVE TypeInv'
  OBVIOUS
<1>1. ASSUME NEW o \in Turn, Work(o) \/ Fail(o) \/ Die(o) PROVE TypeInv'
  BY <1>1, ClaimTypeInv, ClaimSubmissionSlotTypeInv, SdarAcceptsTypeInv,
     ReceiveAnswerFacts, EnsureBindingFacts, CompleteSubmissionFacts,
     EndStreamFacts, ClaimInteractionSlotFacts, CompleteMutationFacts,
     ReleaseFacts, RestFacts, FailFacts DEF Work
<1>2. ASSUME NEW o \in Turn, NEW m \in Message, NEW i \in Intent, Begin(o, m, i)
      PROVE  TypeInv'
  BY <1>2, BeginTypeInv
<1>3. CASE Restart
  BY <1>3, RestartFacts
<1>4. CASE UNCHANGED vars
  BY <1>4 DEF vars, TypeInv, TypeOK, Placed
<1> QED BY <1>1, <1>2, <1>3, <1>4, ClockFacts DEF Next

(* The rows satisfy the table's constraints in every reachable state, and  *)
(* the turns are turns, for any number of them.                            *)
THEOREM TypeCorrect == Spec => []TypeOK
<1>1. TypeInv => TypeOK
  BY DEF TypeInv
<1> QED BY <1>1, InitTypeInv, NextTypeInv, PTL DEF Spec

-----------------------------------------------------------------------------
(* What each step does to one turn's program counter, in one place.        *)
LEMMA BeginFacts ==
  ASSUME TypeInv, NEW o \in Turn, NEW m \in Message, NEW i \in Intent,
         Begin(o, m, i)
  PROVE  /\ turn'[o].pc \in {"asking", "unbound"}
         /\ turn'[o].pc = "asking" => i.op = "submit" \/ i.task \in Open
         /\ turn'[o].task = i.task /\ turn'[o].intent = i
         /\ \A p \in Turn : p # o => turn'[p] = turn[p]
         /\ UNCHANGED <<requests, slot, tasks>>
<1>1. PICK pc \in {"asking", "unbound"} :
        /\ pc = "asking" => i.op = "submit" \/ i.task \in Open
        /\ turn' = [turn EXCEPT ![o] =
             [pc |-> pc, msg |-> m, intent |-> i, task |-> i.task, end |-> None]]
  BY DEF Begin
<1>2. turn \in [Turn -> TurnState]
  BY TypeFacts DEF TypeInv
<1> QED BY <1>1, <1>2 DEF Begin

LEMMA ClaimStepFacts ==
  ASSUME TypeInv, NEW o \in Turn, Claim(o)
  PROVE  /\ turn[o].pc = "asking" /\ turn[o].msg \in Message
         /\ turn'[o].pc \in {"claimed", "conflict", "busy", "told"}
         /\ turn'[o].task = turn[o].task /\ turn'[o].msg = turn[o].msg
         /\ turn'[o].intent = turn[o].intent
         /\ turn'[o].pc = "claimed" =>
              LET row == requests'[turn[o].msg]
              IN  row.status = "CLAIMED" /\ row.hash = turn[o].intent
                    /\ row.owner = o /\ row.leased
         /\ \A p \in Turn : p # o => turn'[p] = turn[p]
         /\ \A n \in Message :
              \/ requests'[n] = requests[n]
              \/ /\ ~(requests[n].status = "CLAIMED" /\ requests[n].leased)
                 /\ requests'[n].result = None
         /\ UNCHANGED <<slot, tasks>>
<1> DEFINE m == turn[o].msg
           i == turn[o].intent
<1>1. turn[o].pc = "asking" /\ m \in Message /\ i \in Intent /\ TypeOK
  BY InvFacts DEF Claim, Placed
<1>2. {"claimed", "conflict", "busy", "told"} \subseteq PC
  BY DEF PC, AtWork, Ended
<1>3. UNCHANGED <<slot, tasks>>
  BY DEF Claim
<1>4. CASE (InsertClaim(m, i, o) \/ TakeOver(m, i, o)) /\ Goto(o, "claimed")
  <2>1. /\ turn'[o].pc = "claimed" /\ turn'[o].task = turn[o].task
        /\ turn'[o].msg = m /\ turn'[o].intent = i
        /\ \A p \in Turn : p # o => turn'[p] = turn[p]
    BY <1>1, <1>2, <1>4, GotoFacts
  <2>2. /\ requests'[m].status = "CLAIMED" /\ requests'[m].hash = i
        /\ requests'[m].owner = o /\ requests'[m].leased
        /\ requests'[m].result = None
        /\ ~(requests[m].status = "CLAIMED" /\ requests[m].leased)
        /\ \A n \in Message : n # m => requests'[n] = requests[n]
    BY <1>1, <1>4, ClaimFacts
  <2> QED BY <1>1, <1>3, <2>1, <2>2
<1>5. ASSUME NEW how \in {"conflict", "busy", "told"}, Goto(o, how)
      PROVE  /\ turn'[o].pc = how /\ turn'[o].task = turn[o].task
             /\ turn'[o].msg = m /\ turn'[o].intent = i
             /\ \A p \in Turn : p # o => turn'[p] = turn[p]
  BY <1>1, <1>2, <1>5, GotoFacts
<1>6. CASE requests' = requests
           /\ \E how \in {"conflict", "busy", "told"} : Goto(o, how)
  BY <1>1, <1>3, <1>5, <1>6
<1> QED BY <1>4, <1>6 DEF Claim

LEMMA ClaimSubmissionSlotFacts ==
  ASSUME TypeInv, NEW o \in Turn, ClaimSubmissionSlot(o)
  PROVE  /\ turn[o].pc = "claimed" /\ turn[o].intent.op = "submit"
         /\ turn'[o].pc \in {"submitting", "refused"}
         /\ turn'[o].task = turn[o].task /\ turn'[o].msg = turn[o].msg
         /\ turn'[o].intent = turn[o].intent
         /\ turn'[o].pc = "submitting" =>
              ~slot.live /\ slot' = LeasedTo(o) /\ HasRoom(Active)
         /\ slot' = slot \/ ~slot.live
         /\ \A p \in Turn : p # o => turn'[p] = turn[p]
         /\ UNCHANGED <<requests, tasks>>
<1>1. turn[o].pc = "claimed" /\ turn[o].intent.op = "submit" /\ TypeOK
      /\ UNCHANGED <<requests, tasks>>
  BY InvFacts DEF ClaimSubmissionSlot, Submits
<1>2. {"submitting", "refused"} \subseteq PC
  BY DEF PC, AtWork, InTry, Ended
<1>3. CASE LeaseFree(slot) /\ HasRoom(Active)
  <2>1. Goto(o, "submitting") /\ slot' = LeasedTo(o) /\ ~slot.live
    BY <1>3 DEF ClaimSubmissionSlot, LeaseFree
  <2> QED BY <1>1, <1>2, <1>3, <2>1, GotoFacts
<1>4. CASE ~(LeaseFree(slot) /\ HasRoom(Active))
  <2>1. Goto(o, "refused") /\ slot' = slot
    BY <1>4 DEF ClaimSubmissionSlot
  <2> QED BY <1>1, <1>2, <2>1, GotoFacts
<1> QED BY <1>3, <1>4

-----------------------------------------------------------------------------
(* A turn's Task is bound from the moment the code takes it for granted.   *)
Relies(u) ==
  /\ u.task \in Task
  /\ u.pc = "bound" \/ (u.pc \in {"asking", "claimed", "mutating"}
                          /\ u.intent.op # "submit")

IsBound(ts, t) == ts[t].bound # "no"

BoundInv ==
  /\ \A o \in Turn : Relies(turn[o]) => IsBound(tasks, turn[o].task)
  /\ CompletedTaskIsBound

(* A binding is never taken back.                                          *)
LEMMA BindingsStay ==
  ASSUME TypeInv, [Next]_vars, NEW t \in Task, IsBound(tasks, t)
  PROVE  IsBound(tasks', t)
<1>1. ASSUME NEW o \in Turn, Work(o) \/ Fail(o) \/ Die(o) PROVE IsBound(tasks', t)
  <2>1. CASE Claim(o) \/ ClaimSubmissionSlot(o) \/ SdarAccepts(o) \/ ReceiveAnswer(o)
             \/ CompleteSubmission(o) \/ EndStream(o) \/ CompleteMutation(o)
    BY <2>1 DEF IsBound, Claim, ClaimSubmissionSlot, SdarAccepts, ReceiveAnswer,
                CompleteSubmission, EndStream, CompleteMutation
  <2>2. CASE EnsureBinding(o)
    BY <2>2, EnsureBindingFacts DEF IsBound
  <2>3. CASE ClaimInteractionSlot(o)
    BY <2>3, ClaimInteractionSlotFacts DEF IsBound
  <2>4. CASE Release(o)
    BY <2>4, ReleaseFacts DEF IsBound
  <2>5. CASE Rest(o)
    BY <2>5, RestFacts DEF IsBound
  <2>6. CASE Fail(o) \/ Die(o)
    BY <2>6, FailFacts DEF IsBound
  <2> QED BY <1>1, <2>1, <2>2, <2>3, <2>4, <2>5, <2>6 DEF Work
<1>2. ASSUME NEW o \in Turn, NEW m \in Message, NEW i \in Intent, Begin(o, m, i)
      PROVE  IsBound(tasks', t)
  BY <1>2, BeginFacts DEF IsBound
<1>3. CASE Restart
  BY <1>3, RestartFacts DEF IsBound
<1>4. CASE UNCHANGED vars
  BY <1>4 DEF vars, IsBound
<1>5. CASE \/ \E m \in Message : RequestLeaseExpires(m)
           \/ SlotExpires
           \/ \E s \in Task : InteractionLeaseExpires(s) \/ RecordTerminal(s)
  BY <1>5, ClockFacts DEF IsBound
<1> QED BY <1>1, <1>2, <1>3, <1>4, <1>5 DEF Next

LEMMA ReliesStep ==
  ASSUME TypeInv, [Next]_vars, NEW p \in Turn,
         Relies(turn[p]) => IsBound(tasks, turn[p].task), Relies(turn'[p])
  PROVE  IsBound(tasks', turn'[p].task)
<1>0. ASSUME turn'[p] = turn[p] PROVE IsBound(tasks', turn'[p].task)
  BY <1>0, BindingsStay DEF Relies
<1>1. ASSUME turn'[p].task = turn[p].task, Relies(turn[p]) PROVE IsBound(tasks', turn'[p].task)
  BY <1>1, BindingsStay DEF Relies
<1>2. ASSUME NEW o \in Turn, Work(o) \/ Fail(o) \/ Die(o)
      PROVE  IsBound(tasks', turn'[p].task)
  <2>1. CASE Claim(o)
    BY <1>0, <1>1, <2>1, ClaimStepFacts DEF Relies
  <2>2. CASE ClaimSubmissionSlot(o)
    BY <1>0, <2>2, ClaimSubmissionSlotFacts DEF Relies
  <2>3. CASE SdarAccepts(o)
    BY <1>0, <2>3 DEF SdarAccepts
  <2>4. CASE ReceiveAnswer(o)
    BY <1>0, <2>4, ReceiveAnswerFacts DEF Relies
  <2>5. CASE EnsureBinding(o)
    BY <1>0, <2>5, EnsureBindingFacts DEF IsBound
  <2>6. CASE CompleteSubmission(o)
    BY <1>0, <2>6, CompleteSubmissionFacts DEF Relies
  <2>7. CASE EndStream(o)
    BY <1>0, <2>7, EndStreamFacts DEF Relies
  <2>8. CASE ClaimInteractionSlot(o)
    <3>1. turn[o].intent.op # "submit"
      BY <2>8 DEF ClaimInteractionSlot, Submits
    <3> QED BY <1>0, <1>1, <2>8, <3>1, ClaimInteractionSlotFacts DEF Relies
  <2>9. CASE CompleteMutation(o)
    BY <1>0, <2>9, CompleteMutationFacts DEF Relies
  <2>10. CASE Release(o)
    BY <1>0, <2>10, ReleaseFacts DEF Relies, Ended
  <2>11. CASE Rest(o)
    BY <1>0, <2>11, RestFacts DEF Relies, IdleTurn
  <2>12. CASE Fail(o) \/ Die(o)
    BY <1>0, <2>12, FailFacts DEF Relies, Ended
  <2> QED BY <1>2, <2>1, <2>2, <2>3, <2>4, <2>5, <2>6, <2>7, <2>8, <2>9, <2>10,
             <2>11, <2>12 DEF Work
<1>3. ASSUME NEW o \in Turn, NEW m \in Message, NEW i \in Intent, Begin(o, m, i)
      PROVE  IsBound(tasks', turn'[p].task)
  <2>1. CASE o = p
    <3>1. i.task \in Open /\ turn'[p].task = i.task /\ tasks' = tasks
      BY <1>3, <2>1, BeginFacts DEF Relies
    <3> QED BY <3>1 DEF Open, IsBound
  <2> QED BY <1>0, <1>3, <2>1, BeginFacts
<1>4. CASE Restart
  <2>1. turn'[p].pc = "bound" \/ turn'[p].pc \in {"asking", "claimed", "mutating"}
    BY DEF Relies
  <2> QED BY <1>4, <2>1, RestartFacts DEF AtWork, InTry
<1>5. CASE UNCHANGED vars
  BY <1>0, <1>5 DEF vars
<1>6. CASE \/ \E m \in Message : RequestLeaseExpires(m)
           \/ SlotExpires
           \/ \E s \in Task : InteractionLeaseExpires(s) \/ RecordTerminal(s)
  BY <1>0, <1>6, ClockFacts
<1> QED BY <1>2, <1>3, <1>4, <1>5, <1>6 DEF Next

(* A result is that of a turn which relies on its Task, or was there.      *)
LEMMA ResultStep ==
  ASSUME TypeInv, [Next]_vars, NEW n \in Message, requests'[n].result \in Task
  PROVE  \/ requests'[n].result = requests[n].result
         \/ \E o \in Turn : Relies(turn[o]) /\ requests'[n].result = turn[o].task
<1> DEFINE Goal ==
      \/ requests'[n].result = requests[n].result
      \/ \E o \in Turn : Relies(turn[o]) /\ requests'[n].result = turn[o].task
<1>1. ASSUME NEW o \in Turn, Work(o) \/ Fail(o) \/ Die(o) PROVE Goal
  <2>1. CASE Claim(o)
    BY <2>1, ClaimStepFacts
  <2>2. CASE ClaimSubmissionSlot(o) \/ SdarAccepts(o) \/ ReceiveAnswer(o)
             \/ EnsureBinding(o) \/ EndStream(o) \/ Release(o)
    BY <2>2 DEF ClaimSubmissionSlot, SdarAccepts, ReceiveAnswer, EnsureBinding,
                EndStream, Release
  <2>3. CASE CompleteSubmission(o)
    BY <2>3, CompleteSubmissionFacts DEF Relies
  <2>4. CASE CompleteMutation(o)
    <3>1. turn[o].intent.op # "submit"
      BY <2>4, InvFacts DEF CompleteMutation, Placed
    <3> QED BY <2>4, <3>1, CompleteMutationFacts DEF Relies
  <2>5. CASE ClaimInteractionSlot(o)
    BY <2>5, ClaimInteractionSlotFacts DEF NoRequest
  <2>6. CASE Rest(o)
    BY <2>6, RestFacts
  <2>7. CASE Fail(o) \/ Die(o)
    BY <2>7, FailFacts
  <2> QED BY <1>1, <2>1, <2>2, <2>3, <2>4, <2>5, <2>6, <2>7 DEF Work
<1>2. ASSUME NEW o \in Turn, NEW m \in Message, NEW i \in Intent, Begin(o, m, i)
      PROVE  Goal
  BY <1>2, BeginFacts
<1>3. CASE Restart
  BY <1>3, RestartFacts
<1>4. CASE UNCHANGED vars
  BY <1>4 DEF vars
<1>5. CASE \/ \E m \in Message : RequestLeaseExpires(m)
           \/ SlotExpires
           \/ \E s \in Task : InteractionLeaseExpires(s) \/ RecordTerminal(s)
  BY <1>5, ClockFacts
<1> QED BY <1>1, <1>2, <1>3, <1>4, <1>5 DEF Next

(* A replay always finds the binding of its Task, whatever was retried,    *)
(* failed or died before.                                                  *)
THEOREM ReplaysFindTheirTask == Spec => []CompletedTaskIsBound
<1>1. Init => TypeInv /\ BoundInv
  BY InitTypeInv DEF Init, BoundInv, Relies, IdleTurn, CompletedTaskIsBound, NoRequest
<1>2. TypeInv /\ BoundInv /\ [Next]_vars => BoundInv'
  <2> SUFFICES ASSUME TypeInv, BoundInv, [Next]_vars PROVE BoundInv'
    OBVIOUS
  <2>1. ASSUME NEW o \in Turn, Relies(turn'[o]) PROVE IsBound(tasks', turn'[o].task)
    BY <2>1, ReliesStep DEF BoundInv
  <2>2. ASSUME NEW n \in Message, requests'[n].result \in Task
        PROVE  IsBound(tasks', requests'[n].result)
    BY <2>2, ResultStep, BindingsStay DEF BoundInv, CompletedTaskIsBound, IsBound, Relies
  <2> QED BY <2>1, <2>2 DEF BoundInv, CompletedTaskIsBound, IsBound, Relies
<1> QED BY <1>1, <1>2, NextTypeInv, PTL DEF Spec, BoundInv

-----------------------------------------------------------------------------
(* What a turn that has passed a claim still has, and the room that was    *)
(* there when the submission lease was claimed.                            *)
Claims(rs, u, o) ==
  u.pc \in Calling =>
    /\ rs[u.msg].status = "CLAIMED" /\ rs[u.msg].hash = u.intent
    /\ rs[u.msg].owner = o /\ rs[u.msg].leased

Submitting(u) == u.pc \in {"submitting", "binding"}

Holds ==
  \A o \in Turn :
    /\ Claims(requests, turn[o], o)
    /\ Submitting(turn[o]) => slot = LeasedTo(o) /\ HasRoom(Active)
    /\ turn[o].pc = "mutating" => tasks[turn[o].task].lease = LeasedTo(o)

Advance(p) ==
  \/ turn'[p] = turn[p]
  \/ turn'[p].pc \notin Calling
  \/ Claim(p) /\ turn'[p].pc = "claimed"
  \/ ClaimSubmissionSlot(p) /\ turn'[p].pc = "submitting"
  \/ ReceiveAnswer(p) \/ EnsureBinding(p)
  \/ ClaimInteractionSlot(p) /\ turn'[p].pc = "mutating"

(* How a turn comes to be where it calls SDAR.                             *)
LEMMA Advances ==
  ASSUME TypeInv, [Next]_vars, NEW p \in Turn
  PROVE  Advance(p)
<1> DEFINE Quiet == turn'[p] = turn[p] \/ turn'[p].pc \notin Calling
<1>1. ASSUME NEW o \in Turn, o # p, Work(o) \/ Fail(o) \/ Die(o) PROVE Quiet
  <2>1. CASE Claim(o) \/ ClaimSubmissionSlot(o)
    BY <1>1, <2>1, ClaimStepFacts, ClaimSubmissionSlotFacts
  <2>2. CASE SdarAccepts(o)
    BY <2>2 DEF SdarAccepts
  <2>3. CASE ReceiveAnswer(o) \/ EnsureBinding(o) \/ CompleteSubmission(o)
             \/ EndStream(o)
    BY <1>1, <2>3, ReceiveAnswerFacts, EnsureBindingFacts,
       CompleteSubmissionFacts, EndStreamFacts
  <2>4. CASE ClaimInteractionSlot(o) \/ CompleteMutation(o) \/ Release(o)
    BY <1>1, <2>4, ClaimInteractionSlotFacts, CompleteMutationFacts, ReleaseFacts
  <2>5. CASE Rest(o) \/ Fail(o) \/ Die(o)
    BY <1>1, <2>5, RestFacts, FailFacts
  <2> QED BY <1>1, <2>1, <2>2, <2>3, <2>4, <2>5 DEF Work
<1>2. ASSUME Work(p) \/ Fail(p) \/ Die(p) PROVE Advance(p)
  <2> USE DEF Advance, Calling
  <2>1. CASE Claim(p)
    BY <2>1, ClaimStepFacts
  <2>2. CASE ClaimSubmissionSlot(p)
    BY <2>2, ClaimSubmissionSlotFacts
  <2>3. CASE SdarAccepts(p)
    BY <2>3 DEF SdarAccepts
  <2>4. CASE CompleteSubmission(p)
    BY <2>4, CompleteSubmissionFacts
  <2>5. CASE EndStream(p)
    BY <2>5, EndStreamFacts
  <2>6. CASE ClaimInteractionSlot(p)
    BY <2>6, ClaimInteractionSlotFacts
  <2>7. CASE CompleteMutation(p)
    BY <2>7, CompleteMutationFacts
  <2>8. CASE Release(p)
    BY <2>8, ReleaseFacts DEF Ended
  <2>9. CASE Rest(p)
    BY <2>9, RestFacts DEF IdleTurn
  <2>10. CASE Fail(p) \/ Die(p)
    BY <2>10, FailFacts DEF Ended
  <2> QED BY <1>2, <2>1, <2>2, <2>3, <2>4, <2>5, <2>6, <2>7, <2>8, <2>9, <2>10
          DEF Work
<1>3. ASSUME NEW o \in Turn, NEW m \in Message, NEW i \in Intent, Begin(o, m, i)
      PROVE  Quiet
  BY <1>3, BeginFacts DEF Calling
<1>4. ASSUME Restart PROVE Quiet
  BY <1>4, RestartFacts DEF Calling, AtWork, InTry
<1>5. ASSUME UNCHANGED vars PROVE Quiet
  BY <1>5 DEF vars
<1>6. ASSUME \/ \E m \in Message : RequestLeaseExpires(m)
             \/ SlotExpires
             \/ \E s \in Task : InteractionLeaseExpires(s) \/ RecordTerminal(s)
      PROVE  Quiet
  BY <1>6, ClockFacts
<1> HIDE DEF Quiet
<1>7. ASSUME NEW o \in Turn, Work(o) \/ Fail(o) \/ Die(o) PROVE Quiet \/ Advance(p)
  BY <1>1, <1>2, <1>7
<1>8. Quiet \/ Advance(p)
  BY <1>3, <1>4, <1>5, <1>6, <1>7 DEF Next
<1> QED BY <1>8 DEF Quiet, Advance

(* Nobody takes a turn's claims away while it is at work.                  *)
LEMMA ClaimsStay ==
  ASSUME ~Stalls, TypeInv, [Next]_vars, NEW p \in Turn,
         turn[p].pc \in AtWork, turn'[p].pc \in Calling
  PROVE  /\ \A n \in Message :
              (/\ requests[n].status = "CLAIMED" /\ requests[n].leased
               /\ requests[n].owner = p) => requests'[n] = requests[n]
         /\ slot = LeasedTo(p) => slot' = slot
         /\ \A t \in Task : tasks[t].lease = LeasedTo(p) =>
              tasks'[t].lease = tasks[t].lease
<1> DEFINE Goal ==
         /\ \A n \in Message :
              (/\ requests[n].status = "CLAIMED" /\ requests[n].leased
               /\ requests[n].owner = p) => requests'[n] = requests[n]
         /\ slot = LeasedTo(p) => slot' = slot
         /\ \A t \in Task : tasks[t].lease = LeasedTo(p) =>
              tasks'[t].lease = tasks[t].lease
<1>0. LeasedTo(p).live /\ LeasedTo(p).owner = p
  BY LeaseTypes
<1>1. ASSUME NEW o \in Turn, Work(o) \/ Fail(o) \/ Die(o) PROVE Goal
  <2>1. CASE Claim(o)
    BY <2>1, ClaimStepFacts
  <2>2. CASE ClaimSubmissionSlot(o)
    BY <1>0, <2>2, ClaimSubmissionSlotFacts
  <2>3. CASE SdarAccepts(o) \/ ReceiveAnswer(o) \/ EndStream(o)
    BY <2>3 DEF SdarAccepts, ReceiveAnswer, EndStream
  <2>4. CASE EnsureBinding(o)
    <3>1. requests' = requests /\ slot' = slot
      BY <2>4 DEF EnsureBinding
    <3> QED BY <2>4, <3>1, EnsureBindingFacts
  <2>5. CASE CompleteSubmission(o)
    <3>1. slot' = slot /\ tasks' = tasks
      BY <2>5 DEF CompleteSubmission
    <3> QED BY <2>5, <3>1, CompleteSubmissionFacts DEF Calling
  <2>6. CASE CompleteMutation(o)
    <3>1. slot' = slot /\ tasks' = tasks
      BY <2>6 DEF CompleteMutation
    <3> QED BY <2>6, <3>1, CompleteMutationFacts DEF Calling
  <2>7. CASE ClaimInteractionSlot(o)
    <3>1. slot' = slot
      BY <2>7 DEF ClaimInteractionSlot
    <3>2. o = p => requests' = requests
      BY <2>7, ClaimInteractionSlotFacts DEF Calling
    <3> QED BY <1>0, <2>7, <3>1, <3>2, ClaimInteractionSlotFacts
  <2>8. CASE Release(o)
    <3>1. requests' = requests
      BY <2>8 DEF Release
    <3>2. o # p
      BY <2>8, ReleaseFacts DEF Calling, Ended
    <3> QED BY <1>0, <2>8, <3>1, <3>2, ReleaseFacts
  <2>9. CASE Rest(o)
    <3>1. o # p
      BY <2>9, RestFacts DEF IdleTurn, Calling
    <3> QED BY <1>0, <2>9, <3>1, RestFacts
  <2>10. CASE Fail(o) \/ Die(o)
    BY <2>10, FailFacts
  <2> QED BY <1>1, <2>1, <2>2, <2>3, <2>4, <2>5, <2>6, <2>7, <2>8, <2>9, <2>10
          DEF Work
<1>2. ASSUME NEW o \in Turn, NEW m \in Message, NEW i \in Intent, Begin(o, m, i)
      PROVE  Goal
  BY <1>2, BeginFacts
<1>3. ASSUME Restart PROVE Goal
  BY <1>3, RestartFacts DEF Calling, AtWork, InTry
<1>4. ASSUME UNCHANGED vars PROVE Goal
  BY <1>4 DEF vars
<1>5. ASSUME \/ \E m \in Message : RequestLeaseExpires(m)
             \/ SlotExpires
             \/ \E s \in Task : InteractionLeaseExpires(s) \/ RecordTerminal(s)
      PROVE  Goal
  <2>1. ~MayExpire(p)
    BY DEF MayExpire
  <2> QED BY <1>0, <1>5, <2>1, ClockFacts
<1> HIDE DEF Goal
<1>6. Goal
  BY <1>1, <1>2, <1>3, <1>4, <1>5 DEF Next
<1> QED BY <1>6 DEF Goal

(* Only ensureBinding adds to the active Tasks.                            *)
LEMMA ActiveStep ==
  ASSUME TypeInv, [Next]_vars
  PROVE  \/ Active' \subseteq Active
         \/ \E o \in Turn : /\ EnsureBinding(o)
                            /\ Active' \subseteq Active \cup {turn[o].task}
<1> DEFINE Goal == \/ Active' \subseteq Active
                   \/ \E o \in Turn :
                        /\ EnsureBinding(o)
                        /\ Active' \subseteq Active \cup {turn[o].task}
<1>1. ASSUME \A t \in Task : tasks'[t].bound = tasks[t].bound PROVE Goal
  BY <1>1 DEF Active
<1>2. ASSUME NEW o \in Turn, Work(o) \/ Fail(o) \/ Die(o) PROVE Goal
  <2>1. CASE Claim(o) \/ ClaimSubmissionSlot(o) \/ SdarAccepts(o) \/ ReceiveAnswer(o)
             \/ CompleteSubmission(o) \/ EndStream(o) \/ CompleteMutation(o)
    BY <1>1, <2>1 DEF Claim, ClaimSubmissionSlot, SdarAccepts, ReceiveAnswer,
                      CompleteSubmission, EndStream, CompleteMutation
  <2>2. CASE EnsureBinding(o)
    BY <2>2, EnsureBindingFacts DEF Active
  <2>3. CASE ClaimInteractionSlot(o)
    BY <1>1, <2>3, ClaimInteractionSlotFacts
  <2>4. CASE Release(o)
    BY <1>1, <2>4, ReleaseFacts
  <2>5. CASE Rest(o)
    BY <1>1, <2>5, RestFacts
  <2>6. CASE Fail(o) \/ Die(o)
    BY <1>1, <2>6, FailFacts
  <2> QED BY <1>2, <2>1, <2>2, <2>3, <2>4, <2>5, <2>6 DEF Work
<1>3. ASSUME NEW o \in Turn, NEW m \in Message, NEW i \in Intent, Begin(o, m, i)
      PROVE  Goal
  BY <1>1, <1>3, BeginFacts
<1>4. ASSUME Restart PROVE Goal
  BY <1>1, <1>4, RestartFacts
<1>5. ASSUME UNCHANGED vars PROVE Goal
  BY <1>1, <1>5 DEF vars
<1>6. ASSUME \/ \E m \in Message : RequestLeaseExpires(m)
             \/ SlotExpires
             \/ \E s \in Task : InteractionLeaseExpires(s) \/ RecordTerminal(s)
      PROVE  Goal
  BY <1>6, ClockFacts DEF Active
<1> HIDE DEF Goal
<1>7. Goal
  BY <1>2, <1>3, <1>4, <1>5, <1>6 DEF Next
<1> QED BY <1>7 DEF Goal

LEMMA FewerHaveRoom ==
  ASSUME NEW a, NEW b, a \subseteq Task, b \subseteq a
  PROVE  /\ HasRoom(a) => HasRoom(b)
         /\ Cardinality(a) <= MaxActive => Cardinality(b) <= MaxActive
<1>1. IsFiniteSet(a)
  BY FS_Subset
<1>2. IsFiniteSet(b) /\ Cardinality(b) <= Cardinality(a)
  BY <1>1, FS_Subset
<1>3. Cardinality(a) \in Nat /\ Cardinality(b) \in Nat
  BY <1>1, <1>2, FS_CardinalityType
<1> QED BY <1>2, <1>3 DEF HasRoom

LEMMA OneMoreFits ==
  ASSUME NEW a, NEW t \in Task, a \subseteq Task, HasRoom(a)
  PROVE  Cardinality(a \cup {t}) <= MaxActive
<1>1. IsFiniteSet(a)
  BY FS_Subset
<1>2. Cardinality(a) \in Nat
  BY <1>1, FS_CardinalityType
<1>3. Cardinality(a \cup {t}) \in {Cardinality(a), Cardinality(a) + 1}
  BY <1>1, FS_AddElement
<1> QED BY <1>2, <1>3 DEF HasRoom

-----------------------------------------------------------------------------
LEMMA AdvanceHolds ==
  ASSUME ~Stalls, TypeInv, Holds, [Next]_vars, NEW p \in Turn,
         turn'[p].pc \in Calling
  PROVE  /\ Claims(requests', turn'[p], p)
         /\ Submitting(turn'[p]) =>
              /\ slot' = LeasedTo(p)
              /\ (Submitting(turn[p]) /\ turn'[p].pc # "bound") \/ HasRoom(Active)
         /\ turn'[p].pc = "mutating" => tasks'[turn'[p].task].lease = LeasedTo(p)
<1> DEFINE u == turn[p]
           v == turn'[p]
<1>1. CASE Claim(p) /\ v.pc = "claimed"
  BY <1>1, ClaimStepFacts DEF Claims, Submitting
<1>2. ASSUME u.pc \in Calling, v.msg = u.msg, v.intent = u.intent
      PROVE  Claims(requests', v, p)
  <2>1. u.msg \in Message /\ u.pc \in AtWork
    BY <1>2, InvFacts DEF Placed, Calling, AtWork, InTry
  <2>2. requests'[u.msg] = requests[u.msg]
    BY <1>2, <2>1, ClaimsStay DEF Holds, Claims
  <2> QED BY <1>2, <2>2 DEF Holds, Claims
<1>3. CASE v = u
  <2>1. u.pc \in AtWork
    BY <1>3 DEF Calling, AtWork, InTry
  <2>2. u.pc = "mutating" => u.task \in Task
    BY InvFacts, IntentFacts DEF Placed
  <2> QED BY <1>2, <1>3, <2>1, <2>2, ClaimsStay DEF Holds
<1>4. CASE ClaimSubmissionSlot(p) /\ v.pc = "submitting"
  BY <1>2, <1>4, ClaimSubmissionSlotFacts DEF Calling
<1>5. CASE ReceiveAnswer(p)
  <2>1. u.pc = "submitting" /\ v.pc \in {"binding", "bound"}
        /\ v.msg = u.msg /\ v.intent = u.intent
    BY <1>5, ReceiveAnswerFacts
  <2>2. slot' = slot
    BY <1>5 DEF ReceiveAnswer
  <2> QED BY <1>2, <2>1, <2>2 DEF Holds, Submitting, Calling
<1>6. CASE EnsureBinding(p)
  <2>1. u.pc = "binding" /\ v.pc = "bound" /\ v.msg = u.msg /\ v.intent = u.intent
    BY <1>6, EnsureBindingFacts
  <2> QED BY <1>2, <2>1 DEF Submitting, Calling
<1>7. CASE ClaimInteractionSlot(p) /\ v.pc = "mutating"
  BY <1>2, <1>7, ClaimInteractionSlotFacts DEF Submitting, Calling
<1> QED BY <1>1, <1>3, <1>4, <1>5, <1>6, <1>7, Advances DEF Advance

(* While a turn is submitting nobody else binds a Task.                    *)
LEMMA RoomStays ==
  ASSUME ~Stalls, TypeInv, Holds, [Next]_vars, NEW p \in Turn,
         Submitting(turn'[p]), HasRoom(Active)
  PROVE  HasRoom(Active')
<1>1. CASE Active' \subseteq Active
  BY <1>1, FewerHaveRoom DEF Active
<1>2. ASSUME NEW o \in Turn, EnsureBinding(o) PROVE FALSE
  <2>1. /\ turn[o].pc = "binding" /\ turn'[o].pc = "bound"
        /\ \A q \in Turn : q # o => turn'[q] = turn[q]
    BY <1>2, EnsureBindingFacts
  <2>2. p # o /\ Submitting(turn[p])
    BY <2>1 DEF Submitting
  <2>3. slot = LeasedTo(o) /\ slot = LeasedTo(p)
    BY <2>1, <2>2 DEF Holds, Submitting
  <2> QED BY <2>2, <2>3, LeaseTypes
<1> QED BY <1>1, <1>2, ActiveStep

LEMMA HoldsStep ==
  ASSUME ~Stalls, TypeInv, Holds, [Next]_vars PROVE Holds'
<1>1. ASSUME NEW p \in Turn, turn'[p].pc \in Calling
      PROVE  /\ Claims(requests', turn'[p], p)
             /\ Submitting(turn'[p]) => slot' = LeasedTo(p) /\ HasRoom(Active')
             /\ turn'[p].pc = "mutating" => tasks'[turn'[p].task].lease = LeasedTo(p)
  <2>1. ASSUME Submitting(turn'[p]) PROVE HasRoom(Active')
    <3>1. HasRoom(Active)
      BY <1>1, <2>1, AdvanceHolds DEF Holds
    <3> QED BY <2>1, <3>1, RoomStays
  <2> QED BY <1>1, <2>1, AdvanceHolds
<1>2. ASSUME NEW p \in Turn, turn'[p].pc \notin Calling
      PROVE  /\ Claims(requests', turn'[p], p)
             /\ ~Submitting(turn'[p]) /\ turn'[p].pc # "mutating"
  BY <1>2 DEF Claims, Calling, Submitting
<1>3. \A p \in Turn : (LET u == turn[p] IN
        /\ Claims(requests, u, p)
        /\ Submitting(u) => slot = LeasedTo(p) /\ HasRoom(Active)
        /\ u.pc = "mutating" => tasks[u.task].lease = LeasedTo(p))'
  BY <1>1, <1>2 DEF Claims, Submitting, Calling
<1> QED BY <1>3 DEF Holds

LEMMA InitHolds == Init => Holds
BY DEF Init, Holds, Claims, Calling, Submitting, IdleTurn

(* A message is handed to SDAR by one turn at a time.                      *)
THEOREM MessagesHaveOneSender ==
  ASSUME ~Stalls PROVE Spec => []OneSender
<1>1. Holds => OneSender
  BY DEF Holds, Claims, OneSender
<1>2. TypeInv /\ Holds /\ [Next]_vars => Holds'
  BY HoldsStep
<1> QED BY <1>1, <1>2, InitHolds, InitTypeInv, NextTypeInv, PTL DEF Spec

(* One turn at a time calls SDAR about a Task that it mutates.             *)
THEOREM TasksHaveOneMutator ==
  ASSUME ~Stalls PROVE Spec => []OneMutator
<1>1. Holds => OneMutator
  BY LeaseTypes DEF Holds, OneMutator
<1>2. TypeInv /\ Holds /\ [Next]_vars => Holds'
  BY HoldsStep
<1> QED BY <1>1, <1>2, InitHolds, InitTypeInv, NextTypeInv, PTL DEF Spec

(* A message is handed to SDAR only while its request is undecided.        *)
THEOREM DecidedIsNotSentAgain ==
  ASSUME ~Stalls PROVE Spec => NeverSentAgain
<1> DEFINE Sent(o) ==
      (turn'[o].pc \in {"submitting", "mutating"} /\ turn'[o] # turn[o]) =>
        requests[turn[o].msg].status = "CLAIMED"
<1>1. ASSUME TypeInv, Holds, [Next]_vars, NEW p \in Turn PROVE Sent(p)
  <2>1. CASE turn'[p] = turn[p] \/ turn'[p].pc \notin Calling
    BY <2>1 DEF Calling
  <2>2. CASE Claim(p) /\ turn'[p].pc = "claimed"
    BY <2>2
  <2>3. CASE ClaimSubmissionSlot(p) \/ ClaimInteractionSlot(p)
    <3>1. turn[p].pc = "claimed"
      BY <1>1, <2>3, ClaimSubmissionSlotFacts, ClaimInteractionSlotFacts
    <3> QED BY <1>1, <3>1 DEF Holds, Claims, Calling
  <2>4. CASE ReceiveAnswer(p) \/ EnsureBinding(p)
    BY <1>1, <2>4, ReceiveAnswerFacts, EnsureBindingFacts
  <2> QED BY <1>1, <2>1, <2>2, <2>3, <2>4, Advances DEF Advance
<1>2. TypeInv /\ Holds /\ [Next]_vars => Holds'
  BY HoldsStep
<1>3. TypeInv /\ Holds /\ [Next]_vars =>
        [\A o \in Turn :
           (turn'[o].pc \in {"submitting", "mutating"} /\ turn'[o] # turn[o]) =>
             requests[turn[o].msg].status = "CLAIMED"]_vars
  BY <1>1
<1> HIDE DEF Sent
<1> QED BY <1>2, <1>3, InitHolds, InitTypeInv, NextTypeInv, PTL
        DEF Spec, NeverSentAgain

(* The chat never has more active Tasks than configured, although the      *)
(* limit is looked at long before the binding is made.                     *)
THEOREM LimitIsKept ==
  ASSUME ~Stalls PROVE Spec => []ActiveLimit
<1>1. Init => ActiveLimit
  <2> SUFFICES ASSUME Init PROVE ActiveLimit
    OBVIOUS
  <2>1. Active = {}
    BY DEF Init, Active
  <2> QED BY <2>1, FS_EmptySet DEF ActiveLimit
<1>2. TypeInv /\ Holds /\ ActiveLimit /\ [Next]_vars => ActiveLimit'
  <2> SUFFICES ASSUME TypeInv, Holds, ActiveLimit, [Next]_vars
               PROVE  Cardinality(Active') <= MaxActive
    BY DEF ActiveLimit
  <2>1. CASE Active' \subseteq Active
    BY <2>1, FewerHaveRoom DEF Active, ActiveLimit
  <2>2. ASSUME NEW o \in Turn, EnsureBinding(o),
               Active' \subseteq Active \cup {turn[o].task}
        PROVE  Cardinality(Active') <= MaxActive
    <3>1. HasRoom(Active) /\ turn[o].task \in Task
      BY <2>2, EnsureBindingFacts DEF Holds, Submitting
    <3>2. Cardinality(Active \cup {turn[o].task}) <= MaxActive
      BY <3>1, OneMoreFits DEF Active
    <3>3. Active \cup {turn[o].task} \subseteq Task
      BY <3>1 DEF Active
    <3> QED BY <2>2, <3>2, <3>3, FewerHaveRoom
  <2> QED BY <2>1, <2>2, ActiveStep
<1>3. TypeInv /\ Holds /\ [Next]_vars => Holds'
  BY HoldsStep
<1> QED BY <1>1, <1>2, <1>3, InitHolds, InitTypeInv, NextTypeInv, PTL DEF Spec
-----------------------------------------------------------------------------
(* Whose lease is whose, and when: a submission lease is that of a turn    *)
(* that submits, an interaction lease that of one that mutates that Task,  *)
(* within its try block; or the turn is dead. So the release in a finally  *)
(* block gives back all that its turn has.                                 *)
SlotHeld(u) ==
  u.pc \in Holder /\ (u.pc # "dead" => u.intent.op = "submit")

TaskHeld(u, t) ==
  u.pc \in Holder /\ (u.pc # "dead" => u.intent.op # "submit" /\ u.task = t)

HeldInv ==
  /\ slot.owner # None => SlotHeld(turn[slot.owner])
  /\ \A t \in Task : tasks[t].lease.owner # None =>
       TaskHeld(turn[tasks[t].lease.owner], t)

LEMMA OwnerTypes ==
  ASSUME TypeInv
  PROVE  /\ slot.owner \in Turn \cup {None} /\ slot \in Lease
         /\ \A t \in Task : /\ tasks[t].lease.owner \in Turn \cup {None}
                            /\ tasks[t].lease \in Lease
BY TypeFacts DEF TypeInv, TaskRow, Lease

(* A step that changes no lease leaves every holder a holder.              *)
LEMMA OthersHold ==
  ASSUME TypeInv, HeldInv, NEW o \in Turn,
         \A p \in Turn : p # o => turn'[p] = turn[p],
         slot'.owner = slot.owner,
         \A t \in Task : tasks'[t].lease.owner = tasks[t].lease.owner,
         SlotHeld(turn[o]) => SlotHeld(turn'[o]),
         \A t \in Task : TaskHeld(turn[o], t) => TaskHeld(turn'[o], t)
  PROVE  HeldInv'
<1>1. slot'.owner # None => SlotHeld(turn'[slot'.owner])
  BY OwnerTypes DEF HeldInv
<1>2. ASSUME NEW t \in Task, tasks'[t].lease.owner # None
      PROVE  TaskHeld(turn'[tasks'[t].lease.owner], t)
  BY <1>2, OwnerTypes DEF HeldInv
<1> QED BY <1>1, <1>2 DEF HeldInv, SlotHeld, TaskHeld

LEMMA KeepsTry ==
  ASSUME NEW u, NEW v, u.pc # "dead", u.pc \in InTry => v.pc \in Holder,
         v.intent = u.intent, v.task = u.task
  PROVE  /\ SlotHeld(u) => SlotHeld(v)
         /\ \A t \in Task : TaskHeld(u, t) => TaskHeld(v, t)
BY DEF SlotHeld, TaskHeld, Holder

LEMMA WorkHeld ==
  ASSUME TypeInv, HeldInv, NEW o \in Turn,
         \/ Claim(o) \/ SdarAccepts(o) \/ ReceiveAnswer(o) \/ EnsureBinding(o)
         \/ CompleteSubmission(o) \/ EndStream(o) \/ CompleteMutation(o)
         \/ Fail(o) \/ Die(o)
  PROVE  HeldInv'
<1>1. turn[o] \in TurnState /\ Placed(turn[o]) /\ TypeOK
  BY InvFacts
<1>2. "dead" \notin AtWork /\ "asking" \notin Holder /\ "releasing" \in Holder
  BY DEF AtWork, InTry, Holder
<1>3. CASE Claim(o)
  BY <1>1, <1>2, <1>3, ClaimStepFacts, KeepsTry, OthersHold DEF InTry, Holder
<1>4. CASE SdarAccepts(o)
  BY <1>4, OthersHold DEF SdarAccepts
<1>5. CASE ReceiveAnswer(o)
  <2>1. /\ turn[o].pc = "submitting" /\ turn'[o].pc \in {"binding", "bound"}
        /\ turn'[o].intent = turn[o].intent
        /\ \A p \in Turn : p # o => turn'[p] = turn[p]
    BY <1>5, ReceiveAnswerFacts
  <2>2. turn[o].intent.op = "submit"
    BY <1>1, <2>1 DEF Placed
  <2>3. /\ SlotHeld(turn[o]) => SlotHeld(turn'[o])
        /\ \A t \in Task : TaskHeld(turn[o], t) => TaskHeld(turn'[o], t)
    BY <2>1, <2>2 DEF SlotHeld, TaskHeld, Holder, InTry
  <2> QED BY <1>5, <2>1, <2>3, OthersHold DEF ReceiveAnswer
<1>6. CASE EnsureBinding(o)
  <2>1. slot' = slot
    BY <1>6 DEF EnsureBinding
  <2> QED BY <1>6, <2>1, EnsureBindingFacts, KeepsTry, OthersHold
          DEF Holder, InTry
<1>7. CASE CompleteSubmission(o)
  <2>1. slot' = slot /\ tasks' = tasks
    BY <1>7 DEF CompleteSubmission
  <2> QED BY <1>7, <2>1, CompleteSubmissionFacts, KeepsTry, OthersHold
          DEF Holder, InTry
<1>8. CASE CompleteMutation(o)
  <2>1. slot' = slot /\ tasks' = tasks
    BY <1>8 DEF CompleteMutation
  <2> QED BY <1>8, <2>1, CompleteMutationFacts, KeepsTry, OthersHold
          DEF Holder, InTry
<1>9. ASSUME NEW how \in Ended, Leave(o, how), turn[o].pc # "dead",
             slot' = slot, tasks' = tasks
      PROVE  HeldInv'
  BY <1>1, <1>2, <1>9, LeaveFacts, KeepsTry, OthersHold
<1>10. ASSUME NEW pc \in {"failed", "dead"}, Goto(o, pc), turn[o].pc \in AtWork,
              turn[o].pc \in InTry => pc = "dead",
              slot' = slot, tasks' = tasks
       PROVE  HeldInv'
  <2>1. pc \in PC /\ turn[o].pc # "dead" /\ "dead" \in Holder
    BY <1>2, <1>10 DEF PC, Ended, Holder
  <2> QED BY <1>1, <1>10, <2>1, GotoFacts, KeepsTry, OthersHold
<1>11. CASE EndStream(o)
  BY <1>9, <1>11 DEF EndStream, Ended
<1>12. CASE Fail(o) \/ Die(o)
  <2>1. slot' = slot /\ tasks' = tasks /\ turn[o].pc \in AtWork
    BY <1>12 DEF Fail, Die
  <2> QED BY <1>2, <1>9, <1>10, <1>12, <2>1 DEF Fail, Die, Ended
<1> QED BY <1>3, <1>4, <1>5, <1>6, <1>7, <1>8, <1>11, <1>12

(* The leases are taken by turns that have none.                           *)
LEMMA TakesHeld ==
  ASSUME TypeInv, HeldInv, NEW o \in Turn,
         ClaimSubmissionSlot(o) \/ ClaimInteractionSlot(o)
  PROVE  HeldInv'
<1>1. /\ turn[o].pc = "claimed" /\ o # None
      /\ \A p \in Turn : p # o => turn'[p] = turn[p]
  BY ClaimSubmissionSlotFacts, ClaimInteractionSlotFacts
<1>2. "claimed" \notin Holder
  BY DEF Holder, InTry
<1>3. slot.owner # o /\ \A t \in Task : tasks[t].lease.owner # o
  BY <1>1, <1>2 DEF HeldInv, SlotHeld, TaskHeld
<1>4. CASE ClaimSubmissionSlot(o)
  <2>1. /\ turn[o].intent.op = "submit" /\ turn'[o].intent = turn[o].intent
        /\ turn'[o].pc \in {"submitting", "refused"} /\ tasks' = tasks
    BY <1>4, ClaimSubmissionSlotFacts
  <2>2. \/ slot' = LeasedTo(o) /\ turn'[o].pc = "submitting"
        \/ slot' = slot
    <3>1. {"submitting", "refused"} \subseteq PC /\ TypeOK
      BY InvFacts DEF PC, AtWork, InTry, Ended
    <3> QED BY <1>4, <3>1, GotoFacts DEF ClaimSubmissionSlot
  <2>3. slot'.owner # None => SlotHeld(turn'[slot'.owner])
    BY <1>1, <1>3, <2>1, <2>2, LeaseTypes, OwnerTypes
    DEF HeldInv, SlotHeld, Holder, InTry
  <2>4. \A t \in Task : tasks'[t].lease.owner # None =>
          TaskHeld(turn'[tasks'[t].lease.owner], t)
    BY <1>1, <1>3, <2>1, OwnerTypes DEF HeldInv
  <2> QED BY <2>3, <2>4 DEF HeldInv, SlotHeld, TaskHeld
<1>5. CASE ClaimInteractionSlot(o)
  <2> DEFINE t0 == turn[o].task
  <2>1. /\ t0 \in Task /\ turn'[o].task = t0
        /\ turn'[o].intent = turn[o].intent
        /\ turn[o].intent.op # "submit" /\ slot' = slot
    BY <1>5, ClaimInteractionSlotFacts DEF ClaimInteractionSlot, Submits
  <2>2. \/ /\ tasks' = [tasks EXCEPT ![t0].lease = LeasedTo(o)]
           /\ turn'[o].pc = "mutating"
        \/ tasks' = tasks
    <3>1. {"mutating", "refused"} \subseteq PC /\ TypeOK
      BY InvFacts DEF PC, AtWork, InTry, Ended
    <3> QED BY <1>5, <3>1, GotoFacts DEF ClaimInteractionSlot
  <2>3. slot'.owner # None => SlotHeld(turn'[slot'.owner])
    BY <1>1, <1>3, <2>1, OwnerTypes DEF HeldInv
  <2>4. ASSUME NEW t \in Task, tasks'[t].lease.owner # None
        PROVE  TaskHeld(turn'[tasks'[t].lease.owner], t)
    <3>1. CASE tasks'[t] = tasks[t]
      BY <1>1, <1>3, <2>4, <3>1, OwnerTypes DEF HeldInv
    <3>2. CASE tasks'[t] # tasks[t]
      <4> HIDE DEF t0
      <4>1. tasks \in [Task -> TaskRow]
        BY TypeFacts, InvFacts
      <4>2. /\ t = t0 /\ tasks'[t].lease = LeasedTo(o)
            /\ turn'[o].pc = "mutating"
        BY <2>1, <2>2, <3>2, <4>1, LeaseFacts, LeaseTypes
      <4> QED BY <2>1, <4>2, LeaseTypes DEF TaskHeld, Holder, InTry
    <3> QED BY <3>1, <3>2
  <2> QED BY <2>3, <2>4 DEF HeldInv, SlotHeld, TaskHeld
<1> QED BY <1>4, <1>5

(* And given back: all that the turn has, or all that it still has.        *)
LEMMA GivesHeld ==
  ASSUME TypeInv, HeldInv, NEW o \in Turn, Release(o) \/ Rest(o)
  PROVE  HeldInv'
<1>1. /\ \A p \in Turn : p # o => turn'[p] = turn[p]
      /\ slot' = slot \/ slot.owner = o
      /\ \A t \in Task : tasks'[t] = tasks[t] \/ tasks[t].lease.owner = o
  BY ReleaseFacts, RestFacts
<1>2. slot.owner = o => slot'.owner = None
  <2>1. CASE Release(o)
    <3>1. turn[o].pc = "releasing"
      BY <2>1, ReleaseFacts
    <3>2. slot.owner = o => turn[o].intent.op = "submit"
      BY <3>1 DEF HeldInv, SlotHeld
    <3> QED BY <2>1, <3>2, LeaseTypes DEF Release, Submits
  <2>2. CASE Rest(o)
    BY <2>2, OwnerTypes DEF Rest, Lease
  <2> QED BY <2>1, <2>2
<1>3. ASSUME NEW t \in Task, tasks[t].lease.owner = o
      PROVE  tasks'[t].lease.owner = None
  <2>0. tasks \in [Task -> TaskRow] /\ tasks[t] \in TaskRow
    BY TypeFacts DEF TypeInv
  <2>1. CASE Release(o)
    <3>1. turn[o].pc = "releasing"
      BY <2>1, ReleaseFacts
    <3>2. turn[o].intent.op # "submit" /\ turn[o].task = t
      BY <1>3, <3>1 DEF HeldInv, TaskHeld
    <3>3. tasks' = [tasks EXCEPT ![t].lease = NoLease]
      BY <1>3, <2>1, <3>2 DEF Release, Submits
    <3> QED BY <2>0, <3>3, LeaseFacts, LeaseTypes
  <2>2. CASE Rest(o)
    <3>1. tasks'[t] = [tasks[t] EXCEPT !.lease.owner = None]
      BY <1>3, <2>2 DEF Rest
    <3> QED BY <2>0, <3>1 DEF TaskRow, Lease
  <2> QED BY <2>1, <2>2
<1>4. slot'.owner # None => SlotHeld(turn'[slot'.owner])
  BY <1>1, <1>2, OwnerTypes DEF HeldInv
<1>5. ASSUME NEW t \in Task, tasks'[t].lease.owner # None
      PROVE  TaskHeld(turn'[tasks'[t].lease.owner], t)
  BY <1>1, <1>3, <1>5, OwnerTypes DEF HeldInv
<1> QED BY <1>4, <1>5 DEF HeldInv, SlotHeld, TaskHeld

LEMMA HeldStep == TypeInv /\ HeldInv /\ [Next]_vars => HeldInv'
<1> SUFFICES ASSUME TypeInv, HeldInv, [Next]_vars PROVE HeldInv'
  OBVIOUS
<1>1. ASSUME NEW o \in Turn, Work(o) \/ Fail(o) \/ Die(o) PROVE HeldInv'
  BY <1>1, WorkHeld, TakesHeld, GivesHeld DEF Work
<1>2. ASSUME NEW o \in Turn, NEW m \in Message, NEW i \in Intent, Begin(o, m, i)
      PROVE  HeldInv'
  <2>1. turn[o].pc = "idle" /\ "idle" \notin Holder
    BY <1>2 DEF Begin, Holder, InTry
  <2>2. /\ SlotHeld(turn[o]) => SlotHeld(turn'[o])
        /\ \A t \in Task : TaskHeld(turn[o], t) => TaskHeld(turn'[o], t)
    BY <2>1 DEF SlotHeld, TaskHeld
  <2> QED BY <1>2, <2>2, BeginFacts, OthersHold
<1>3. CASE Restart
  <2>1. ASSUME NEW p \in Turn, turn[p].pc \in Holder
        PROVE  /\ SlotHeld(turn[p]) => SlotHeld(turn'[p])
               /\ \A t \in Task : TaskHeld(turn[p], t) => TaskHeld(turn'[p], t)
    <3>1. turn \in [Turn -> TurnState]
      BY TypeFacts DEF TypeInv
    <3>2. turn'[p].pc = "dead"
      BY <1>3, <2>1, <3>1 DEF Restart, Holder, AtWork, TurnState
    <3> QED BY <3>2 DEF SlotHeld, TaskHeld, Holder
  <2>2. ASSUME NEW l \in Lease
        PROVE  Cleared(l).owner # None => Cleared(l).owner = l.owner
    BY DEF Cleared, NoLease
  <2>3. slot'.owner # None => SlotHeld(turn'[slot'.owner])
    <3>1. slot' = Cleared(slot)
      BY <1>3 DEF Restart
    <3> QED BY <2>1, <2>2, <3>1, OwnerTypes DEF HeldInv, SlotHeld
  <2>4. ASSUME NEW t \in Task, tasks'[t].lease.owner # None
        PROVE  TaskHeld(turn'[tasks'[t].lease.owner], t)
    <3>1. tasks'[t].lease = Cleared(tasks[t].lease)
      BY <1>3, TypeFacts DEF Restart, TypeInv, TaskRow
    <3>2. /\ tasks'[t].lease.owner = tasks[t].lease.owner
          /\ tasks[t].lease.owner \in Turn
      BY <2>2, <2>4, <3>1, OwnerTypes
    <3>3. TaskHeld(turn[tasks[t].lease.owner], t)
      BY <2>4, <3>2 DEF HeldInv
    <3> QED BY <2>1, <3>2, <3>3 DEF TaskHeld
  <2> QED BY <2>3, <2>4 DEF HeldInv, SlotHeld, TaskHeld
<1>4. CASE \/ \E m \in Message : RequestLeaseExpires(m)
           \/ SlotExpires
           \/ \E t \in Task : InteractionLeaseExpires(t) \/ RecordTerminal(t)
           \/ UNCHANGED vars
  <2>1. turn' = turn /\ slot'.owner = slot.owner
    BY <1>4, OwnerTypes DEF RequestLeaseExpires, SlotExpires, Lease, vars,
                            InteractionLeaseExpires, RecordTerminal
  <2>2. ASSUME NEW t \in Task PROVE tasks'[t].lease.owner = tasks[t].lease.owner
    <3>1. tasks \in [Task -> TaskRow]
      BY TypeFacts DEF TypeInv
    <3> QED BY <1>4, <3>1 DEF RequestLeaseExpires, SlotExpires, TaskRow, Lease,
                              InteractionLeaseExpires, RecordTerminal, vars
  <2> QED BY <2>1, <2>2 DEF HeldInv, SlotHeld, TaskHeld
<1> QED BY <1>1, <1>2, <1>3, <1>4 DEF Next

(* No way out of a handler keeps a submission or an interaction lease: who *)
(* has one is within its try block or died there. It needs no assumption   *)
(* about turns that outlive their leases.                                  *)
THEOREM LeasesComeBack == Spec => []LeasesAreReturned
<1>1. Init => HeldInv
  BY DEF Init, HeldInv, NoLease
<1>2. HeldInv => LeasesAreReturned
  BY DEF HeldInv, LeasesAreReturned, SlotHeld, TaskHeld
<1> QED BY <1>1, <1>2, HeldStep, InitTypeInv, NextTypeInv, PTL DEF Spec
=============================================================================
