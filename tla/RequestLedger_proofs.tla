------------------------ MODULE RequestLedger_proofs ------------------------
(***************************************************************************)
(* Proofs about RequestLedger for any keys, contents, owners and results.  *)
(*                                                                         *)
(* The argument rests on one observation: a lease owner is never drawn     *)
(* twice. A turn that found a row in its way owns no row (Waiting), so     *)
(* the row it may take over is the only one it will work for (SoleLessee); *)
(* and a completed row is leased to nobody, so that none of the guarded    *)
(* updates hits it again (FinalStep), and every answer stays right.        *)
(***************************************************************************)
EXTENDS RequestLedger, TLAPS

(* A turn that has a request in hand, and one that waits for a row.        *)
Placed ==
  \A o \in Owner : turn[o].pc \in {"conflicted", "working", "answered"} =>
    turn[o].key \in Key /\ turn[o].hash \in Content

Waiting == \A o \in Owner : turn[o].pc = "conflicted" => Fresh(o)

IInv == TypeOK /\ Placed /\ Waiting /\ AnswersAgree /\ SoleLessee

USE NoneAssumption DEF NoneAssumption

-----------------------------------------------------------------------------
(* What a step does to the rows: a completed row stays what it is, whether *)
(* or not the row the step aims at is one.                                 *)
Final(k) == requests[k].status = "COMPLETED" => requests'[k] = requests[k]

(* A step never changes a completed row.                                   *)
LEMMA FinalStep == TypeOK /\ [Next]_vars => \A k \in Key : Final(k)
<1> SUFFICES ASSUME TypeOK, [Next]_vars, NEW k \in Key PROVE Final(k)
  OBVIOUS
<1> USE DEF Final
<1>1. ASSUME NEW o \in Owner, Step(o) PROVE Final(k)
  <2>1. CASE ResolveClaim(o)
    BY <2>1 DEF ResolveClaim, TakeOver, Expired, TypeOK
  <2>2. CASE Complete(o)
    BY <2>2 DEF Complete, CompleteClaim, OwnsClaim, TypeOK
  <2>3. CASE Abandon(o)
    BY <2>3 DEF Abandon, AbandonClaim, OwnsClaim, TypeOK
  <2>4. CASE GiveUp(o) \/ Rest(o)
    BY <2>4 DEF GiveUp, Rest
  <2> QED BY <1>1, <2>1, <2>2, <2>3, <2>4 DEF Step
<1>2. ASSUME NEW o \in Owner, NEW l \in Key, NEW h \in Content, Ask(o, l, h)
      PROVE Final(k)
  BY <1>2 DEF Ask, ClaimNew, ClaimExisting, InsertClaim, TypeOK
<1>3. ASSUME NEW l \in Key, LeaseExpires(l) PROVE Final(k)
  BY <1>3 DEF LeaseExpires, ExpireClaim, TypeOK
<1>4. CASE Restart
  BY <1>4 DEF Restart, ReclaimExpired, Expired
<1>5. CASE UNCHANGED vars
  BY <1>5 DEF vars
<1> QED BY <1>1, <1>2, <1>3, <1>4, <1>5 DEF Next

-----------------------------------------------------------------------------
LEMMA InitIInv == Init => IInv
BY DEF Init, IInv, TypeOK, Placed, Waiting, AnswersAgree, SoleLessee, NoRequest,
       Request, RequestStatus, WellFormed, IdleTurn, Turn, TurnState

(* How a turn ends: it keeps its request and gets an answer, or none.      *)
LEMMA TurnEnds ==
  ASSUME TypeOK, NEW o \in Owner, NEW how \in TurnState,
         NEW r \in Result \cup {None}, EndTurn(o, how, r)
  PROVE  /\ turn' \in [Owner -> Turn]
         /\ \A p \in Owner \ {o} : turn'[p] = turn[p]
         /\ turn'[o].pc = how /\ turn'[o].answer = r
         /\ turn'[o].key = turn[o].key /\ turn'[o].hash = turn[o].hash
<1>1. turn[o] \in Turn
  BY DEF TypeOK
<1>2. [turn[o] EXCEPT !.pc = how, !.answer = r] \in Turn
  BY <1>1 DEF Turn
<1>3. turn' = [turn EXCEPT ![o] = [turn[o] EXCEPT !.pc = how, !.answer = r]]
  BY DEF EndTurn
<1> QED BY <1>1, <1>2, <1>3 DEF TypeOK, Turn

(* Each kind of step preserves the inductive invariant.                    *)
LEMMA AskKeepsIInv ==
  ASSUME IInv, NEW o \in Owner, NEW k \in Key, NEW h \in Content, Ask(o, k, h)
  PROVE  IInv'
<1> USE DEF IInv
<1>1. CASE ClaimNew(o, k, h)
  <2> USE DEF ClaimNew, InsertClaim, Claimed, TypeOK
  <2>1. TypeOK'
    BY ZenonT(60), <1>1 DEF Request, RequestStatus, WellFormed, Turn, TurnState
  <2>2. Placed' /\ Waiting'
    BY <1>1 DEF Placed, Waiting, Fresh, Turn
  <2>3. AnswersAgree'
    BY <1>1 DEF AnswersAgree, Placed, Turn
  <2>4. SoleLessee'
    BY <1>1 DEF SoleLessee, Fresh, Turn
  <2> QED BY <2>1, <2>2, <2>3, <2>4
<1>2. CASE ClaimExisting(o, k, h)
  <2> USE DEF ClaimExisting, TypeOK
  <2>1. TypeOK'
    BY ZenonT(60), <1>2 DEF Turn, TurnState
  <2>2. Placed' /\ Waiting'
    BY <1>2 DEF Placed, Waiting, Fresh, Turn
  <2>3. AnswersAgree'
    BY <1>2 DEF AnswersAgree, Turn
  <2>4. SoleLessee'
    BY <1>2 DEF SoleLessee, Turn
  <2> QED BY <2>1, <2>2, <2>3, <2>4
<1> QED BY <1>1, <1>2 DEF Ask

LEMMA ResolveKeepsIInv ==
  ASSUME IInv, NEW o \in Owner, ResolveClaim(o)
  PROVE  IInv'
<1> DEFINE k == turn[o].key
           h == turn[o].hash
<1>0. /\ k \in Key /\ h \in Content /\ Fresh(o)
      /\ turn[o].pc = "conflicted"
  BY DEF IInv, Placed, Waiting, ResolveClaim
<1> USE DEF IInv, TypeOK
<1>1. ASSUME NEW how \in {"failed", "refused"},
             requests' = requests, EndTurn(o, how, None)
      PROVE IInv'
  <2>0. /\ turn' \in [Owner -> Turn] /\ turn'[o].pc = how
        /\ \A p \in Owner \ {o} : turn'[p] = turn[p]
    BY <1>1, TurnEnds DEF TurnState
  <2> QED
    BY <1>1, <2>0 DEF Placed, Waiting, Fresh, AnswersAgree, SoleLessee
<1>2. CASE /\ requests' = requests /\ Replays(k, h)
           /\ EndTurn(o, "answered", requests[k].result)
  <2>0. /\ turn' \in [Owner -> Turn] /\ turn'[o].pc = "answered"
        /\ turn'[o].answer = requests[k].result
        /\ turn'[o].key = k /\ turn'[o].hash = h
        /\ \A p \in Owner \ {o} : turn'[p] = turn[p]
    <3>1. requests[k].result \in Result \cup {None}
      BY <1>0 DEF Request
    <3> QED BY <1>2, <3>1, TurnEnds DEF TurnState
  <2>1. Placed' /\ Waiting' /\ SoleLessee'
    BY <1>0, <1>2, <2>0 DEF Placed, Waiting, Fresh, SoleLessee
  <2>2. AnswersAgree'
    BY <1>0, <1>2, <2>0 DEF AnswersAgree, Replays
  <2> QED BY <1>2, <2>0, <2>1, <2>2
<1>3. CASE TakeOver(k, h, o) /\ turn' = [turn EXCEPT ![o].pc = "working"]
  <2> USE DEF TakeOver, Expired
  <2>1. TypeOK'
    BY <1>0, <1>3 DEF Turn, TurnState, Request, WellFormed
  <2>2. Placed' /\ Waiting'
    BY <1>0, <1>3 DEF Placed, Waiting, Fresh, Turn, Request
  <2>3. AnswersAgree'
    BY <1>0, <1>3 DEF AnswersAgree, Placed, Turn
  <2>4. SoleLessee'
    BY <1>0, <1>3 DEF SoleLessee, Fresh, Turn, Request
  <2> QED BY <2>1, <2>2, <2>3, <2>4
<1> QED BY <1>1, <1>2, <1>3 DEF ResolveClaim

LEMMA CompleteKeepsIInv ==
  ASSUME IInv, NEW o \in Owner, Complete(o)
  PROVE  IInv'
<1> DEFINE k == turn[o].key
           h == turn[o].hash
<1>0. k \in Key /\ h \in Content /\ turn[o].pc = "working"
  BY DEF IInv, Placed, Complete
<1> USE DEF IInv, TypeOK
<1>1. ASSUME NEW r \in Result, CompleteClaim(k, h, o, r), EndTurn(o, "answered", r)
      PROVE IInv'
  <2>0. /\ turn' \in [Owner -> Turn]
        /\ turn'[o].pc = "answered" /\ turn'[o].answer = r
        /\ turn'[o].key = k /\ turn'[o].hash = h
        /\ \A p \in Owner \ {o} : turn'[p] = turn[p]
    BY <1>1, TurnEnds DEF TurnState
  <2> USE DEF CompleteClaim, CompletedRow, OwnsClaim
  <2>1. TypeOK'
    <3>0. requests[k] \in Request
      BY <1>0
    <3>1. CompletedRow(requests[k], r) \in Request
      BY <3>0 DEF Request, RequestStatus
    <3>2. WellFormed(CompletedRow(requests[k], r))
      BY <1>0, <1>1, <3>1 DEF WellFormed, Request
    <3> QED
      <4> HIDE DEF CompletedRow
      <4> QED BY <1>0, <1>1, <2>0, <3>1, <3>2
  <2>2. Placed' /\ Waiting'
    BY <1>0, <1>1, <2>0 DEF Placed, Waiting, Fresh, Request
  <2>3. AnswersAgree'
    BY <1>0, <1>1, <2>0 DEF AnswersAgree, Placed, Request
  <2>4. SoleLessee'
    BY <1>0, <1>1, <2>0 DEF SoleLessee, Request
  <2> QED BY <2>1, <2>2, <2>3, <2>4
<1>2. CASE requests' = requests /\ EndTurn(o, "failed", None)
  <2>0. /\ turn' \in [Owner -> Turn] /\ turn'[o].pc = "failed"
        /\ \A p \in Owner \ {o} : turn'[p] = turn[p]
    BY <1>2, TurnEnds DEF TurnState
  <2> QED
    BY <1>2, <2>0 DEF Placed, Waiting, Fresh, AnswersAgree, SoleLessee
<1> QED BY <1>1, <1>2 DEF Complete

LEMMA AbandonKeepsIInv ==
  ASSUME IInv, NEW o \in Owner, Abandon(o)
  PROVE  IInv'
<1> DEFINE k == turn[o].key
           h == turn[o].hash
<1>0. k \in Key /\ h \in Content /\ turn[o].pc = "working"
  BY DEF IInv, Placed, Abandon
<1> USE DEF IInv, TypeOK
<1>1. /\ turn' \in [Owner -> Turn] /\ turn'[o].pc = "refused"
      /\ \A p \in Owner \ {o} : turn'[p] = turn[p]
  BY TurnEnds DEF Abandon, TurnState
<1>2. CASE OwnsClaim(k, h, o)
  <2>0. requests' = [requests EXCEPT ![k] = NoRequest]
    BY <1>2 DEF Abandon, AbandonClaim
  <2> USE DEF OwnsClaim, NoRequest
  <2>1. TypeOK'
    BY <1>0, <1>1, <2>0 DEF Request, RequestStatus, WellFormed
  <2>2. Placed' /\ Waiting'
    BY <1>0, <1>1, <2>0 DEF Placed, Waiting, Fresh
  <2>3. AnswersAgree'
    BY <1>0, <1>1, <1>2, <2>0 DEF AnswersAgree, Placed
  <2>4. SoleLessee'
    BY <1>0, <1>1, <2>0 DEF SoleLessee
  <2> QED BY <2>1, <2>2, <2>3, <2>4
<1>3. CASE ~OwnsClaim(k, h, o)
  <2>0. requests' = requests
    BY <1>3 DEF Abandon, AbandonClaim
  <2> QED
    BY <1>1, <2>0 DEF Placed, Waiting, Fresh, AnswersAgree, SoleLessee
<1> QED BY <1>2, <1>3

LEMMA RestKeepsIInv ==
  ASSUME IInv, NEW o \in Owner, GiveUp(o) \/ Rest(o)
  PROVE  IInv'
<1> USE DEF IInv, TypeOK
<1>1. /\ turn' \in [Owner -> Turn] /\ turn'[o].pc \in {"failed", "idle"}
      /\ \A p \in Owner \ {o} : turn'[p] = turn[p]
  <2>1. CASE GiveUp(o)
    BY <2>1, TurnEnds DEF GiveUp, TurnState
  <2>2. CASE Rest(o)
    BY <2>2 DEF Rest, IdleTurn, Turn, TurnState
  <2> QED BY <2>1, <2>2
<1>2. requests' = requests
  BY DEF GiveUp, Rest
<1> QED BY <1>1, <1>2 DEF Placed, Waiting, Fresh, AnswersAgree, SoleLessee

LEMMA ExpireKeepsIInv ==
  ASSUME IInv, NEW k \in Key, LeaseExpires(k)
  PROVE  IInv'
<1> USE DEF IInv, TypeOK, LeaseExpires, ExpireClaim
<1>1. TypeOK'
  BY ZenonT(60) DEF Request, WellFormed
<1>2. Placed' /\ Waiting' /\ SoleLessee'
  BY DEF Placed, Waiting, Fresh, SoleLessee, Request
<1>3. AnswersAgree'
  BY DEF AnswersAgree, Placed, Request
<1> QED BY <1>1, <1>2, <1>3

LEMMA RestartKeepsIInv == ASSUME IInv, Restart PROVE IInv'
<1>1. \A o \in Owner : turn'[o] = IdleTurn
  BY DEF Restart
<1>2. turn' \in [Owner -> Turn]
  BY DEF Restart, IdleTurn, Turn, TurnState
<1>3. ASSUME NEW k \in Key
      PROVE  requests'[k] \in Request /\ WellFormed(requests'[k])
  <2>1. requests[k] \in Request /\ WellFormed(requests[k])
    BY DEF IInv, TypeOK
  <2>2. \/ requests'[k] = requests[k]
        \/ /\ requests[k].status = "CLAIMED"
           /\ requests'[k] = [requests[k] EXCEPT !.owner = None, !.leased = TRUE]
    BY DEF Restart, ReclaimExpired, Expired
  <2> QED BY <2>1, <2>2 DEF Request, RequestStatus, WellFormed
<1>4. requests' = [k \in Key |-> requests'[k]]
  BY DEF Restart, ReclaimExpired
<1> QED
  BY <1>1, <1>2, <1>3, <1>4
     DEF IInv, TypeOK, IdleTurn, Placed, Waiting, AnswersAgree, SoleLessee

LEMMA NextIInv == IInv /\ [Next]_vars => IInv'
<1> SUFFICES ASSUME IInv, [Next]_vars PROVE IInv'
  OBVIOUS
<1>1. ASSUME NEW o \in Owner, Step(o) PROVE IInv'
  BY <1>1, ResolveKeepsIInv, CompleteKeepsIInv, AbandonKeepsIInv, RestKeepsIInv
     DEF Step
<1>2. CASE UNCHANGED vars
  BY <1>2 DEF vars, IInv, TypeOK, Placed, Waiting, Fresh, AnswersAgree, SoleLessee
<1> QED BY <1>1, <1>2, AskKeepsIInv, ExpireKeepsIInv, RestartKeepsIInv DEF Next

LEMMA Invariance == Spec => []IInv
<1> QED BY InitIInv, NextIInv, PTL DEF Spec

(* The rows always satisfy the table's constraints.                        *)
THEOREM TypeCorrect == Spec => []TypeOK
BY Invariance, PTL DEF IInv

(* Every answer is the one the row holds now.                              *)
THEOREM AnswersAlwaysAgree == Spec => []AnswersAgree
BY Invariance, PTL DEF IInv

(* No turn ever works for two rows, or under another's hash.               *)
THEOREM LesseesAreSole == Spec => []SoleLessee
BY Invariance, PTL DEF IInv

(* A completed row never changes.                                          *)
THEOREM CompletedStaysFinal == Spec => CompletedIsFinal
<1>1. TypeOK /\ [Next]_vars =>
        [\A k \in Key : requests[k].status = "COMPLETED" =>
           requests'[k] = requests[k]]_vars
  BY FinalStep DEF Final
<1> QED BY <1>1, TypeCorrect, PTL DEF Spec, CompletedIsFinal

-----------------------------------------------------------------------------
(* The refinement: D and A are what the contract sees of a state.          *)
D == [k \in Key |-> DecidedBy(requests[k])]
A == [o \in Owner |-> AnswerOf(turn[o])]

LEMMA InitRefines == Init => Contract!Init
BY DEF Init, Contract!Init, DecidedBy, AnswerOf, NoRequest, IdleTurn

(* A step that neither completes a row nor answers a turn is invisible.    *)
LEMMA Invisible ==
  ASSUME TypeOK, TypeOK',
         \A k \in Key : DecidedBy(requests'[k]) = DecidedBy(requests[k]),
         \A o \in Owner : AnswerOf(turn'[o]) = AnswerOf(turn[o])
  PROVE  D' = D /\ A' = A
BY DEF D, A

(* A turn that forgets its answer is a Forget step of the contract.        *)
LEMMA ForgetRefines ==
  ASSUME TypeOK, TypeOK', NEW G \in SUBSET Owner,
         \A k \in Key : DecidedBy(requests'[k]) = DecidedBy(requests[k]),
         \A o \in Owner :
           AnswerOf(turn'[o]) = IF o \in G THEN None ELSE AnswerOf(turn[o])
  PROVE  Contract!Next
<1>1. D' = D
  BY DEF D
<1>2. A' = [o \in Owner |-> IF o \in G THEN None ELSE A[o]]
  BY DEF A
<1>3. Contract!Forget(G)
  BY <1>1, <1>2 DEF Contract!Forget, D, A
<1> QED BY <1>3 DEF Contract!Next

(* A replay is a Repeat step.                                              *)
LEMMA RepeatRefines ==
  ASSUME TypeOK, TypeOK', NEW o \in Owner, NEW k \in Key, NEW h \in Content,
         turn[o].pc # "answered", turn[o].key = k, turn[o].hash = h,
         Replays(k, h), requests' = requests,
         EndTurn(o, "answered", requests[k].result)
  PROVE  Contract!Next
<1>1. requests[k].result \in Result \cup {None}
  BY DEF TypeOK, Request
<1>2. /\ turn'[o].pc = "answered" /\ turn'[o].answer = requests[k].result
      /\ turn'[o].key = k /\ turn'[o].hash = h
      /\ \A p \in Owner \ {o} : turn'[p] = turn[p]
  BY <1>1, TurnEnds DEF TurnState
<1>3. D[k] = [hash |-> h, result |-> requests[k].result]
  BY DEF D, DecidedBy, Replays
<1>4. A[o] = None
  BY DEF A, AnswerOf
<1>5. A' = [A EXCEPT ![o] = [key |-> k, hash |-> h, result |-> D[k].result]]
  <2>1. A'[o] = [key |-> k, hash |-> h, result |-> D[k].result]
    BY <1>2, <1>3 DEF A, AnswerOf
  <2>2. \A p \in Owner \ {o} : A'[p] = A[p]
    BY <1>2 DEF A
  <2> QED BY <2>1, <2>2 DEF A
<1>6. D[k] # None /\ D[k].hash = h
  <2>1. requests[k].result \in Result
    BY <1>1 DEF TypeOK, WellFormed, Replays
  <2> QED BY <1>3, <2>1, DecisionAssumption DEF DecisionAssumption
<1>7. D' = D
  BY DEF D
<1>8. Contract!Repeat(o, k, h)
  BY <1>3, <1>4, <1>5, <1>6, <1>7 DEF Contract!Repeat, D, A
<1> QED BY <1>8 DEF Contract!Next

(* The completion of a claim is a Decide step.                             *)
LEMMA DecideRefines ==
  ASSUME TypeOK, TypeOK', NEW o \in Owner, NEW k \in Key, NEW h \in Content,
         NEW r \in Result,
         turn[o].pc = "working", turn[o].key = k, turn[o].hash = h,
         CompleteClaim(k, h, o, r), EndTurn(o, "answered", r)
  PROVE  Contract!Next
<1>1. /\ turn'[o].pc = "answered" /\ turn'[o].answer = r
      /\ turn'[o].key = k /\ turn'[o].hash = h
      /\ \A p \in Owner \ {o} : turn'[p] = turn[p]
  BY TurnEnds DEF TurnState
<1>2. /\ requests[k].status = "CLAIMED" /\ requests[k].hash = h
      /\ requests' = [requests EXCEPT ![k] = CompletedRow(@, r)]
  BY DEF CompleteClaim, OwnsClaim
<1>3. D[k] = None /\ A[o] = None
  BY <1>2 DEF D, DecidedBy, A, AnswerOf
<1>4. D' = [D EXCEPT ![k] = [hash |-> h, result |-> r]]
  <2>1. requests'[k] = CompletedRow(requests[k], r)
    BY <1>2 DEF TypeOK
  <2>2. DecidedBy(requests'[k]) = [hash |-> h, result |-> r]
    <3>1. requests[k] \in Request
      BY DEF TypeOK
    <3>2. /\ CompletedRow(requests[k], r).status = "COMPLETED"
          /\ CompletedRow(requests[k], r).hash = h
          /\ CompletedRow(requests[k], r).result = r
      BY <1>2, <3>1 DEF CompletedRow, Request
    <3> QED BY <2>1, <3>2 DEF DecidedBy
  <2>3. \A l \in Key \ {k} : requests'[l] = requests[l]
    BY <1>2 DEF TypeOK
  <2> QED BY <2>2, <2>3 DEF D
<1>5. A' = [A EXCEPT ![o] = [key |-> k, hash |-> h, result |-> r]]
  <2>1. A'[o] = [key |-> k, hash |-> h, result |-> r]
    BY <1>1 DEF A, AnswerOf
  <2>2. \A p \in Owner \ {o} : A'[p] = A[p]
    BY <1>1 DEF A
  <2> QED BY <2>1, <2>2 DEF A
<1>6. Contract!Decide(o, k, h, r)
  BY <1>3, <1>4, <1>5 DEF Contract!Decide, D, A
<1> QED BY <1>6 DEF Contract!Next

LEMMA StepRefines ==
  ASSUME IInv, IInv', [Next]_vars
  PROVE  Contract!Next \/ (D' = D /\ A' = A)
<1> USE DEF IInv
<1>1. ASSUME NEW o \in Owner, ResolveClaim(o)
      PROVE  Contract!Next \/ (D' = D /\ A' = A)
  <2> DEFINE k == turn[o].key
             h == turn[o].hash
  <2>0. turn[o].pc = "conflicted" /\ k \in Key /\ h \in Content
    BY <1>1 DEF ResolveClaim, Placed
  <2>1. ASSUME NEW how \in {"failed", "refused"},
               requests' = requests, EndTurn(o, how, None)
        PROVE  D' = D /\ A' = A
    <3>1. turn'[o].pc = how /\ \A p \in Owner \ {o} : turn'[p] = turn[p]
      BY <2>1, TurnEnds DEF TurnState
    <3> QED BY <2>0, <2>1, <3>1, Invisible DEF AnswerOf
  <2>2. CASE Replays(k, h) /\ EndTurn(o, "answered", requests[k].result)
             /\ requests' = requests
    BY <2>0, <2>2, RepeatRefines
  <2>3. CASE TakeOver(k, h, o) /\ turn' = [turn EXCEPT ![o].pc = "working"]
    <3>1. \A l \in Key : DecidedBy(requests'[l]) = DecidedBy(requests[l])
      BY <2>0, <2>3 DEF TakeOver, Expired, DecidedBy, TypeOK, Request
    <3>2. \A p \in Owner : AnswerOf(turn'[p]) = AnswerOf(turn[p])
      BY <2>0, <2>3 DEF AnswerOf, TypeOK, Turn
    <3> QED BY <3>1, <3>2, Invisible
  <2> QED BY <1>1, <2>1, <2>2, <2>3 DEF ResolveClaim
<1>2. ASSUME NEW o \in Owner, Complete(o)
      PROVE  Contract!Next \/ (D' = D /\ A' = A)
  <2> DEFINE k == turn[o].key
             h == turn[o].hash
  <2>0. turn[o].pc = "working" /\ k \in Key /\ h \in Content
    BY <1>2 DEF Complete, Placed
  <2>1. ASSUME NEW r \in Result, CompleteClaim(k, h, o, r), EndTurn(o, "answered", r)
        PROVE  Contract!Next
    BY <2>0, <2>1, DecideRefines
  <2>2. CASE requests' = requests /\ EndTurn(o, "failed", None)
    <3>1. turn'[o].pc = "failed" /\ \A p \in Owner \ {o} : turn'[p] = turn[p]
      BY <2>2, TurnEnds DEF TurnState
    <3> QED BY <2>0, <2>2, <3>1, Invisible DEF AnswerOf
  <2> QED BY <1>2, <2>1, <2>2 DEF Complete
<1>3. ASSUME NEW o \in Owner, Abandon(o) \/ GiveUp(o)
      PROVE  D' = D /\ A' = A
  <2>1. /\ turn[o].pc = "working" /\ turn'[o].pc \in {"refused", "failed"}
        /\ \A p \in Owner \ {o} : turn'[p] = turn[p]
    BY <1>3, TurnEnds DEF Abandon, GiveUp, TurnState
  <2>2. \A l \in Key : DecidedBy(requests'[l]) = DecidedBy(requests[l])
    BY <1>3 DEF Abandon, GiveUp, AbandonClaim, OwnsClaim, NoRequest, DecidedBy,
                TypeOK
  <2> QED BY <2>1, <2>2, Invisible DEF AnswerOf
<1>4. ASSUME NEW o \in Owner, Rest(o) PROVE Contract!Next
  <2>1. \A p \in Owner : AnswerOf(turn'[p]) =
                            IF p \in {o} THEN None ELSE AnswerOf(turn[p])
    BY <1>4 DEF Rest, IdleTurn, AnswerOf, TypeOK
  <2> QED BY <1>4, <2>1, ForgetRefines DEF Rest
<1>5. CASE Restart
  <2>1. \A p \in Owner : AnswerOf(turn'[p]) =
                            IF p \in Owner THEN None ELSE AnswerOf(turn[p])
    BY <1>5 DEF Restart, IdleTurn, AnswerOf
  <2>2. \A l \in Key : DecidedBy(requests'[l]) = DecidedBy(requests[l])
    <3>1. ASSUME NEW l \in Key
          PROVE  \/ requests'[l] = requests[l]
                 \/ /\ requests[l].status = "CLAIMED"
                    /\ requests'[l].status = "CLAIMED"
      BY ZenonT(60), <1>5 DEF Restart, ReclaimExpired, Expired, TypeOK, Request
    <3> QED BY <3>1 DEF DecidedBy
  <2> QED BY <2>1, <2>2, ForgetRefines
<1>6. ASSUME NEW o \in Owner, NEW k \in Key, NEW h \in Content, Ask(o, k, h)
      PROVE  D' = D /\ A' = A
  <2>1. \A l \in Key : DecidedBy(requests'[l]) = DecidedBy(requests[l])
    BY <1>6 DEF Ask, ClaimNew, ClaimExisting, InsertClaim, Claimed, DecidedBy, TypeOK
  <2>2. \A p \in Owner : AnswerOf(turn'[p]) = AnswerOf(turn[p])
    <3>1. ASSUME NEW p \in Owner
          PROVE  \/ turn'[p] = turn[p]
                 \/ turn[p].pc = "idle" /\ turn'[p].pc \in {"working", "conflicted"}
      <4>1. ASSUME NEW pc \in {"working", "conflicted"}, turn[o].pc = "idle",
                   turn' = [turn EXCEPT ![o] =
                              [@ EXCEPT !.pc = pc, !.key = k, !.hash = h]]
            PROVE  turn'[o].pc = pc /\ \A q \in Owner \ {o} : turn'[q] = turn[q]
        BY <4>1 DEF TypeOK, Turn
      <4> QED BY <1>6, <4>1 DEF Ask, ClaimNew, ClaimExisting
    <3> QED BY <3>1 DEF AnswerOf
  <2> QED BY <2>1, <2>2, Invisible
<1>7. ASSUME NEW k \in Key, LeaseExpires(k) PROVE D' = D /\ A' = A
  <2>1. \A l \in Key : DecidedBy(requests'[l]) = DecidedBy(requests[l])
    BY <1>7 DEF LeaseExpires, ExpireClaim, DecidedBy, TypeOK, Request
  <2> QED BY <1>7, <2>1, Invisible DEF LeaseExpires
<1>8. CASE UNCHANGED vars
  BY <1>8, Invisible DEF vars
<1> QED BY <1>1, <1>2, <1>3, <1>4, <1>5, <1>6, <1>7, <1>8 DEF Next, Step

(* The ledger implements the contract of an idempotent request: whatever   *)
(* leases, retries, abandonments and restarts do, a request is decided     *)
(* once, and everyone who is answered is answered with that decision.      *)
THEOREM Implements == Spec => ImplementsContract
<1>1. IInv /\ IInv' /\ [Next]_vars =>
        [Contract!Next]_<<[k \in Key |-> DecidedBy(requests[k])],
                          [o \in Owner |-> AnswerOf(turn[o])]>>
  BY StepRefines DEF D, A
<1> QED
  BY <1>1, InitRefines, Invariance, PTL
     DEF Spec, ImplementsContract, Contract!Spec
=============================================================================
