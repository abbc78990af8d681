---------------------------- MODULE DurableRun_proofs ----------------------------
(***************************************************************************)
(* Proofs about DurableRun for any number of attempts, contents and        *)
(* crashes, and whether or not attempts outlive their leases.              *)
(*                                                                         *)
(* Attempts exclude each other nowhere in these proofs: a lease may be     *)
(* taken over at any moment. What they rest on is what nobody takes back:  *)
(* the inner request keeps the Task it was completed with, and the run the *)
(* outcome it was finished with, each by the guard of one UPDATE. So what  *)
(* an attempt read of the two stays true while the others go on (Fits).    *)
(***************************************************************************)
EXTENDS DurableRun, TLAPS

Outer == requests["outer"]
Inner == requests["inner"]

(* What an attempt x knows of a result ir of the inner request and of a    *)
(* row rn of the run: the Task it names is that result;                    *)
HasOrigin(x, ir) ==
  /\ Task \in {x.task, x.text, x.result} => ir = Task
  /\ x.pc \in {"recover", "store"} => x.task = Task

(* it has something to tell or to store when it is about to do it;         *)
KnowsText(x) ==
  /\ x.pc \in {"observe", "finish"} => x.text # None
  /\ x.pc = "finally" /\ ~x.aborted => x.text # None
  /\ x.pc = "abort" => x.aborted
  /\ x.pc = "complete" => x.result # None

(* and if it was not disconnected it has observed the Task, or its text is *)
(* the outcome of the run, before it completes the outer request.          *)
Agrees(x, rn) ==
  /\ x.pc = "claimed" => x.last = "none"
  /\ x.pc = "recover" /\ x.last \in LastOfRun => x.text = Task
  /\ x.pc = "store" /\ ~x.aborted => x.text = Task
  /\ x.pc = "complete" /\ ~x.aborted =>
       x.text = Task \/ (rn.outcome # None /\ x.text = rn.outcome)

Fits(x, ir, rn) == HasOrigin(x, ir) /\ KnowsText(x) /\ Agrees(x, rn)

(* The run has an outcome when it is over and only then; the Task it names *)
(* is the result of the inner request.                                     *)
RunHolds ==
  /\ run.status \in {"ABSENT", "RUNNING"} <=> run.outcome = None
  /\ run.status = "ABSENT" => run = NoRun
  /\ Task \in {run.task, run.outcome} => Inner.result = Task

IInv ==
  /\ TypeOK /\ RunHolds
  /\ Outer.result = Task => Inner.result = Task
  /\ \A a \in Attempt : Fits(attempt[a], Inner.result, run)

(* What every step keeps, and what it promises about attempts that end.    *)
RunKept ==
  run.status \notin {"ABSENT", "RUNNING"} =>
    run'.status = run.status /\ run'.outcome = run.outcome

Durable == IF run.status = "RUNNING" THEN Outer.result ELSE run.outcome

EndsWell(a) ==
  (attempt'[a].pc = "done" /\ attempt[a].pc # "done" /\ ~attempt'[a].aborted)
  => attempt'[a].text \in {Task, Durable'}

Sound == IInv' /\ RunKept /\ \A a \in Attempt : EndsWell(a)

-----------------------------------------------------------------------------
(* The types, written out for the provers.                                 *)
LEMMA Facts ==
  /\ None \notin Attempt \cup Content \cup {Task} \cup Text
  /\ Task \notin Text
BY DurableRunAssumption DEF DurableRunAssumption

LEMMA TypeFacts ==
  ASSUME IInv
  PROVE  /\ TypeOK /\ requests \in [{"outer", "inner"} -> Request]
         /\ Outer \in Request /\ WellFormed(Outer)
         /\ Inner \in Request /\ WellFormed(Inner)
         /\ run \in RunRow /\ (run.outcome # None => run.status # "RUNNING")
         /\ younger \in {"outer", "inner"} /\ crashes \in 0..MaxCrashes
         /\ attempt \in [Attempt -> AttemptState]
         /\ \A a \in Attempt :
              attempt[a] \in AttemptState /\ Fits(attempt[a], Inner.result, run)
BY DEF IInv, TypeOK, Outer, Inner

LEMMA IdleFits ==
  ASSUME NEW ir, NEW rn
  PROVE  IdleAttempt \in AttemptState /\ Fits(IdleAttempt, ir, rn)
<1>1. /\ IdleAttempt \in AttemptState /\ IdleAttempt.pc = "idle"
      /\ IdleAttempt.task = None /\ IdleAttempt.text = None
      /\ IdleAttempt.result = None
  BY DEF IdleAttempt, AttemptState, Event, NoRun, RunRow
<1> QED BY <1>1, Facts DEF Fits, HasOrigin, KnowsText, Agrees

LEMMA InitIInv == Init => IInv
<1> SUFFICES ASSUME Init PROVE IInv
  OBVIOUS
<1>1. NoRequest \in Request /\ WellFormed(NoRequest) /\ NoRequest.result = None
  BY Facts DEF NoRequest, Request, RequestStatus, WellFormed
<1>2. Outer = NoRequest /\ Inner = NoRequest
  BY DEF Init, Outer, Inner
<1>3. NoRun \in RunRow /\ IdleAttempt \in AttemptState
  BY DEF NoRun, RunRow, IdleAttempt, AttemptState, Event
<1>4. TypeOK
  BY <1>1, <1>3, DurableRunAssumption
  DEF Init, TypeOK, NoRun, DurableRunAssumption
<1>5. RunHolds
  BY Facts DEF Init, RunHolds, NoRun
<1>6. \A a \in Attempt : Fits(attempt[a], Inner.result, run)
  BY IdleFits DEF Init
<1> QED BY <1>1, <1>2, <1>4, <1>5, <1>6, Facts DEF IInv

-----------------------------------------------------------------------------
(* What a step may do to the two rows and to the run, if one attempt makes *)
(* it: nothing of what an attempt knows is taken back.                     *)
RowsMove ==
  /\ requests' \in [{"outer", "inner"} -> Request]
  /\ WellFormed(requests'["outer"]) /\ WellFormed(requests'["inner"])
  /\ Inner.result = Task => Inner'.result = Task
  /\ Outer'.result = Task => Inner'.result = Task

RunMoves ==
  /\ RunKept /\ run' \in RunRow
  /\ run'.status \in {"ABSENT", "RUNNING"} <=> run'.outcome = None
  /\ run'.status = "ABSENT" => run' = NoRun
  /\ Task \in {run'.task, run'.outcome} => Inner'.result = Task

Frame ==
  /\ RowsMove /\ RunMoves
  /\ younger' \in {"outer", "inner"} /\ crashes' \in 0..MaxCrashes

LEMMA StaysFitting ==
  ASSUME IInv, Frame, NEW u \in Attempt, attempt'[u] = attempt[u]
  PROVE  Fits(attempt[u], Inner.result, run)' /\ EndsWell(u)
<1> DEFINE x == attempt[u]
<1>1. Fits(x, Inner.result, run) /\ attempt'[u] = x
  BY TypeFacts
<1>2. Inner.result = Task => Inner'.result = Task
  BY DEF Frame, RowsMove
<1>3. run.outcome # None => run'.outcome = run.outcome
  BY DEF IInv, RunHolds, Frame, RunMoves, RunKept
<1>4. EndsWell(u)
  BY <1>1 DEF EndsWell
<1> HIDE DEF x
<1>5. HasOrigin(x, Inner'.result) /\ KnowsText(x)
  BY <1>1, <1>2 DEF Fits, HasOrigin
<1>6. Agrees(x, run')
  BY <1>1, <1>3 DEF Fits, Agrees
<1> QED BY <1>1, <1>4, <1>5, <1>6 DEF Fits

LEMMA FrameHolds ==
  ASSUME IInv, Frame
  PROVE  /\ RunHolds' /\ RunKept /\ (Outer'.result = Task => Inner'.result = Task)
         /\ attempt' \in [Attempt -> AttemptState] => TypeOK'
<1>1. RunHolds' /\ RunKept /\ (Outer'.result = Task => Inner'.result = Task)
  BY DEF Frame, RowsMove, RunMoves, RunHolds
<1>2. run' \in RunRow /\ (run'.outcome # None => run'.status # "RUNNING")
  BY DEF Frame, RunMoves
<1>3. attempt' \in [Attempt -> AttemptState] => TypeOK'
  BY <1>2 DEF Frame, RowsMove, TypeOK
<1> QED BY <1>1, <1>3

(* One attempt becomes v.                                                  *)
LEMMA OneMoves ==
  ASSUME IInv, NEW a \in Attempt, NEW v \in AttemptState,
         attempt' = [attempt EXCEPT ![a] = v], Frame,
         Fits(v, Inner'.result, run'),
         v.pc = "done" /\ ~v.aborted => v.text \in {Task, Durable'}
  PROVE  Sound
<1>1. /\ attempt' \in [Attempt -> AttemptState] /\ attempt'[a] = v
      /\ \A u \in Attempt \ {a} : attempt'[u] = attempt[u]
  BY TypeFacts
<1>2. ASSUME NEW u \in Attempt
      PROVE  Fits(attempt[u], Inner.result, run)' /\ EndsWell(u)
  <2>1. CASE u = a
    BY <1>1, <2>1 DEF EndsWell
  <2>2. CASE u # a
    BY <1>1, <2>2, StaysFitting
  <2> QED BY <2>1, <2>2
<1> QED BY <1>1, <1>2, FrameHolds DEF Sound, IInv

LEMMA NoneMoves ==
  ASSUME IInv, Frame, attempt' = attempt
  PROVE  Sound
<1>1. attempt' \in [Attempt -> AttemptState]
  BY TypeFacts
<1>2. \A u \in Attempt : Fits(attempt[u], Inner.result, run)' /\ EndsWell(u)
  BY StaysFitting
<1> QED BY <1>1, <1>2, FrameHolds DEF Sound, IInv

-----------------------------------------------------------------------------
(* The rows of the two requests.                                           *)
LEMMA RowsStay ==
  ASSUME IInv, requests' = requests
  PROVE  RowsMove /\ Outer' = Outer /\ Inner' = Inner
BY TypeFacts DEF IInv, RowsMove, Outer, Inner

LEMMA RowReplaced ==
  ASSUME IInv, NEW k \in {"outer", "inner"}, NEW row \in Request,
         WellFormed(row), requests' = [requests EXCEPT ![k] = row],
         requests[k].result = Task => row.result = Task,
         k = "outer" /\ row.result = Task => Inner.result = Task
  PROVE  /\ RowsMove
         /\ Outer' = (IF k = "outer" THEN row ELSE Outer)
         /\ Inner' = (IF k = "inner" THEN row ELSE Inner)
<1>1. /\ requests' \in [{"outer", "inner"} -> Request]
      /\ Outer' = (IF k = "outer" THEN row ELSE Outer)
      /\ Inner' = (IF k = "inner" THEN row ELSE Inner)
  BY TypeFacts DEF Outer, Inner
<1>2. WellFormed(requests'["outer"]) /\ WellFormed(requests'["inner"])
  BY <1>1, TypeFacts DEF Outer, Inner
<1>3. Outer.result = Task => Inner.result = Task
  BY DEF IInv
<1>4. Inner.result = Task => Inner'.result = Task
  BY <1>1 DEF Inner
<1>5. Outer'.result = Task => Inner'.result = Task
  BY <1>1, <1>3, <1>4
<1> QED BY <1>1, <1>2, <1>4, <1>5 DEF RowsMove

LEMMA RowsClaimed ==
  ASSUME IInv, NEW k \in {"outer", "inner"}, NEW c \in Content,
         NEW a \in Attempt, InsertClaim(k, c, a) \/ TakeOver(k, c, a)
  PROVE  RowsMove
<1>0. /\ requests[k] \in Request /\ WellFormed(requests[k])
      /\ requests \in [{"outer", "inner"} -> Request]
  BY TypeFacts DEF Outer, Inner
<1>1. CASE InsertClaim(k, c, a)
  <2>1. /\ Claimed(c, a) \in Request /\ WellFormed(Claimed(c, a))
        /\ Claimed(c, a).result = None
    BY Facts DEF Claimed, Request, RequestStatus, WellFormed
  <2>2. requests[k].result = None
    BY <1>0, <1>1 DEF InsertClaim, WellFormed
  <2> QED BY <1>1, <2>1, <2>2, Facts, RowReplaced DEF InsertClaim
<1>2. CASE TakeOver(k, c, a)
  <2> DEFINE row == [requests[k] EXCEPT !.owner = a, !.leased = TRUE]
  <2>1. /\ row \in Request /\ row.status = "CLAIMED" /\ row.hash = c
        /\ row.result = requests[k].result
    BY <1>0, <1>2 DEF TakeOver, Expired, Request, RequestStatus
  <2>2. WellFormed(row) /\ row.result = None
    BY <1>0, <1>2, <2>1, Facts DEF TakeOver, Expired, WellFormed
  <2>3. requests' = [requests EXCEPT ![k] = row]
    BY <1>0, <1>2 DEF TakeOver
  <2> HIDE DEF row
  <2> QED BY <2>1, <2>2, <2>3, Facts, RowReplaced
<1> QED BY <1>1, <1>2

LEMMA RowCompleted ==
  ASSUME IInv, NEW k \in {"outer", "inner"}, NEW c, NEW a \in Attempt,
         NEW r \in Text \cup {Task}, CompleteClaim(k, c, a, r),
         k = "outer" /\ r = Task => Inner.result = Task
  PROVE  /\ RowsMove /\ requests'[k].result = r
         /\ k = "outer" => Inner' = Inner
<1>0. /\ requests[k] \in Request /\ WellFormed(requests[k])
      /\ requests \in [{"outer", "inner"} -> Request]
      /\ requests[k].status = "CLAIMED"
  BY TypeFacts DEF Outer, Inner, CompleteClaim, OwnsClaim
<1> DEFINE row == CompletedRow(requests[k], r)
<1>1. /\ row \in Request /\ row.status = "COMPLETED"
      /\ row.hash = requests[k].hash /\ row.owner = None
      /\ ~row.leased /\ row.result = r
  BY <1>0 DEF CompletedRow, Request, RequestStatus
<1>2. WellFormed(row) /\ requests[k].result = None
  BY <1>0, <1>1, Facts DEF WellFormed
<1>3. requests' = [requests EXCEPT ![k] = row]
  BY DEF CompleteClaim
<1> HIDE DEF row
<1>4. requests'[k] = row
  BY <1>0, <1>3
<1> QED BY <1>1, <1>2, <1>3, <1>4, Facts, RowReplaced

LEMMA RowAbandoned ==
  ASSUME IInv, NEW c, NEW a \in Attempt, AbandonClaim("inner", c, a)
  PROVE  RowsMove
<1>1. CASE OwnsClaim("inner", c, a)
  <2>1. NoRequest \in Request /\ WellFormed(NoRequest) /\ NoRequest.result = None
    BY Facts DEF NoRequest, Request, RequestStatus, WellFormed
  <2>2. requests["inner"].result # Task
    BY <1>1, TypeFacts, Facts DEF OwnsClaim, WellFormed, Inner
  <2>3. requests' = [requests EXCEPT !["inner"] = NoRequest]
    BY <1>1 DEF AbandonClaim
  <2> QED BY <2>1, <2>2, <2>3, Facts, RowReplaced
<1>2. CASE ~OwnsClaim("inner", c, a)
  BY <1>2, RowsStay DEF AbandonClaim
<1> QED BY <1>1, <1>2

-----------------------------------------------------------------------------
(* The row of the run.                                                     *)
LEMMA RunStays ==
  ASSUME IInv, RowsMove, run' = run
  PROVE  RunMoves
BY TypeFacts DEF IInv, RunHolds, RunMoves, RunKept, RowsMove

LEMMA RunProgresses ==
  ASSUME IInv, NEW t \in {Task, None}, Progresses(t), Progress(t),
         requests' = requests, t = Task => Inner.result = Task
  PROVE  RunMoves
<1>1. /\ run \in RunRow /\ RunHolds /\ run.status = "RUNNING"
      /\ Inner' = Inner
  BY TypeFacts, RowsStay DEF IInv, Progresses
<1>2. /\ run' \in RunRow /\ run'.status = "RUNNING"
      /\ run'.outcome = run.outcome /\ run'.task \in {run.task, t}
  BY <1>1 DEF Progress, RunRow
<1>3. run.outcome = None
  BY <1>1 DEF RunHolds
<1>4. Task \in {run'.task, run'.outcome} => Inner'.result = Task
  BY <1>1, <1>2, <1>3, Facts DEF RunHolds
<1> QED BY <1>1, <1>2, <1>3, <1>4 DEF RunMoves, RunKept

LEMMA RunFinishes ==
  ASSUME IInv, NEW t \in {Task, None}, NEW outcome \in Text \cup {Task},
         NEW last \in Event, CanFinish, FinishRun(last, outcome, t),
         requests' = requests, Task \in {t, outcome} => Inner.result = Task
  PROVE  RunMoves /\ run'.outcome = outcome /\ outcome # None
<1>1. run \in RunRow /\ RunHolds /\ run.status = "RUNNING" /\ Inner' = Inner
  BY TypeFacts, RowsStay DEF IInv, CanFinish
<1>2. FinishStatus(last) \in {"FINISHED", "ERROR", "INTERRUPTED"}
  BY DEF FinishStatus
<1>3. /\ run' \in RunRow /\ run'.status = FinishStatus(last)
      /\ run'.outcome = outcome /\ run'.task \in {run.task, t}
  BY <1>1, <1>2 DEF FinishRun, RunRow
<1>4. outcome # None
  BY Facts
<1>5. Task \in {run'.task, run'.outcome} => Inner'.result = Task
  BY <1>1, <1>3 DEF RunHolds
<1> QED BY <1>1, <1>2, <1>3, <1>4, <1>5 DEF RunMoves, RunKept

-----------------------------------------------------------------------------
(* An attempt that only goes on to pc.                                     *)
PC == {"idle", "claimed", "recover", "store", "execute", "submit",
       "observe", "caught", "finally", "abort", "finish", "complete",
       "refused", "done", "thrown"}

LEMMA GoesOn ==
  ASSUME IInv, NEW a \in Attempt, NEW pc \in PC, Go(a, pc), Frame,
         pc \notin {"claimed", "recover", "observe", "finish", "abort",
                    "complete"},
         pc = "store" => attempt[a].task = Task,
         (pc = "finally" /\ ~attempt[a].aborted) => attempt[a].text # None,
         (pc = "store" /\ ~attempt[a].aborted) => attempt[a].text = Task,
         (pc = "done" /\ ~attempt[a].aborted) =>
           attempt[a].text \in {Task, Durable'}
  PROVE  Sound
<1> DEFINE v == [attempt[a] EXCEPT !.pc = pc]
<1>1. /\ attempt[a] \in AttemptState /\ HasOrigin(attempt[a], Inner.result)
      /\ (Inner.result = Task => Inner'.result = Task)
  BY TypeFacts DEF Fits, Frame, RowsMove
<1>2. /\ v \in AttemptState /\ v.pc = pc /\ v.last = attempt[a].last
      /\ v.text = attempt[a].text /\ v.task = attempt[a].task
      /\ v.result = attempt[a].result /\ v.aborted = attempt[a].aborted
  BY <1>1 DEF AttemptState, PC
<1>3. attempt' = [attempt EXCEPT ![a] = v]
  BY DEF Go
<1> HIDE DEF v
<1>4. HasOrigin(v, Inner'.result)
  BY <1>1, <1>2 DEF HasOrigin
<1>5. KnowsText(v)
  BY <1>2 DEF KnowsText
<1>6. Agrees(v, run')
  BY <1>2 DEF Agrees
<1>7. v.pc = "done" /\ ~v.aborted => v.text \in {Task, Durable'}
  BY <1>2
<1> QED BY <1>2, <1>3, <1>4, <1>5, <1>6, <1>7, OneMoves DEF Fits

(* A step that leaves the rows, the leases and the crashes alone.          *)
LEMMA RunFrame ==
  ASSUME IInv, UNCHANGED <<requests, younger, crashes>>,
         run' = run \/ RunMoves
  PROVE  Frame /\ Outer' = Outer /\ Inner' = Inner
BY TypeFacts, RowsStay, RunStays DEF Frame

LEMMA Throws ==
  ASSUME IInv, NEW a \in Attempt, NEW pc \in {"refused", "thrown", "caught"},
         Go(a, pc), UNCHANGED <<requests, younger, run, crashes>>
  PROVE  Sound
BY RunFrame, GoesOn DEF PC

-----------------------------------------------------------------------------
(* The claim of the outer request, and the branch the attempt takes.       *)
LEMMA ClaimSound ==
  ASSUME IInv, NEW a \in Attempt, NEW c \in Content, Claim(a, c)
  PROVE  Sound
<1>1. /\ run' = run /\ crashes' = crashes /\ younger' \in {"outer", "inner"}
      /\ crashes' \in 0..MaxCrashes
  BY TypeFacts DEF Claim
<1>2. ASSUME NEW o \in {"acquired", "replay"}, RowsMove,
             attempt' = [attempt EXCEPT ![a] =
                           [IdleAttempt EXCEPT !.pc = "claimed", !.content = c,
                                               !.claim = o]]
      PROVE  Sound
  <2> DEFINE v == [IdleAttempt EXCEPT !.pc = "claimed", !.content = c,
                                      !.claim = o]
  <2>1. /\ v \in AttemptState /\ v.pc = "claimed" /\ v.last = "none"
        /\ v.text = None /\ v.task = None /\ v.result = None
    BY DEF IdleAttempt, AttemptState, Event, NoRun, RunRow
  <2>2. attempt' = [attempt EXCEPT ![a] = v]
    BY <1>2
  <2>3. Frame
    BY <1>1, <1>2, RunStays DEF Frame
  <2> HIDE DEF v
  <2>4. Fits(v, Inner'.result, run')
    BY <2>1, Facts DEF Fits, HasOrigin, KnowsText, Agrees
  <2> QED BY <2>1, <2>2, <2>3, <2>4, OneMoves
<1>3. CASE InsertClaim("outer", c, a) \/ TakeOver("outer", c, a)
  <2>1. ~(Replays("outer", c) \/ Conflicts("outer", c) \/ InProgress("outer", c))
    BY <1>3 DEF InsertClaim, TakeOver, Expired, Replays, Conflicts, InProgress
  <2> QED BY <1>2, <1>3, <2>1, RowsClaimed DEF Claim
<1>4. CASE ~(InsertClaim("outer", c, a) \/ TakeOver("outer", c, a))
  <2>1. UNCHANGED <<requests, younger>>
    BY <1>4 DEF Claim
  <2>2. Go(a, "refused") => Sound
    BY <1>1, <2>1, Throws
  <2> QED BY <1>2, <1>4, <2>1, <2>2, RowsStay DEF Claim
<1> QED BY <1>3, <1>4

LEMMA StartOrGetSound ==
  ASSUME IInv, NEW a \in Attempt, StartOrGet(a)
  PROVE  Sound
<1> DEFINE row == IF run.status = "ABSENT"
                  THEN [NoRun EXCEPT !.status = "RUNNING"] ELSE run
           message == /\ attempt[a].claim = "replay"
                      /\ requests["outer"].result # Task
           known == KnownTask(a, row) # None
           ended == row.status # "RUNNING"
<1>1. /\ attempt[a].pc = "claimed" /\ run' = row
      /\ UNCHANGED <<requests, younger, crashes>>
      /\ Outer' = Outer /\ Inner' = Inner
      /\ run \in RunRow /\ RunHolds /\ attempt[a] \in AttemptState
      /\ HasOrigin(attempt[a], Inner.result) /\ attempt[a].last = "none"
      /\ Outer \in Request /\ (Outer.result = Task => Inner.result = Task)
  BY TypeFacts, RowsStay DEF StartOrGet, IInv, Fits, Agrees
<1>2. /\ row \in RunRow /\ row.status # "ABSENT"
      /\ (row.outcome = None <=> row.status = "RUNNING")
      /\ (Task \in {row.task, row.outcome} => Inner.result = Task)
      /\ (run.status # "ABSENT" => row = run)
  BY <1>1, Facts DEF RunHolds, NoRun, RunRow
<1>3. Frame
  <2>1. RunMoves
    BY <1>1, <1>2 DEF RunMoves, RunKept
  <2> QED BY <1>1, <2>1, RunFrame
<1>4. /\ KnownTask(a, row) \in {Task, None}
      /\ (known => KnownTask(a, row) = Task /\ Inner.result = Task)
  BY <1>1, <1>2, Facts DEF KnownTask, RunRow, Outer
<1>5. Durable' = (IF row.status = "RUNNING" THEN Outer.result ELSE row.outcome)
  BY <1>1 DEF Durable
<1>6. CASE attempt' = [attempt EXCEPT
             ![a].pc = "done", ![a].snap = row, ![a].text = MessageReplay(row)]
  <2> DEFINE v == [attempt[a] EXCEPT !.pc = "done", !.snap = row,
                                     !.text = MessageReplay(row)]
  <2>1. /\ MessageReplay(row) \in Text \cup {Task, None}
        /\ (MessageReplay(row) = Task => Inner.result = Task)
        /\ MessageReplay(row) = Durable'
    BY <1>1, <1>2, <1>5 DEF MessageReplay, RunRow, Request, Outer
  <2>2. v \in AttemptState
    BY ZenonT(60), <1>1, <1>2, <2>1 DEF AttemptState
  <2>3. /\ v.pc = "done" /\ v.text = MessageReplay(row)
        /\ v.task = attempt[a].task /\ v.result = attempt[a].result
    BY <1>1 DEF AttemptState
  <2>4. attempt' = [attempt EXCEPT ![a] = v]
    BY <1>6
  <2> HIDE DEF v, row
  <2>5. Fits(v, Inner'.result, run')
    BY <1>1, <2>1, <2>3 DEF Fits, HasOrigin, KnowsText, Agrees
  <2> QED BY <1>3, <2>1, <2>2, <2>3, <2>4, <2>5, OneMoves
<1>7. ASSUME NEW pc \in {"recover", "complete", "done", "execute"},
             Enter(a, row, pc), pc = "recover" => known,
             pc \in {"complete", "done"} => ended
      PROVE  Sound
  <2> DEFINE task == KnownTask(a, row)
             v == [attempt[a] EXCEPT !.pc = pc, !.snap = row, !.task = task,
                                     !.text = row.outcome,
                                     !.result = row.outcome]
  <2>1. attempt' = [attempt EXCEPT ![a] = v]
    <3> HIDE DEF row
    <3> QED BY <1>7 DEF Enter
  <2>2. /\ v \in AttemptState /\ v.pc = pc /\ v.last = "none"
        /\ v.text = row.outcome /\ v.task = task /\ v.result = row.outcome
    <3>1. row.outcome \in Text \cup {Task, None} /\ task \in {Task, None}
      BY <1>2, <1>4 DEF RunRow
    <3> HIDE DEF row, task
    <3> QED BY ZenonT(60), <1>1, <1>2, <3>1 DEF AttemptState
  <2>3. pc = "recover" => task = Task
    BY <1>4, <1>7
  <2>4. /\ pc \in {"complete", "done"} =>
             row.outcome # None /\ row.outcome = Durable'
        /\ (Task \in {task, row.outcome} => Inner.result = Task)
    BY <1>2, <1>4, <1>5, <1>7, Facts
  <2> HIDE DEF v, task, row
  <2>5. HasOrigin(v, Inner'.result)
    BY <1>1, <1>7, <2>2, <2>3, <2>4 DEF HasOrigin
  <2>6. KnowsText(v) /\ Agrees(v, run')
    BY <1>1, <1>7, <2>2, <2>4 DEF KnowsText, Agrees, LastOfRun
  <2> QED BY <1>3, <2>1, <2>2, <2>4, <2>5, <2>6, OneMoves DEF Fits
<1> HIDE DEF row
<1> QED BY <1>6, <1>7 DEF StartOrGet, row

-----------------------------------------------------------------------------
(* The recovery of a Task.                                                 *)
LEMMA RecoverEventSound ==
  ASSUME IInv, NEW a \in Attempt, RecoverEvent(a)
  PROVE  Sound
<1>1. /\ attempt[a].pc = "recover" /\ attempt[a] \in AttemptState
      /\ UNCHANGED <<requests, younger, crashes>>
      /\ attempt[a].task = Task /\ Inner.result = Task
  BY TypeFacts DEF RecoverEvent, Fits, HasOrigin
<1>2. CASE Throw(a) /\ run' = run
  BY <1>1, <1>2, Throws DEF Throw
<1>3. ASSUME run' = run \/ (Progresses(Task) /\ Progress(Task)),
             NEW e \in {"event", "input.required", "observation.ended"},
             attempt' = [attempt EXCEPT ![a].last = e, ![a].text = Task]
      PROVE  Sound
  <2> DEFINE v == [attempt[a] EXCEPT !.last = e, !.text = Task]
  <2>1. Frame /\ Inner' = Inner
    BY <1>1, <1>3, RunProgresses, RunFrame
  <2>2. /\ v \in AttemptState /\ v.pc = "recover" /\ v.text = Task
        /\ v.task = Task
    BY <1>1 DEF AttemptState, Event
  <2>3. attempt' = [attempt EXCEPT ![a] = v]
    BY <1>3
  <2> HIDE DEF v
  <2>4. Fits(v, Inner'.result, run')
    BY <1>1, <2>1, <2>2 DEF Fits, HasOrigin, KnowsText, Agrees
  <2> QED BY <2>1, <2>2, <2>3, <2>4, OneMoves
<1> QED BY <1>2, <1>3 DEF RecoverEvent

LEMMA RecoverEndSound ==
  ASSUME IInv, NEW a \in Attempt, RecoverEnd(a)
  PROVE  Sound
<1>1. /\ attempt[a].pc = "recover" /\ attempt[a] \in AttemptState
      /\ UNCHANGED <<requests, younger, crashes>>
      /\ attempt[a].task = Task /\ Inner.result = Task
      /\ (~attempt[a].aborted => attempt[a].text = Task)
  BY TypeFacts DEF RecoverEnd, Fits, HasOrigin, Agrees
<1>2. CASE Throw(a) /\ run' = run
  BY <1>1, <1>2, Throws DEF Throw
<1>3. ASSUME CanFinish, FinishRun(attempt[a].last, Task, Task)
      PROVE  RunMoves
  <2>1. attempt[a].last \in Event
    BY <1>1 DEF AttemptState
  <2> QED BY <1>1, <1>3, <2>1, RunFinishes
<1>4. CASE Go(a, "store") /\ (run' = run \/ RunMoves)
  BY <1>1, <1>4, RunFrame, GoesOn DEF PC
<1> QED BY <1>2, <1>3, <1>4 DEF RecoverEnd

LEMMA StoreRecoveredSound ==
  ASSUME IInv, NEW a \in Attempt, StoreRecovered(a)
  PROVE  Sound
<1>1. /\ attempt[a].pc = "store" /\ attempt[a] \in AttemptState
      /\ UNCHANGED <<requests, younger, run, crashes>>
      /\ attempt[a].task = Task /\ Inner.result = Task
      /\ (~attempt[a].aborted => attempt[a].text = Task)
  BY TypeFacts DEF StoreRecovered, Fits, HasOrigin, Agrees
<1>2. Frame /\ Inner' = Inner
  BY <1>1, RunFrame
<1>3. CASE Throw(a)
  BY <1>1, <1>3, Throws DEF Throw
<1>4. CASE Go(a, "done")
  BY <1>1, <1>2, <1>4, GoesOn DEF PC
<1>5. CASE attempt' = [attempt EXCEPT ![a].pc = "complete",
                                      ![a].result = attempt[a].task]
  <2> DEFINE v == [attempt[a] EXCEPT !.pc = "complete",
                                     !.result = attempt[a].task]
  <2>1. /\ v \in AttemptState /\ v.pc = "complete"
        /\ v.task = Task /\ v.result = Task /\ v.text = attempt[a].text
        /\ v.aborted = attempt[a].aborted
    BY <1>1 DEF AttemptState
  <2>2. attempt' = [attempt EXCEPT ![a] = v]
    BY <1>5
  <2> HIDE DEF v
  <2>3. Fits(v, Inner'.result, run')
    BY <1>1, <1>2, <2>1, Facts DEF Fits, HasOrigin, KnowsText, Agrees
  <2> QED BY <1>2, <2>1, <2>2, <2>3, OneMoves
<1> QED BY <1>3, <1>4, <1>5 DEF StoreRecovered

-----------------------------------------------------------------------------
(* The execution: an attempt v that is observed, or whose observation is   *)
(* over, and what it has then.                                             *)
LEMMA Executes ==
  ASSUME IInv, NEW a \in Attempt, NEW v \in AttemptState,
         attempt' = [attempt EXCEPT ![a] = v], Frame,
         v.pc \in {"submit", "observe", "finally", "abort", "finish", "complete"},
         Task \in {v.task, v.text, v.result} => Inner'.result = Task,
         v.pc \in {"observe", "finish"} => v.text # None,
         v.pc = "finally" /\ ~v.aborted => v.text # None,
         v.pc = "abort" => v.aborted,
         v.pc = "complete" =>
           /\ v.result # None
           /\ ~v.aborted => run'.outcome # None /\ v.text = run'.outcome
  PROVE  Sound
<1>1. HasOrigin(v, Inner'.result)
  BY DEF HasOrigin
<1>2. KnowsText(v) /\ Agrees(v, run')
  BY DEF KnowsText, Agrees
<1> QED BY <1>1, <1>2, OneMoves DEF Fits

(* The two shapes in which a text or the Task begins to be observed.       *)
LEMMA Yielded ==
  ASSUME IInv, NEW a \in Attempt, NEW t \in Text \cup {Task}, Frame,
         \/ Yields(a, "observe", t, "run.finished")
         \/ t = Task /\ attempt' = [attempt EXCEPT ![a].pc = "observe",
                          ![a].task = Task, ![a].text = Task],
         t = Task => Inner'.result = Task
  PROVE  Sound
<1>1. /\ attempt[a] \in AttemptState /\ t # None
      /\ Task \in {attempt[a].task, attempt[a].result} => Inner'.result = Task
  BY TypeFacts, Facts DEF Fits, HasOrigin, Frame, RowsMove
<1>2. CASE Yields(a, "observe", t, "run.finished")
  <2> DEFINE v == [attempt[a] EXCEPT !.pc = "observe", !.text = t,
                                     !.last = "run.finished"]
  <2>1. /\ v \in AttemptState /\ v.pc = "observe" /\ v.text = t
        /\ v.task = attempt[a].task /\ v.result = attempt[a].result
    BY <1>1 DEF AttemptState, Event
  <2>2. attempt' = [attempt EXCEPT ![a] = v]
    BY <1>2 DEF Yields
  <2> HIDE DEF v
  <2> QED BY <1>1, <2>1, <2>2, Executes
<1>3. CASE t = Task /\ attempt' = [attempt EXCEPT ![a].pc = "observe",
                          ![a].task = Task, ![a].text = Task]
  <2> DEFINE v == [attempt[a] EXCEPT !.pc = "observe", !.task = Task,
                                     !.text = Task]
  <2>1. /\ v \in AttemptState /\ v.pc = "observe" /\ v.text = t
        /\ v.task = Task /\ v.result = attempt[a].result
    BY <1>1, <1>3 DEF AttemptState
  <2>2. attempt' = [attempt EXCEPT ![a] = v]
    BY <1>3
  <2> HIDE DEF v
  <2> QED BY <1>1, <1>3, <2>1, <2>2, Executes
<1> QED BY <1>2, <1>3

LEMMA AnswerSound ==
  ASSUME IInv, NEW a \in Attempt, Answer(a)
  PROVE  Sound
<1>1. /\ UNCHANGED <<requests, younger, run, crashes>>
      /\ Yields(a, "observe", "chat", "run.finished")
      /\ "chat" \in Text \cup {Task} /\ "chat" # Task
  BY Facts DEF Answer, Text
<1> QED BY <1>1, RunFrame, Yielded

LEMMA ClaimInnerSound ==
  ASSUME IInv, NEW a \in Attempt, NEW c \in Content, ClaimInner(a, c)
  PROVE  Sound
<1>1. /\ run' = run /\ crashes' = crashes /\ crashes' \in 0..MaxCrashes
      /\ attempt[a] \in AttemptState /\ younger \in {"outer", "inner"}
  BY TypeFacts DEF ClaimInner
<1>2. CASE /\ InsertClaim("inner", c, a) \/ TakeOver("inner", c, a)
           /\ younger' = "inner"
           /\ attempt' = [attempt EXCEPT ![a].pc = "submit", ![a].asked = c]
  <2> DEFINE v == [attempt[a] EXCEPT !.pc = "submit", !.asked = c]
  <2>1. RowsMove
    BY <1>2, RowsClaimed
  <2>2. Frame
    BY <1>1, <1>2, <2>1, RunStays DEF Frame
  <2>3. /\ v \in AttemptState /\ v.pc = "submit" /\ v.text = attempt[a].text
        /\ v.task = attempt[a].task /\ v.result = attempt[a].result
    BY <1>1 DEF AttemptState
  <2>4. Task \in {attempt[a].task, attempt[a].text, attempt[a].result}
          => Inner'.result = Task
    BY <2>1, TypeFacts DEF Fits, HasOrigin, RowsMove
  <2>5. attempt' = [attempt EXCEPT ![a] = v]
    BY <1>2
  <2> HIDE DEF v
  <2> QED BY <2>2, <2>3, <2>4, <2>5, Executes
<1>3. ASSUME UNCHANGED <<requests, younger>>, NEW t \in Text \cup {Task},
             \/ Yields(a, "observe", t, "run.finished")
             \/ t = Task /\ attempt' = [attempt EXCEPT ![a].pc = "observe",
                              ![a].task = Task, ![a].text = Task],
             t = Task => Inner.result = Task
      PROVE  Sound
  BY <1>1, <1>3, RunFrame, Yielded
<1>4. CASE /\ Yields(a, "observe", "busy", "run.finished")
           /\ UNCHANGED <<requests, younger>>
  BY <1>3, <1>4, Facts DEF Text
<1>5. CASE /\ Replays("inner", c) /\ UNCHANGED <<requests, younger>>
           /\ requests["inner"].result = Task
           /\ attempt' = [attempt EXCEPT ![a].pc = "observe",
                            ![a].task = Task, ![a].text = Task]
  BY <1>3, <1>5 DEF Inner
<1>6. CASE /\ Replays("inner", c) /\ UNCHANGED <<requests, younger>>
           /\ requests["inner"].result # Task
           /\ Yields(a, "observe", requests["inner"].result, "run.finished")
  <2>1. Inner.result \in Text
    BY <1>6, TypeFacts DEF Request, WellFormed, Replays, Inner
  <2> QED BY <1>3, <1>6, <2>1 DEF Inner
<1> QED BY <1>2, <1>4, <1>5, <1>6 DEF ClaimInner

LEMMA SubmitSound ==
  ASSUME IInv, NEW a \in Attempt, Submit(a)
  PROVE  Sound
<1>1. /\ UNCHANGED <<younger, run, crashes>> /\ crashes' \in 0..MaxCrashes
      /\ younger \in {"outer", "inner"} /\ {"reply", "busy"} \subseteq Text
      /\ "reply" # Task /\ "busy" # Task
  BY TypeFacts, Facts DEF Submit, Text
<1>2. ASSUME RowsMove PROVE Frame
  BY <1>1, <1>2, RunStays DEF Frame
<1>3. ASSUME NEW r \in Text \cup {Task}, Answered(a, r)
      PROVE  Frame /\ Inner'.result = r
  BY <1>2, <1>3, RowCompleted DEF Answered, Inner
<1>4. CASE /\ Answered(a, Task)
           /\ attempt' = [attempt EXCEPT ![a].pc = "observe",
                            ![a].task = Task, ![a].text = Task]
  BY <1>3, <1>4, Yielded
<1>5. CASE Answered(a, "reply") /\ Yields(a, "observe", "reply", "run.finished")
  <2>1. "reply" \in Text \cup {Task}
    BY <1>1
  <2> QED BY <1>1, <1>3, <1>5, <2>1, Yielded
<1>6. CASE /\ AbandonClaim("inner", attempt[a].asked, a)
           /\ Yields(a, "observe", "busy", "run.finished")
  <2>1. "busy" \in Text \cup {Task}
    BY <1>1
  <2> QED BY <1>1, <1>2, <1>6, <2>1, RowAbandoned, Yielded
<1>7. CASE Go(a, "caught") /\ UNCHANGED requests
  BY <1>1, <1>7, Throws
<1> QED BY <1>4, <1>5, <1>6, <1>7 DEF Submit

LEMMA ObserveSound ==
  ASSUME IInv, NEW a \in Attempt, Observe(a)
  PROVE  Sound
<1> DEFINE t == attempt[a].task
<1>1. /\ attempt[a].pc = "observe" /\ attempt[a] \in AttemptState
      /\ UNCHANGED <<requests, younger, crashes>>
      /\ t \in {Task, None} /\ attempt[a].text # None
      /\ (Task \in {t, attempt[a].text, attempt[a].result} => Inner.result = Task)
  BY TypeFacts DEF Observe, Fits, HasOrigin, KnowsText, AttemptState
<1>2. CASE Go(a, "caught") /\ UNCHANGED run
  BY <1>1, <1>2, Throws
<1>3. CASE /\ Progresses(t) /\ Progress(t)
           /\ \/ Go(a, "finally")
              \/ \E e \in {"event", "input.required", "observation.ended"} :
                   attempt' = [attempt EXCEPT ![a].last = e]
  <2>1. Frame /\ Inner' = Inner
    BY <1>1, <1>3, RunProgresses, RunFrame
  <2>2. CASE Go(a, "finally")
    BY <1>1, <2>1, <2>2, GoesOn DEF PC
  <2>3. ASSUME NEW e \in {"event", "input.required", "observation.ended"},
               attempt' = [attempt EXCEPT ![a].last = e]
        PROVE  Sound
    <3> DEFINE v == [attempt[a] EXCEPT !.last = e]
    <3>1. /\ v \in AttemptState /\ v.pc = "observe"
          /\ v.task = attempt[a].task /\ v.text = attempt[a].text
          /\ v.result = attempt[a].result
      BY <1>1 DEF AttemptState, Event
    <3>2. attempt' = [attempt EXCEPT ![a] = v]
      BY <2>3
    <3> HIDE DEF v
    <3> QED BY <1>1, <2>1, <3>1, <3>2, Executes
  <2> QED BY <1>3, <2>2, <2>3
<1> QED BY <1>2, <1>3 DEF Observe

LEMMA CatchSound ==
  ASSUME IInv, NEW a \in Attempt, Catch(a)
  PROVE  Sound
<1> DEFINE t == attempt[a].task
           v == [attempt[a] EXCEPT !.pc = "finally", !.text = "error",
                                   !.last = "run.error"]
<1>1. /\ attempt[a].pc = "caught" /\ attempt[a] \in AttemptState
      /\ UNCHANGED <<requests, younger, crashes>> /\ t \in {Task, None}
      /\ (Task \in {t, attempt[a].result} => Inner.result = Task)
  BY TypeFacts DEF Catch, Fits, HasOrigin, AttemptState
<1>2. CASE attempt[a].aborted /\ Go(a, "finally") /\ run' = run
  BY <1>1, <1>2, RunFrame, GoesOn DEF PC
<1>3. CASE /\ Progresses(t) /\ Progress(t)
           /\ attempt' = [attempt EXCEPT ![a].pc = "finally",
                            ![a].text = "error", ![a].last = "run.error"]
  <2>1. Frame /\ Inner' = Inner
    BY <1>1, <1>3, RunProgresses, RunFrame
  <2>2. /\ v \in AttemptState /\ v.pc = "finally" /\ v.task = t
        /\ v.text = "error" /\ v.result = attempt[a].result
    BY <1>1 DEF AttemptState, Event, Text
  <2>3. "error" # None /\ "error" # Task
    BY Facts DEF Text
  <2>4. attempt' = [attempt EXCEPT ![a] = v]
    BY <1>3
  <2> HIDE DEF v
  <2> QED BY <1>1, <2>1, <2>2, <2>3, <2>4, Executes
<1>4. CASE Throw(a) /\ run' = run
  BY <1>1, <1>4, Throws DEF Throw
<1> QED BY <1>2, <1>3, <1>4 DEF Catch

LEMMA FinallySound ==
  ASSUME IInv, NEW a \in Attempt, Finally(a)
  PROVE  Sound
<1> DEFINE op == Decided(a)
           t == IF op = Task THEN Task ELSE attempt[a].task
           pc == IF attempt[a].aborted THEN "abort" ELSE "finish"
           v == [attempt[a] EXCEPT !.pc = pc, !.task = t, !.result = op]
<1>1. /\ attempt[a].pc = "finally" /\ attempt[a] \in AttemptState
      /\ UNCHANGED <<requests, younger, crashes>> /\ Inner \in Request
  BY TypeFacts DEF Finally
<1>2. /\ t \in {Task, None} /\ op \in Text \cup {Task, None}
      /\ (Task \in {t, op, attempt[a].text} => Inner.result = Task)
      /\ (~attempt[a].aborted => attempt[a].text # None)
  BY <1>1, TypeFacts
  DEF Fits, HasOrigin, KnowsText, AttemptState, Decided, Request, Inner
<1>3. CASE Throw(a) /\ run' = run
  BY <1>1, <1>3, Throws DEF Throw
<1>4. CASE /\ t = None \/ Progresses(t)
           /\ IF t = None THEN UNCHANGED run ELSE Progress(t)
           /\ attempt' = [attempt EXCEPT ![a].pc = pc, ![a].task = t,
                                         ![a].result = op]
  <2> HIDE DEF op, t
  <2>1. Frame /\ Inner' = Inner
    BY <1>1, <1>2, <1>4, RunProgresses, RunFrame
  <2>2. /\ pc \in {"abort", "finish"}
        /\ attempt[a].aborted <=> pc = "abort"
    OBVIOUS
  <2>3. attempt' = [attempt EXCEPT ![a] = v]
    BY <1>4
  <2> HIDE DEF pc
  <2>4. /\ v \in AttemptState /\ v.pc = pc /\ v.task = t
        /\ v.text = attempt[a].text /\ v.result = op
        /\ v.aborted = attempt[a].aborted
    BY ZenonT(60), <1>1, <1>2, <2>2 DEF AttemptState
  <2> HIDE DEF v
  <2> QED BY <1>2, <2>1, <2>2, <2>3, <2>4, Executes
<1> HIDE DEF v
<1> QED BY <1>3, <1>4 DEF Finally

-----------------------------------------------------------------------------
(* The end of an attempt.                                                  *)
LEMMA Completes ==
  ASSUME IInv, NEW a \in Attempt, Frame, Inner' = Inner,
         attempt' = [attempt EXCEPT ![a].pc = "complete",
                                    ![a].result = ResultOf(a)],
         \E x \in {attempt[a].result, attempt[a].task, attempt[a].text} : x # None,
         ~attempt[a].aborted =>
           run'.outcome # None /\ attempt[a].text = run'.outcome
  PROVE  Sound
<1> DEFINE r == ResultOf(a)
           v == [attempt[a] EXCEPT !.pc = "complete", !.result = r]
<1>1. /\ attempt[a] \in AttemptState /\ HasOrigin(attempt[a], Inner.result)
  BY TypeFacts DEF Fits
<1>2. /\ r \in Text \cup {Task, None} /\ r # None
      /\ r \in {attempt[a].result, attempt[a].task, attempt[a].text}
  BY <1>1 DEF ResultOf, AttemptState
<1>3. attempt' = [attempt EXCEPT ![a] = v]
  OBVIOUS
<1> HIDE DEF r
<1>4. /\ v \in AttemptState /\ v.pc = "complete" /\ v.result = r
      /\ v.task = attempt[a].task /\ v.text = attempt[a].text
      /\ v.aborted = attempt[a].aborted
  BY <1>1, <1>2 DEF AttemptState
<1> HIDE DEF v
<1>5. Task \in {v.task, v.text, v.result} => Inner'.result = Task
  BY <1>1, <1>2, <1>4 DEF HasOrigin
<1> QED BY <1>2, <1>3, <1>4, <1>5, Executes

LEMMA EndAbortedSound ==
  ASSUME IInv, NEW a \in Attempt, EndAborted(a)
  PROVE  Sound
<1>1. /\ attempt[a].pc = "abort" /\ attempt[a].aborted
      /\ UNCHANGED <<requests, younger, run, crashes>>
      /\ Frame /\ Inner' = Inner
  BY TypeFacts, RunFrame DEF EndAborted, Fits, KnowsText
<1>2. CASE Go(a, "done")
  BY <1>1, <1>2, GoesOn DEF PC
<1>3. CASE /\ attempt[a].result # None \/ attempt[a].task # None
           /\ attempt' = [attempt EXCEPT ![a].pc = "complete",
                                         ![a].result = ResultOf(a)]
  BY <1>1, <1>3, Completes
<1> QED BY <1>2, <1>3 DEF EndAborted

LEMMA FinishSound ==
  ASSUME IInv, NEW a \in Attempt, Finish(a)
  PROVE  Sound
<1>1. /\ attempt[a].pc = "finish" /\ attempt[a] \in AttemptState
      /\ UNCHANGED <<requests, younger, crashes>>
      /\ attempt[a].task \in {Task, None} /\ attempt[a].last \in Event
      /\ attempt[a].text \in Text \cup {Task} /\ attempt[a].text # None
      /\ (Task \in {attempt[a].task, attempt[a].text} => Inner.result = Task)
  BY TypeFacts DEF Finish, Fits, HasOrigin, KnowsText, AttemptState
<1>2. CASE Throw(a) /\ run' = run
  BY <1>1, <1>2, Throws DEF Throw
<1>3. CASE /\ CanFinish
           /\ FinishRun(attempt[a].last, attempt[a].text, attempt[a].task)
           /\ attempt' = [attempt EXCEPT ![a].pc = "complete",
                                         ![a].result = ResultOf(a)]
  <2>1. RunMoves /\ run'.outcome = attempt[a].text /\ run'.outcome # None
    BY <1>1, <1>3, RunFinishes
  <2> QED BY <1>1, <1>3, <2>1, RunFrame, Completes
<1> QED BY <1>2, <1>3 DEF Finish

LEMMA CompleteOuterSound ==
  ASSUME IInv, NEW a \in Attempt, CompleteOuter(a)
  PROVE  Sound
<1> DEFINE c == attempt[a].content
           r == attempt[a].result
<1>1. /\ attempt[a].pc = "complete" /\ attempt[a] \in AttemptState
      /\ UNCHANGED <<younger, run, crashes>> /\ r \in Text \cup {Task}
      /\ (r = Task => Inner.result = Task)
      /\ (~attempt[a].aborted =>
            \/ attempt[a].text = Task
            \/ run.outcome # None /\ attempt[a].text = run.outcome)
  BY TypeFacts
  DEF CompleteOuter, Fits, HasOrigin, KnowsText, Agrees, AttemptState
<1>2. CASE CompleteClaim("outer", c, a, r) /\ Go(a, "done")
  <2>1. RowsMove
    BY <1>1, <1>2, RowCompleted
  <2>2. Frame
    BY <1>1, <2>1, RunStays, TypeFacts DEF Frame
  <2>3. run.outcome # None => Durable' = run.outcome
    BY <1>1, TypeFacts DEF Durable
  <2>4. ~attempt[a].aborted => attempt[a].text \in {Task, Durable'}
    BY <1>1, <2>3
  <2> QED BY <1>2, <2>2, <2>4, GoesOn DEF PC
<1>3. CASE Throw(a) /\ UNCHANGED requests
  BY <1>1, <1>3, Throws DEF Throw
<1> QED BY <1>2, <1>3 DEF CompleteOuter

-----------------------------------------------------------------------------
(* A disconnect, the end of an attempt, the end of a lease.                *)
LEMMA DisconnectSound ==
  ASSUME IInv, NEW a \in Attempt, Disconnect(a)
  PROVE  Sound
<1> DEFINE x == attempt[a]
           v == [x EXCEPT !.aborted = TRUE]
<1>1. /\ UNCHANGED <<requests, younger, run, crashes>> /\ x.pc # "done"
      /\ x \in AttemptState /\ Fits(x, Inner.result, run)
  BY TypeFacts DEF Disconnect
<1>2. Frame /\ Inner' = Inner
  BY <1>1, RunFrame
<1>3. attempt' = [attempt EXCEPT ![a] = v]
  BY DEF Disconnect
<1> HIDE DEF x
<1>4. /\ v \in AttemptState /\ v.pc = x.pc /\ v.last = x.last
      /\ v.task = x.task /\ v.text = x.text /\ v.result = x.result /\ v.aborted
  BY <1>1 DEF AttemptState
<1> HIDE DEF v
<1>5. HasOrigin(v, Inner.result) /\ KnowsText(v)
  BY <1>1, <1>4 DEF Fits, HasOrigin, KnowsText
<1>6. Agrees(v, run)
  BY <1>1, <1>4 DEF Fits, Agrees
<1> QED BY <1>1, <1>2, <1>3, <1>4, <1>5, <1>6, OneMoves DEF Fits

(* Leases and owners change, and nothing else of the two rows.             *)
LEMMA LeasesMove ==
  ASSUME IInv, requests' \in [{"outer", "inner"} -> Request],
         \A k \in {"outer", "inner"} :
           /\ requests'[k].status = requests[k].status
           /\ requests'[k].hash = requests[k].hash
           /\ requests'[k].result = requests[k].result
           /\ requests'[k].owner \in {requests[k].owner, None}
           /\ requests'[k].leased => requests[k].leased
  PROVE  RowsMove
<1>1. WellFormed(requests["outer"]) /\ WellFormed(requests["inner"])
  BY TypeFacts DEF Outer, Inner
<1>2. ASSUME NEW k \in {"outer", "inner"} PROVE WellFormed(requests'[k])
  <2>1. WellFormed(requests[k])
    BY <1>1
  <2> QED BY <2>1 DEF WellFormed
<1>3. Outer'.result = Outer.result /\ Inner'.result = Inner.result
  BY DEF Outer, Inner
<1>4. Outer.result = Task => Inner.result = Task
  BY DEF IInv
<1> QED BY <1>2, <1>3, <1>4 DEF RowsMove

LEMMA OverSound ==
  ASSUME IInv, NEW a \in Attempt, Over(a), crashes' \in 0..MaxCrashes
  PROVE  Sound
<1>1. ASSUME NEW k \in {"outer", "inner"}
      PROVE  /\ requests'[k] \in Request
             /\ requests'[k].status = requests[k].status
             /\ requests'[k].hash = requests[k].hash
             /\ requests'[k].result = requests[k].result
             /\ requests'[k].leased = requests[k].leased
             /\ requests'[k].owner \in {requests[k].owner, None}
  <2>1. requests[k] \in Request
    BY TypeFacts
  <2>2. requests'[k] = IF requests[k].owner = a
                       THEN [requests[k] EXCEPT !.owner = None]
                       ELSE requests[k]
    BY DEF Over
  <2> QED BY <2>1, <2>2 DEF Request
<1>2. requests' = [k \in {"outer", "inner"} |-> requests'[k]]
  BY DEF Over
<1>3. requests' \in [{"outer", "inner"} -> Request]
  BY <1>1, <1>2
<1>4. \A k \in {"outer", "inner"} : requests'[k].leased => requests[k].leased
  BY <1>1
<1>5. RowsMove
  BY <1>1, <1>3, <1>4, LeasesMove
<1>6. Frame
  BY <1>5, RunStays, TypeFacts DEF Frame, Over
<1>7. attempt' = [attempt EXCEPT ![a] = IdleAttempt]
  BY DEF Over
<1>8. IdleAttempt.pc = "idle"
  BY DEF IdleAttempt
<1> QED BY <1>6, <1>7, <1>8, IdleFits, OneMoves

LEMMA LeaseEndsSound ==
  ASSUME IInv, NEW k \in {"outer", "inner"}, LeaseEnds(k)
  PROVE  Sound
<1>1. /\ UNCHANGED <<younger, run, attempt, crashes>>
      /\ requests' = [requests EXCEPT ![k].leased = FALSE]
      /\ requests[k].status = "CLAIMED"
  BY DEF LeaseEnds, ExpireClaim
<1> DEFINE row == [requests[k] EXCEPT !.leased = FALSE]
<1>2. /\ row \in Request /\ row.status = requests[k].status
      /\ row.hash = requests[k].hash /\ row.result = requests[k].result
      /\ row.owner = requests[k].owner /\ ~row.leased
  BY TypeFacts DEF Request
<1>3. requests' = [requests EXCEPT ![k] = row]
  BY <1>1
<1> HIDE DEF row
<1>4. /\ requests' \in [{"outer", "inner"} -> Request] /\ requests'[k] = row
      /\ \A j \in {"outer", "inner"} \ {k} : requests'[j] = requests[j]
  BY <1>2, <1>3, TypeFacts
<1>5. RowsMove
  BY <1>2, <1>4, LeasesMove
<1>6. Frame
  BY <1>1, <1>5, RunStays, TypeFacts DEF Frame
<1> QED BY <1>1, <1>6, NoneMoves

-----------------------------------------------------------------------------
LEMMA NextSound == IInv /\ [Next]_vars => Sound
<1> SUFFICES ASSUME IInv, [Next]_vars PROVE Sound
  OBVIOUS
<1>1. ASSUME NEW a \in Attempt, NEW c \in Content, Claim(a, c) PROVE Sound
  BY <1>1, ClaimSound
<1>2. ASSUME NEW a \in Attempt, Step(a) PROVE Sound
  <2>1. ASSUME NEW c \in Content, ClaimInner(a, c) PROVE Sound
    BY <2>1, ClaimInnerSound
  <2> QED BY <1>2, <2>1, StartOrGetSound, RecoverEventSound, RecoverEndSound,
     StoreRecoveredSound, AnswerSound, SubmitSound, ObserveSound, CatchSound,
     FinallySound, EndAbortedSound, FinishSound, CompleteOuterSound DEF Step
<1>3. ASSUME NEW a \in Attempt, Disconnect(a) PROVE Sound
  BY <1>3, DisconnectSound
<1>4. ASSUME NEW a \in Attempt, Crash(a) \/ Rest(a) PROVE Sound
  <2>1. crashes \in 0..MaxCrashes /\ MaxCrashes \in Nat
    BY TypeFacts, DurableRunAssumption DEF DurableRunAssumption
  <2>2. Over(a) /\ crashes' \in 0..MaxCrashes
    BY <1>4, <2>1 DEF Crash, Rest
  <2> QED BY <2>2, OverSound
<1>5. ASSUME NEW k \in {"outer", "inner"}, LeaseEnds(k) PROVE Sound
  BY <1>5, LeaseEndsSound
<1>6. CASE UNCHANGED vars
  <2>1. UNCHANGED <<requests, younger, run, attempt, crashes>>
    BY <1>6 DEF vars
  <2> QED BY <2>1, RunFrame, NoneMoves
<1> QED BY <1>1, <1>2, <1>3, <1>4, <1>5, <1>6 DEF Next

LEMMA Invariance == Spec => []IInv
<1>1. IInv /\ [Next]_vars => IInv'
  BY NextSound DEF Sound
<1> QED BY InitIInv, <1>1, PTL DEF Spec

(* Every state of the runs, the requests and the attempts has its type.    *)
THEOREM TypeCorrect == Spec => []TypeOK
<1>1. IInv => TypeOK
  BY DEF IInv
<1> QED BY Invariance, <1>1, PTL

(* A run names only a Task that the inner request was completed with, and  *)
(* the outer request is completed with the Task only then: a replay finds  *)
(* that Task bound, however many attempts overlapped.                      *)
THEOREM RunNamesItsTask == Spec => []TaskIsBound
<1>1. IInv => TaskIsBound
  <2> SUFFICES ASSUME IInv PROVE TaskIsBound
    OBVIOUS
  <2>1. run.task \in {Task, None} /\ RunHolds
    BY TypeFacts DEF IInv, RunRow
  <2> QED BY <2>1 DEF IInv, RunHolds, TaskIsBound, Outer, Inner
<1> QED BY Invariance, <1>1, PTL

(* A finished run keeps its status and its outcome, also from an attempt   *)
(* that comes back after its lease was taken over.                         *)
THEOREM RunsStayFinished == Spec => FinishedIsFinal
<1>1. IInv /\ [Next]_vars =>
        [run.status \notin {"ABSENT", "RUNNING"} =>
           run'.status = run.status /\ run'.outcome = run.outcome]_vars
  BY NextSound DEF Sound, RunKept
<1> QED BY Invariance, <1>1, PTL DEF Spec, FinishedIsFinal

(* An attempt that ends without a disconnect has told the outcome of the   *)
(* finished run, or the stored message of a run that is not finished, or   *)
(* it has observed the Task.                                               *)
THEOREM EndsAgree == Spec => ReplayAgrees
<1>1. IInv /\ [Next]_vars =>
        [\A a \in Attempt :
           (attempt'[a].pc = "done" /\ attempt[a].pc # "done"
              /\ ~attempt'[a].aborted)
           => \/ attempt'[a].text = Task
              \/ attempt'[a].text = IF run'.status = "RUNNING"
                                    THEN requests'["outer"].result
                                    ELSE run'.outcome]_vars
  BY NextSound DEF Sound, EndsWell, Durable, Outer
<1> QED BY Invariance, <1>1, PTL DEF Spec, ReplayAgrees
=============================================================================
