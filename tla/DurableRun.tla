----------------------------- MODULE DurableRun -----------------------------
(***************************************************************************)
(* DurableAgUiRunService.run: the attempts at one AG-UI run. Each attempt  *)
(* claims the outer request (the run id), reads or creates the run's row,  *)
(* and then replays, recovers or executes the run; an execution may claim  *)
(* the inner request (<runId>:task) through the coordinator and submit     *)
(* work to SDAR. Attempts overlap, outlive their leases, are aborted by a  *)
(* disconnect, throw, or die with their process. The two requests are rows *)
(* of RequestTable, whose leases all have the same length: of two that run,*)
(* the one that was drawn first ends first.                                *)
(***************************************************************************)
EXTENDS Naturals

CONSTANTS
  Attempt,    \* executions of run; each draws a random lease owner
  Content,    \* request hashes: of inputs, and of what the coordinator is asked
  Task,       \* the SDAR Task of the inner request's stable message id
  None,
  Stalls,     \* may an attempt outlive its leases?
  MaxCrashes  \* bound: deaths of attempts

Text == {"chat", "busy", "reply", "error"}  \* what a run published

ASSUME DurableRunAssumption ==
  /\ None \notin Attempt \cup Content \cup {Task} \cup Text
  /\ Task \notin Text
  /\ Stalls \in BOOLEAN /\ MaxCrashes \in Nat

VARIABLES
  requests,  \* interaction_request: the outer and the inner row
  younger,   \* the request whose lease was drawn last
  run,       \* the interaction_run row
  attempt,   \* the attempts
  crashes

vars == <<requests, younger, run, attempt, crashes>>

INSTANCE RequestTable WITH
  Key <- {"outer", "inner"}, Owner <- Attempt, Result <- Text \cup {Task}

RunRow == [status : {"ABSENT", "RUNNING", "FINISHED", "ERROR", "INTERRUPTED"},
           task : {Task, None}, outcome : Text \cup {Task, None}]

NoRun == [status |-> "ABSENT", task |-> None, outcome |-> None]

Event == {"none", "event", "input.required", "observation.ended",
          "run.finished", "run.error"}
LastOfRun == Event \ {"none", "event"}

AttemptState ==
  [pc : {"idle", "claimed", "recover", "store", "execute", "submit",
         "observe", "caught", "finally", "abort", "finish", "complete",
         "refused", "done", "thrown"},
   content : Content \cup {None},      \* the hash of its input
   asked   : Content \cup {None},      \* of its inner request
   claim   : {"none", "acquired", "replay"},
   snap    : RunRow,                   \* the row startOrGetRun returned
   last    : Event,                    \* the last event it yielded
   text    : Text \cup {Task, None},   \* the text of its events
   task    : {Task, None},             \* latestTaskId
   result  : Text \cup {Task, None},   \* operationResult, then the result
   aborted : BOOLEAN]

IdleAttempt == [pc |-> "idle", content |-> None, asked |-> None, claim |-> "none",
                snap |-> NoRun, last |-> "none", text |-> None,
                task |-> None, result |-> None, aborted |-> FALSE]

Init ==
  /\ requests = [k \in {"outer", "inner"} |-> NoRequest]
  /\ younger = "outer"
  /\ run = NoRun
  /\ attempt = [a \in Attempt |-> IdleAttempt]
  /\ crashes = 0

Go(a, pc) == attempt' = [attempt EXCEPT ![a].pc = pc]
Throw(a) == Go(a, "thrown")

-----------------------------------------------------------------------------
(* claimRequest, for the outer request; RequestLedger has its statements.  *)
Claim(a, c) ==
  LET Begin(outcome) ==
        attempt' = [attempt EXCEPT ![a] =
                      [IdleAttempt EXCEPT !.pc = "claimed", !.content = c,
                                          !.claim = outcome]]
  IN /\ attempt[a].pc = "idle"
     /\ \/ /\ InsertClaim("outer", c, a) \/ TakeOver("outer", c, a)
           /\ Begin("acquired") /\ younger' = "outer"
        \/ /\ Replays("outer", c)
           /\ Begin("replay") /\ UNCHANGED <<requests, younger>>
        \/ /\ Conflicts("outer", c) \/ InProgress("outer", c)
           /\ Go(a, "refused") /\ UNCHANGED <<requests, younger>>
     /\ UNCHANGED <<run, crashes>>

(* replayEvents, or else replayStoredMessage.                              *)
MessageReplay_Stored(row) ==  \* fault: the stored message comes first
  requests["outer"].result

MessageReplay(row) ==
  IF row.outcome # None THEN row.outcome ELSE requests["outer"].result

KnownTask(a, row) ==
  IF attempt[a].claim = "replay" /\ requests["outer"].result = Task
  THEN Task ELSE row.task

Enter(a, row, pc) ==
  attempt' = [attempt EXCEPT ![a].pc = pc, ![a].snap = row,
                             ![a].task = KnownTask(a, row),
                             ![a].text = row.outcome,
                             ![a].result = row.outcome]

(* startOrGetRun, and the branch run takes on the row it read.             *)
StartOrGet(a) ==
  LET row == IF run.status = "ABSENT"
             THEN [NoRun EXCEPT !.status = "RUNNING"] ELSE run
      message == /\ attempt[a].claim = "replay"
                 /\ requests["outer"].result # Task
      known == KnownTask(a, row) # None
      ended == row.status # "RUNNING"
  IN /\ attempt[a].pc = "claimed"
     /\ run' = row
     /\ \/ /\ message  \* the run's events, or the stored message
           /\ attempt' = [attempt EXCEPT
                ![a].pc = "done", ![a].snap = row,
                ![a].text = MessageReplay(row)]
        \/ ~message /\ known /\ Enter(a, row, "recover")
        \/ /\ ~message /\ ~known /\ ended
           /\ Enter(a, row, IF attempt[a].claim = "acquired"
                            THEN "complete" ELSE "done")
        \/ ~message /\ ~known /\ ~ended /\ Enter(a, row, "execute")
     /\ UNCHANGED <<requests, younger, crashes>>

-----------------------------------------------------------------------------
(* updateRunProgress and finishRun, each one UPDATE.                       *)
Progresses(t) ==
  /\ run.status = "RUNNING"
  /\ run.task = None \/ t = None \/ run.task = t

Progress(t) ==
  run' = [run EXCEPT !.task = IF run.task # None THEN run.task ELSE t]

CanFinish_Always == TRUE  \* fault: no status = 'RUNNING' guard

CanFinish == run.status = "RUNNING"

FinishStatus(last) ==  \* terminalRunStatus
  CASE last = "run.error" -> "ERROR"
    [] last = "input.required" -> "INTERRUPTED"
    [] OTHER -> "FINISHED"

FinishRun(last, outcome, t) ==
  run' = [status |-> FinishStatus(last), outcome |-> outcome,
          task |-> IF run.task # None THEN run.task ELSE t]

-----------------------------------------------------------------------------
(* The recovery branch: getTask of the run's own Task, event by event. A   *)
(* snapshot that was RUNNING records each event before it is yielded.      *)
RecoverEvent(a) ==
  /\ attempt[a].pc = "recover" /\ ~attempt[a].aborted
  /\ attempt[a].last \notin LastOfRun
  /\ \/ /\ attempt[a].snap.status = "RUNNING" /\ ~Progresses(Task)
        /\ Throw(a) /\ UNCHANGED run
     \/ /\ attempt[a].snap.status = "RUNNING" => Progresses(Task)
        /\ IF attempt[a].snap.status = "RUNNING"
           THEN Progress(Task) ELSE UNCHANGED run
        /\ \E e \in {"event", "input.required", "observation.ended"} :
             attempt' = [attempt EXCEPT ![a].last = e, ![a].text = Task]
     \/ Throw(a) /\ UNCHANGED run  \* the query or the persisting fails
  /\ UNCHANGED <<requests, younger, crashes>>

RecoverEnd(a) ==
  /\ attempt[a].pc = "recover"
  /\ attempt[a].aborted \/ attempt[a].last \in LastOfRun
  /\ \/ /\ ~attempt[a].aborted /\ attempt[a].snap.status = "RUNNING"
        /\ \/ CanFinish /\ FinishRun(attempt[a].last, Task, Task)
              /\ Go(a, "store")
           \/ ~CanFinish /\ Throw(a) /\ UNCHANGED run
     \/ /\ attempt[a].aborted \/ attempt[a].snap.status # "RUNNING"
        /\ Go(a, "store") /\ UNCHANGED run
  /\ UNCHANGED <<requests, younger, crashes>>

(* authorizedTaskResult: the Task must be bound, which the completion of   *)
(* the inner request did in its own transaction.                           *)
Bound(t) == t # None /\ requests["inner"].result = t

StoreRecovered(a) ==
  /\ attempt[a].pc = "store"
  /\ \/ attempt[a].claim = "replay" /\ Go(a, "done")
     \/ /\ attempt[a].claim = "acquired" /\ Bound(attempt[a].task)
        /\ attempt' = [attempt EXCEPT ![a].pc = "complete",
                                      ![a].result = attempt[a].task]
     \/ attempt[a].claim = "acquired" /\ ~Bound(attempt[a].task) /\ Throw(a)
  /\ UNCHANGED <<requests, younger, run, crashes>>

-----------------------------------------------------------------------------
(* The execution: a local answer, or the coordinator's submission under    *)
(* the inner request. Its text and its last event are what is yielded.     *)
Yields(a, pc, text, last) ==
  attempt' = [attempt EXCEPT ![a].pc = pc, ![a].text = text, ![a].last = last]

Answer(a) ==  \* local_chat, a query, ...: no inner request
  /\ attempt[a].pc = "execute"
  /\ Yields(a, "observe", "chat", "run.finished")
  /\ UNCHANGED <<requests, younger, run, crashes>>

(* What is asked of the coordinator is decided anew by every attempt.      *)
ClaimInner(a, c) ==
  /\ attempt[a].pc = "execute"
  /\ \/ /\ InsertClaim("inner", c, a) \/ TakeOver("inner", c, a)
        /\ younger' = "inner"
        /\ attempt' = [attempt EXCEPT ![a].pc = "submit", ![a].asked = c]
     \/ /\ InProgress("inner", c) \/ Conflicts("inner", c)
        /\ Yields(a, "observe", "busy", "run.finished")
        /\ UNCHANGED <<requests, younger>>
     \/ /\ Replays("inner", c) /\ UNCHANGED <<requests, younger>>
        /\ \/ /\ requests["inner"].result = Task
              /\ attempt' = [attempt EXCEPT ![a].pc = "observe",
                               ![a].task = Task, ![a].text = Task]
           \/ /\ requests["inner"].result # Task
              /\ Yields(a, "observe", requests["inner"].result,
                        "run.finished")
  /\ UNCHANGED <<run, crashes>>

(* SDAR answered, and completeCoordinatorRequest binds and completes; or   *)
(* the call is uncertain, or the claim is no longer its own, and throws;   *)
(* or the turn is refused and abandons.                                    *)
Answered_Early(a, r) ==  \* fault: the result is used before it is stored
  requests["inner"].status = "CLAIMED" /\ UNCHANGED requests

Answered(a, r) == CompleteClaim("inner", attempt[a].asked, a, r)

Submit(a) ==
  /\ attempt[a].pc = "submit"
  /\ \/ /\ Answered(a, Task)
        /\ attempt' = [attempt EXCEPT ![a].pc = "observe",
                         ![a].task = Task, ![a].text = Task]
     \/ /\ Answered(a, "reply")
        /\ Yields(a, "observe", "reply", "run.finished")
     \/ /\ AbandonClaim("inner", attempt[a].asked, a)
        /\ Yields(a, "observe", "busy", "run.finished")
     \/ Go(a, "caught") /\ UNCHANGED requests
  /\ UNCHANGED <<younger, run, crashes>>

(* One event of the execution is recorded and yielded.                     *)
Observe(a) ==
  LET t == attempt[a].task IN
  /\ attempt[a].pc = "observe"
  /\ \/ /\ Progresses(t) /\ Progress(t)
        /\ \/ attempt[a].aborted /\ Go(a, "finally")
           \/ /\ attempt[a].last \in LastOfRun /\ Go(a, "finally")
           \/ /\ attempt[a].last \notin LastOfRun
              /\ \E e \in {"event", "input.required", "observation.ended"} :
                   attempt' = [attempt EXCEPT ![a].last = e]
     \/ ~Progresses(t) /\ Go(a, "caught") /\ UNCHANGED run
  /\ UNCHANGED <<requests, younger, crashes>>

(* The catch block: the failure is recorded and yielded, unless aborted.   *)
Catch(a) ==
  LET t == attempt[a].task
      failed == [attempt EXCEPT ![a].pc = "finally", ![a].text = "error",
                                ![a].last = "run.error"]
  IN
  /\ attempt[a].pc = "caught"
  /\ \/ attempt[a].aborted /\ Go(a, "finally") /\ UNCHANGED run
     \/ ~attempt[a].aborted /\ Progresses(t) /\ Progress(t) /\ attempt' = failed
     \/ ~attempt[a].aborted /\ ~Progresses(t) /\ Throw(a) /\ UNCHANGED run
  /\ UNCHANGED <<requests, younger, crashes>>

(* The finally block: what the inner request decided, whoever decided it.  *)
Decided(a) == requests["inner"].result

Finally(a) ==
  LET op == Decided(a)
      t == IF op = Task THEN Task ELSE attempt[a].task
  IN /\ attempt[a].pc = "finally"
     /\ \/ /\ t = None \/ Progresses(t)
           /\ IF t = None THEN UNCHANGED run ELSE Progress(t)
           /\ attempt' = [attempt EXCEPT
                ![a].pc = IF attempt[a].aborted THEN "abort" ELSE "finish",
                ![a].task = t, ![a].result = op]
        \/ t # None /\ ~Progresses(t) /\ Throw(a) /\ UNCHANGED run
     /\ UNCHANGED <<requests, younger, crashes>>

ResultOf(a) ==
  IF attempt[a].result # None THEN attempt[a].result
  ELSE IF attempt[a].task # None THEN attempt[a].task
  ELSE attempt[a].text

(* A disconnected observation stores what is decided and ends; otherwise   *)
(* the run is finished, and then the outer request is completed.           *)
EndAborted(a) ==
  /\ attempt[a].pc = "abort"
  /\ IF attempt[a].result = None /\ attempt[a].task = None
     THEN Go(a, "done")
     ELSE attempt' = [attempt EXCEPT ![a].pc = "complete",
                                     ![a].result = ResultOf(a)]
  /\ UNCHANGED <<requests, younger, run, crashes>>

Finish(a) ==
  /\ attempt[a].pc = "finish"
  /\ \/ /\ CanFinish
        /\ FinishRun(attempt[a].last, attempt[a].text, attempt[a].task)
        /\ attempt' = [attempt EXCEPT ![a].pc = "complete",
                                      ![a].result = ResultOf(a)]
     \/ ~CanFinish /\ Throw(a) /\ UNCHANGED run
  /\ UNCHANGED <<requests, younger, crashes>>

CompleteOuter(a) ==
  LET c == attempt[a].content IN
  /\ attempt[a].pc = "complete"
  /\ \/ CompleteClaim("outer", c, a, attempt[a].result) /\ Go(a, "done")
     \/ ~OwnsClaim("outer", c, a) /\ Throw(a) /\ UNCHANGED requests
  /\ UNCHANGED <<younger, run, crashes>>

-----------------------------------------------------------------------------
Disconnect(a) ==
  /\ attempt[a].pc \notin {"idle", "refused", "done", "thrown"}
  /\ ~attempt[a].aborted
  /\ attempt' = [attempt EXCEPT ![a].aborted = TRUE]
  /\ UNCHANGED <<requests, younger, run, crashes>>

(* An attempt that is over leaves its claims to an owner that is no        *)
(* attempt: the next one draws another random owner.                       *)
Over(a) ==
  /\ attempt' = [attempt EXCEPT ![a] = IdleAttempt]
  /\ requests' = [k \in {"outer", "inner"} |->
                    IF requests[k].owner = a
                    THEN [requests[k] EXCEPT !.owner = None]
                    ELSE requests[k]]
  /\ UNCHANGED <<younger, run>>

Crash(a) ==
  /\ attempt[a].pc \notin {"idle", "refused", "done", "thrown"}
  /\ crashes < MaxCrashes /\ crashes' = crashes + 1
  /\ Over(a)

(* The response is over; the client may send the run again.                *)
Rest(a) ==
  /\ attempt[a].pc \in {"refused", "done", "thrown"}
  /\ Over(a) /\ UNCHANGED crashes

(* A lease runs out: the older of two first, and, without stalls, not      *)
(* while the attempt that drew it is at work.                              *)
Oldest(k) ==
  \A j \in {"outer", "inner"} \ {k} : requests[j].leased => younger = j

LeaseEnds(k) ==
  /\ Oldest(k) /\ (Stalls \/ requests[k].owner = None)
  /\ ExpireClaim(k)
  /\ UNCHANGED <<younger, run, attempt, crashes>>

Step(a) ==
  \/ StartOrGet(a) \/ RecoverEvent(a) \/ RecoverEnd(a) \/ StoreRecovered(a)
  \/ Answer(a) \/ (\E c \in Content : ClaimInner(a, c))
  \/ Submit(a) \/ Observe(a) \/ Catch(a)
  \/ Finally(a) \/ EndAborted(a) \/ Finish(a) \/ CompleteOuter(a)

Next ==
  \/ \E a \in Attempt : \/ \E c \in Content : Claim(a, c)
                        \/ Step(a) \/ Disconnect(a) \/ Crash(a) \/ Rest(a)
  \/ \E k \in {"outer", "inner"} : LeaseEnds(k)

Spec == Init /\ [][Next]_vars

-----------------------------------------------------------------------------
TypeOK ==
  /\ requests \in [{"outer", "inner"} -> Request]
  /\ WellFormed(requests["outer"]) /\ WellFormed(requests["inner"])
  /\ younger \in {"outer", "inner"}
  /\ run \in RunRow /\ (run.outcome # None => run.status # "RUNNING")
  /\ attempt \in [Attempt -> AttemptState]
  /\ crashes \in 0..MaxCrashes

(* A finished run keeps the outcome and the status it was given, whatever  *)
(* overlapping attempts still do.                                          *)
FinishedIsFinal ==
  [][run.status \notin {"ABSENT", "RUNNING"} =>
       run'.status = run.status /\ run'.outcome = run.outcome]_vars

(* A run is associated only with a Task that is durably bound for it, and  *)
(* its stored result is a Task only then: a replay can observe that Task.  *)
TaskIsBound ==
  /\ run.task # None => requests["inner"].result = run.task
  /\ requests["outer"].result = Task => requests["inner"].result = Task

(* Recovery matrix, "expired owner can execute the original input": a run  *)
(* is never settled with "already being submitted" while its submission    *)
(* is still claimed by an attempt that died.                               *)
BusyIsNotFinal ==
  requests["outer"].result = "busy" => requests["inner"].status # "CLAIMED"

(* An attempt that ends undisturbed has told what is durable: the outcome  *)
(* of the run if that is finished, or else the message that is stored for  *)
(* the request; or it has observed the run's Task. It has so although      *)
(* another attempt may have taken its leases over at any time.             *)
ReplayAgrees ==
  [][\A a \in Attempt :
       (attempt'[a].pc = "done" /\ attempt[a].pc # "done"
          /\ ~attempt'[a].aborted)
       => \/ attempt'[a].text = Task
          \/ attempt'[a].text = IF run'.status = "RUNNING"
                                THEN requests'["outer"].result
                                ELSE run'.outcome]_vars

(* All attempts tell the same, whenever they end.                          *)
AllTellTheSame ==
  \A a, b \in Attempt :
    (\A x \in {a, b} : attempt[x].pc = "done" /\ ~attempt[x].aborted
                       /\ attempt[x].text # Task)
    => attempt[a].text = attempt[b].text
=============================================================================
