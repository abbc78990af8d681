----------------------------- MODULE Interrupts -----------------------------
(***************************************************************************)
(* Interrupts and resume: runs that observe one Task asking for input      *)
(* publish durable interrupts (agui_interrupt_binding), and resume turns   *)
(* answer or cancel them. A run's interrupt id is <runId>:input-required,  *)
(* so a run is the key of its row. Turns may crash between any two steps,  *)
(* follow-ups may lose their reply, and the Task also moves on its own     *)
(* (SDAR, or a follow-up sent through the chat).                           *)
(***************************************************************************)
EXTENDS Naturals, Sequences, Functions

CONSTANTS
  Run,        \* AG-UI runs that observe the Task
  Turn,       \* resume requests
  Questions,  \* what the Task asks: a sequence of [phase, request, schema]
  Answer,     \* resolved payloads: [action, request, data] records
  Cancel,     \* the ResumeEntry whose status is cancelled
  None        \* no inputRequestId; a NULL resolution hash

ASSUME InterruptsAssumption ==
  /\ Questions \in Seq(Range(Questions))
  /\ None \notin Answer \cup {Cancel} \cup Range(Questions)
  /\ Cancel \notin Answer

VARIABLES
  at,       \* index of the question last asked, 0 before the first
  waiting,  \* the Task is INPUT_REQUIRED
  rows,     \* agui_interrupt_binding, by run
  pub,      \* where each run stands in persistInputRequired
  told,     \* <<run, question index>>: reached the AG-UI projection
  turns,    \* where each resume turn stands, and what its client was told
  sent,     \* <<turn, run, entry>>: follow-ups handed to the A2A client
  applied,  \* <<run, question index, entry>>: what SDAR acted upon
  replied   \* <<run, entry>>: the follow-ups that SDAR replied to

vars == <<at, waiting, rows, pub, told, turns, sent, applied, replied>>

Entry == Answer \cup {Cancel}
Row == [status : {"ABSENT", "OPEN", "RESOLVING", "RESOLVED", "CANCELLED"},
        question : Range(Questions) \cup {None},
        hash : Entry \cup {None}, expired : BOOLEAN]
NoRow == [status |-> "ABSENT", question |-> None, hash |-> None,
          expired |-> FALSE]
(* What the statements keep of the columns: an answer's hash is there as   *)
(* long as its resolution is, and a cancellation's only when it closed.    *)
WellFormed(row) ==
  /\ row.status = "ABSENT" <=> row.question = None
  /\ row.status \in {"ABSENT", "OPEN"} => row.hash = None
  /\ row.status \in {"RESOLVING", "RESOLVED"} => row.hash \in Answer
  /\ row.status = "CANCELLED" => row.hash \in {Cancel, None}

TurnState == [step : {"idle", "find", "check", "claim", "send", "complete",
                      "done"},
              run : Run \cup {None}, entry : Entry \cup {None},
              outcome : {"none", "resolved", "replay", "cancelled", "expired",
                         "conflict", "in_progress", "invalid", "not_found",
                         "failed"}]

Init ==
  /\ at = 0 /\ waiting = FALSE
  /\ rows = [r \in Run |-> NoRow]
  /\ pub = [r \in Run |-> [step |-> "idle", question |-> 0]]
  /\ told = {}
  /\ turns = [t \in Turn |-> [step |-> "idle", run |-> None, entry |-> None,
                              outcome |-> "none"]]
  /\ sent = {} /\ applied = {} /\ replied = {}

-----------------------------------------------------------------------------
(* The Task, outside the repository: it asks its questions in order and may *)
(* leave one without the interrupts' help (a chat follow-up, its own timer). *)
Ask ==
  /\ ~waiting /\ at < Len(Questions)
  /\ at' = at + 1 /\ waiting' = TRUE
  /\ UNCHANGED <<rows, pub, told, turns, sent, applied, replied>>

MoveOn ==
  /\ waiting /\ waiting' = FALSE
  /\ UNCHANGED <<at, rows, pub, told, turns, sent, applied, replied>>

(* expires_at passes.                                                      *)
Expire(r) ==
  /\ rows[r].status = "OPEN" /\ ~rows[r].expired
  /\ rows' = [rows EXCEPT ![r].expired = TRUE]
  /\ UNCHANGED <<at, waiting, pub, told, turns, sent, applied, replied>>

-----------------------------------------------------------------------------
(* persistInputRequired, for the input.required event of run r.            *)
Observe(r) ==
  /\ pub[r].step = "idle" /\ waiting
  /\ pub' = [pub EXCEPT ![r] = [step |-> "find", question |-> at]]
  /\ UNCHANGED <<at, waiting, rows, told, turns, sent, applied, replied>>

Publish(r) ==
  /\ told' = told \cup {<<r, pub[r].question>>}
  /\ pub' = [pub EXCEPT ![r] = [step |-> "idle", question |-> 0]]

Refuse(r) ==  \* interrupt_conflict, or the insert's unique violation
  /\ pub' = [pub EXCEPT ![r] = [step |-> "idle", question |-> 0]]
  /\ UNCHANGED told

OpenUnexpired(r) == rows[r].status = "OPEN" /\ ~rows[r].expired

SameInterrupt_AnyQuestion(r, open) == open = r  \* fault: only the run compared

SameInterrupt(r, open) ==
  /\ open = r
  /\ rows[open].question = Questions[pub[r].question]

FindOpen(r) ==
  /\ pub[r].step = "find"
  /\ \/ \E open \in Run :
          /\ OpenUnexpired(open)
          /\ \/ SameInterrupt(r, open) /\ Publish(r)
             \/ ~SameInterrupt(r, open) /\ Refuse(r)
     \/ /\ \A open \in Run : ~OpenUnexpired(open)
        /\ pub' = [pub EXCEPT ![r].step = "create"]
        /\ UNCHANGED told
  /\ UNCHANGED <<at, waiting, rows, turns, sent, applied, replied>>

(* Index agui_one_unfinished_interrupt_per_task.                           *)
Unfinished(r) == rows[r].status \in {"OPEN", "RESOLVING"}

OpenRow(q) == [NoRow EXCEPT !.status = "OPEN", !.question = q]

Create(r) ==
  /\ pub[r].step = "create"
  /\ IF rows[r].status = "ABSENT" /\ \A other \in Run : ~Unfinished(other)
     THEN /\ rows' = [rows EXCEPT ![r] = OpenRow(Questions[pub[r].question])]
          /\ Publish(r)
     ELSE Refuse(r) /\ UNCHANGED rows
  /\ UNCHANGED <<at, waiting, turns, sent, applied, replied>>

-----------------------------------------------------------------------------
(* resolve, one turn t with one ResumeEntry.                               *)
Reply(t, outcome) ==
  turns' = [turns EXCEPT ![t].step = "done", ![t].outcome = outcome]

Continue(t, step) == turns' = [turns EXCEPT ![t].step = step]

Resume(t, r, e) ==
  /\ turns[t].step = "idle"
  /\ turns' = [turns EXCEPT ![t] = [step |-> "find", run |-> r, entry |-> e,
                                    outcome |-> "none"]]
  /\ UNCHANGED <<at, waiting, rows, pub, told, sent, applied, replied>>

(* phaseContracts and parseResolutionPayload: the action belongs to the    *)
(* phase, the payload names the interrupt's own input request, and meets   *)
(* its response schema, which is the set of the data it accepts.           *)
Allowed(phase) ==
  CASE phase = "awaiting_plan_confirmation" ->
         {"confirm_plan", "reject_plan", "revise_plan", "patch_goal"}
    [] phase = "awaiting_user_input" -> {"provide_input"}
    [] phase = "paused" -> {"resume", "cancel_goal"}

MeetsSchema(data, schema) == data \in schema

Fits(answer, question) ==
  /\ answer.action \in Allowed(question.phase)
  /\ answer.request = question.request
  /\ MeetsSchema(answer.data, question.schema)

Find(t) ==
  LET row == rows[turns[t].run] IN
  /\ turns[t].step = "find"
  /\ \/ row.status = "ABSENT" /\ Reply(t, "not_found")
     \/ /\ row.status # "ABSENT"
        /\ \/ turns[t].entry = Cancel /\ Continue(t, "claim")
           \/ /\ turns[t].entry # Cancel
              /\ IF Fits(turns[t].entry, row.question)
                 THEN Continue(t, "check")
                 ELSE Reply(t, "invalid")
  /\ UNCHANGED <<at, waiting, rows, pub, told, sent, applied, replied>>

(* getTask and assertCurrentInterruptTask, which look at no schema.        *)
StillAsked(question) ==
  /\ waiting
  /\ Questions[at].phase = question.phase
  /\ Questions[at].request = question.request

CheckTask(t) ==
  /\ turns[t].step = "check"
  /\ \/ StillAsked(rows[turns[t].run].question) /\ Continue(t, "claim")
     \/ ~StillAsked(rows[turns[t].run].question) /\ Reply(t, "conflict")
     \/ Reply(t, "failed")  \* the call fails
  /\ UNCHANGED <<at, waiting, rows, pub, told, sent, applied, replied>>

(* The end of the claim and of the cancel transaction: an OPEN row past    *)
(* its expiry is closed, without a hash (updateInterruptStatus).           *)
CloseExpired(t) ==
  /\ ~OpenUnexpired(turns[t].run)
  /\ rows[turns[t].run].status = "OPEN"
  /\ rows' = [rows EXCEPT ![turns[t].run].status = "CANCELLED"]
  /\ Reply(t, "expired")

TakeRow(t, status) ==
  /\ OpenUnexpired(turns[t].run)
  /\ rows' = [rows EXCEPT ![turns[t].run].status = status,
                          ![turns[t].run].hash = turns[t].entry]

(* cancelInterrupt.                                                        *)
CancelClosed(row, e) == row.status = "CANCELLED" /\ row.hash = e

CancelConflicts(row, e) ==
  \/ row.status \in {"RESOLVING", "RESOLVED"}
  \/ row.status = "CANCELLED" /\ row.hash # e

CancelRow_Any(t) ==  \* fault: the UPDATE has no status = 'OPEN' guard
  /\ rows[turns[t].run].status # "ABSENT"
  /\ rows' = [rows EXCEPT ![turns[t].run].status = "CANCELLED",
                          ![turns[t].run].hash = turns[t].entry]
  /\ Reply(t, "cancelled")

CancelRow(t) == TakeRow(t, "CANCELLED") /\ Reply(t, "cancelled")

CancelInterrupt(t) ==
  LET row == rows[turns[t].run]
      e == turns[t].entry IN
  /\ turns[t].step = "claim" /\ e = Cancel
  /\ \/ CancelClosed(row, e) /\ Reply(t, "replay") /\ UNCHANGED rows
     \/ CancelConflicts(row, e) /\ Reply(t, "conflict") /\ UNCHANGED rows
     \/ CloseExpired(t)
     \/ CancelRow(t)
  /\ UNCHANGED <<at, waiting, pub, told, sent, applied, replied>>

(* claimInterruptResolution.                                               *)
Acquires_Same(t) ==  \* fault: the same hash takes a RESOLVING row again
  LET row == rows[turns[t].run] IN
  /\ \/ OpenUnexpired(turns[t].run)
     \/ row.status = "RESOLVING" /\ row.hash = turns[t].entry
  /\ rows' = [rows EXCEPT ![turns[t].run].status = "RESOLVING",
                          ![turns[t].run].hash = turns[t].entry]
  /\ Continue(t, "send")

Acquires(t) == TakeRow(t, "RESOLVING") /\ Continue(t, "send")

ClaimOutcome_Resolving(row, e) ==  \* fault: RESOLVING is taken for done
  IF row.status \in {"RESOLVING", "RESOLVED"} /\ row.hash = e
  THEN "replay" ELSE "conflict"

ClaimOutcome(row, e) ==
  CASE row.status = "RESOLVED" /\ row.hash = e -> "replay"
    [] row.status = "RESOLVING" /\ row.hash = e -> "in_progress"
    [] OTHER -> "conflict"

ClaimResolution(t) ==
  LET row == rows[turns[t].run]
      e == turns[t].entry IN
  /\ turns[t].step = "claim" /\ e # Cancel
  /\ \/ /\ row.status # "OPEN"
        /\ Reply(t, ClaimOutcome(row, e))
        /\ UNCHANGED rows
     \/ CloseExpired(t)
     \/ Acquires(t)
  /\ UNCHANGED <<at, waiting, pub, told, sent, applied, replied>>

(* sendFollowUp. SDAR may act on it if the Task still asks that question,  *)
(* and in any case replies with the Task or with a message, either of      *)
(* which completes the resolution, or with an error; and a reply may be    *)
(* lost. Then the row stays RESOLVING.                                     *)
FollowUp(t) ==
  LET r == turns[t].run
      e == turns[t].entry IN
  /\ turns[t].step = "send"
  /\ sent' = sent \cup {<<t, r, e>>}
  /\ \/ /\ StillAsked(rows[r].question)
        /\ applied' = applied \cup {<<r, at, e>>}
        /\ waiting' = FALSE
     \/ UNCHANGED <<applied, waiting>>
  /\ \/ replied' = replied \cup {<<r, e>>} /\ Continue(t, "complete")
     \/ Reply(t, "failed") /\ UNCHANGED replied
  /\ UNCHANGED <<at, rows, pub, told>>

(* completeInterruptResolution.                                            *)
Complete(t) ==
  LET r == turns[t].run IN
  /\ turns[t].step = "complete"
  /\ IF rows[r].status = "RESOLVING" /\ rows[r].hash = turns[t].entry
     THEN /\ rows' = [rows EXCEPT ![r].status = "RESOLVED"]
          /\ Reply(t, "resolved")
     ELSE Reply(t, "failed") /\ UNCHANGED rows
  /\ UNCHANGED <<at, waiting, pub, told, sent, applied, replied>>

(* The process dies, or the client's disconnect aborts the call.           *)
Crash(t) ==
  /\ turns[t].step \notin {"idle", "done"}
  /\ Reply(t, "failed")
  /\ UNCHANGED <<at, waiting, rows, pub, told, sent, applied, replied>>

Next ==
  \/ Ask \/ MoveOn
  \/ \E r \in Run : Expire(r) \/ Observe(r) \/ FindOpen(r) \/ Create(r)
  \/ \E t \in Turn :
       \/ \E r \in Run, e \in Entry : Resume(t, r, e)
       \/ Find(t) \/ CheckTask(t) \/ CancelInterrupt(t) \/ ClaimResolution(t)
       \/ FollowUp(t) \/ Complete(t) \/ Crash(t)

Spec == Init /\ [][Next]_vars

-----------------------------------------------------------------------------
TypeOK ==
  /\ at \in 0..Len(Questions) /\ waiting \in BOOLEAN
  /\ rows \in [Run -> Row] /\ \A r \in Run : WellFormed(rows[r])
  /\ pub \in [Run -> [step : {"idle", "find", "create"},
                      question : 0..Len(Questions)]]
  /\ told \subseteq Run \X (1..Len(Questions))
  /\ turns \in [Turn -> TurnState]
  /\ sent \subseteq Turn \X Run \X Answer
  /\ applied \subseteq Run \X (1..Len(Questions)) \X Answer
  /\ replied \subseteq Run \X Answer

(* The Task is sent at most one follow-up for an interrupt, however many   *)
(* resumes, retries and crashes there are: an uncertain one is not resent. *)
OneFollowUp == \A x, y \in sent : x[2] = y[2] => x = y

(* An interrupt that a client was told is cancelled or expired never sends *)
(* its Task anything, before or after.                                     *)
CancelledSendsNothing ==
  \A t \in Turn : turns[t].outcome \in {"cancelled", "expired"} =>
    \A x \in sent : x[2] # turns[t].run

(* A resume reported as done, by the turn that did it or by a replay, is   *)
(* an answer that SDAR replied to, with that very content: none that is    *)
(* only under way, that was lost or that another answer came before.       *)
ToldIsTrue ==
  \A t \in Turn :
    /\ turns[t].outcome \in {"resolved", "replay"}
    /\ turns[t].entry # Cancel
    => <<turns[t].run, turns[t].entry>> \in replied

(* The question a client was shown under an interrupt id is the question   *)
(* that the durable row will be resumed with.                              *)
PublishedMatchesRow ==
  \A x \in told : rows[x[1]].question = Questions[x[2]]

(* A reply does not say that SDAR acted: for one that is a message only    *)
(* the Task's identity is looked at.                                       *)
ToldIsApplied ==
  \A t \in Turn : turns[t].outcome = "resolved" =>
    \E x \in applied : x[1] = turns[t].run /\ x[3] = turns[t].entry

(* docs/architecture/interrupt-resume.md: stale interrupts fail closed. An *)
(* answer reaches SDAR only for a question its interrupt was shown for.    *)
StaleFailsClosed == \A x \in applied : <<x[1], x[2]>> \in told
=============================================================================
