----------------------------- MODULE TaskBinding ----------------------------
(***************************************************************************)
(* One row of chat_service.conversation_task_binding and the observers     *)
(* that write it: the turns of SdarTaskCoordinator that see the same SDAR  *)
(* Task at the same time, through an A2A stream, by polling getTask, or by *)
(* a status request, a replay or a mutation whose answer must be shown.    *)
(*                                                                         *)
(* SDAR publishes the states of Lifeline one after another. What a turn    *)
(* observes is the state of the moment, as a stream event or as a getTask  *)
(* snapshot; what it then does with it (record the event, update the row   *)
(* under an optimistic version, reread, retry) takes several steps, so     *)
(* that an observation may be arbitrarily late when it reaches the row.    *)
(* A status event that ends a submission's answer is not told when its     *)
(* update returns: the turn asks SDAR for the Task first, and tells the    *)
(* event only if the row refuses the snapshot.                             *)
(*                                                                         *)
(* Versions are only ever compared for equality with the row's, and every  *)
(* UPDATE advances the row's. An observer's expectedVersion is therefore   *)
(* the Boolean `current`: no UPDATE has hit the row since it was read.     *)
(* pending_input_json is written together with last_event_hash and is a    *)
(* part of the observation `seen` stands for.                              *)
(***************************************************************************)
EXTENDS Naturals, Sequences

CONSTANTS
  Observer,  \* turns that observe the Task
  Lifeline,  \* the states SDAR publishes, in order
  Stamped,   \* which of them carry a status timestamp
  Kind,      \* the envelopes that occur: "status", "artifact", "task"
  None

Terminal == {"COMPLETED", "FAILED", "CANCELED", "REJECTED"}
State == Terminal \cup {"SUBMITTED", "WORKING", "INPUT_REQUIRED"}

ASSUME LifelineAssumption ==
  /\ Lifeline \in Seq(State)
  /\ Lifeline # <<>>
  /\ Stamped \subseteq DOMAIN Lifeline
  /\ Kind \subseteq {"status", "artifact", "task"}
  /\ "task" \in Kind

(* An observation is identified by its hash: which published state, in     *)
(* which envelope. A stream event never hashes like a getTask snapshot.    *)
Observation == [n : DOMAIN Lifeline, kind : Kind]

ASSUME NoneAssumption == None \notin Observation

VARIABLES
  published,  \* how much of Lifeline SDAR has published
  row,        \* the binding row
  events,     \* a2a_event_cache: hashes recorded for the Task
  observer,   \* the observing turns
  shown       \* per observation, how often it was told unforced

vars == <<published, row, events, observer, shown>>

Row == [exists   : BOOLEAN,
        status   : State \cup {None},
        at       : Nat,                     \* last_status_timestamp, 0 = NULL
        seen     : Observation \cup {None}, \* last_event_hash
        terminal : BOOLEAN]                 \* terminal_at IS NOT NULL

Turn == [pc      : {"idle", "bound", "creating", "recording", "updating",
                    "rereading", "checking", "over", "failed"},
         obs     : Observation \cup {None},
         force   : BOOLEAN,   \* forceRender: the turn owes the user a status
         current : BOOLEAN,   \* its version is still the row's
         unique  : BOOLEAN,   \* it was the first to record the event
         misses  : 0..3,      \* attempts the optimistic update has lost
         held    : Observation \cup {None},  \* a status that awaits its check
         told    : Observation \cup {None}]  \* what the user is told of obs

Idle == [pc |-> "idle", obs |-> None, force |-> FALSE, current |-> FALSE,
         unique |-> FALSE, misses |-> 0, held |-> None, told |-> None]

TypeOK ==
  /\ published \in DOMAIN Lifeline
  /\ row \in Row
  /\ events \subseteq Observation
  /\ observer \in [Observer -> Turn]
  /\ shown \in [Observation -> Nat]

Init ==
  /\ published = 1
  /\ row = [exists |-> FALSE, status |-> None, at |-> 0, seen |-> None,
            terminal |-> FALSE]
  /\ events = {}
  /\ observer = [o \in Observer |-> Idle]
  /\ shown = [x \in Observation |-> 0]

StateOf(x) == IF x.kind = "artifact" THEN "WORKING" ELSE Lifeline[x.n]
Stamp(x) == IF x.n \in Stamped THEN x.n ELSE 0

(* The states at which an answer ends.                                     *)
Boundary(x) == StateOf(x) \in Terminal \cup {"INPUT_REQUIRED"}

-----------------------------------------------------------------------------
(* The Task advances on its own in SDAR.                                   *)
SdarPublishes ==
  /\ published + 1 \in DOMAIN Lifeline
  /\ published' = published + 1
  /\ UNCHANGED <<row, events, observer, shown>>

(* findAuthorizedTask finds the binding.                                   *)
ReadBinding(o) ==
  /\ observer[o].pc = "idle"
  /\ row.exists
  /\ observer' = [observer EXCEPT ![o] =
       [@ EXCEPT !.pc = "bound", !.current = TRUE]]
  /\ UNCHANGED <<published, row, events, shown>>

(* The first event of a submission's stream names a Task without binding.  *)
FirstEvent(o, kind) ==
  /\ observer[o].pc = "idle"
  /\ ~row.exists
  /\ observer' = [observer EXCEPT ![o] =
       [@ EXCEPT !.pc = "creating", !.obs = [n |-> published, kind |-> kind]]]
  /\ UNCHANGED <<published, row, events, shown>>

(* createTaskBinding; when another turn was faster the unique constraint   *)
(* refuses the insert and the binding of that turn is read instead.        *)
CreateBinding(o) ==
  /\ observer[o].pc = "creating"
  /\ observer' = [observer EXCEPT ![o] =
       [@ EXCEPT !.pc = "recording", !.current = TRUE]]
  /\ row' = IF row.exists THEN row
            ELSE [row EXCEPT !.exists = TRUE,
                             !.status = StateOf(observer[o].obs)]
  /\ UNCHANGED <<published, events, shown>>

(* A further stream event, a poll, or a getTask whose answer is owed.      *)
Observe(o, kind, force) ==
  /\ observer[o].pc = "bound"
  /\ force => kind = "task"
  /\ observer' = [observer EXCEPT ![o] =
       [@ EXCEPT !.pc = "recording", !.force = force, !.told = None,
                 !.obs = [n |-> published, kind |-> kind]]]
  /\ UNCHANGED <<published, row, events, shown>>

(* submit, after a status event that ends its answer: getTask, whose       *)
(* snapshot goes to the row like one that is owed.                         *)
Check(o) ==
  /\ observer[o].pc = "checking"
  /\ observer' = [observer EXCEPT ![o] =
       [@ EXCEPT !.pc = "recording", !.force = TRUE,
                 !.obs = [n |-> published, kind |-> "task"]]]
  /\ UNCHANGED <<published, row, events, shown>>

-----------------------------------------------------------------------------
(* recordEvent: INSERT ... ON CONFLICT (task_id, event_hash) DO NOTHING.   *)
FirstRecord_PerObserver(o) == observer[o].obs # None  \* fault: no dedup

FirstRecord(o) == observer[o].obs \notin events

Tell(x) == shown' = [shown EXCEPT ![x] = @ + 1]

RecordEvent(o) ==
  /\ observer[o].pc = "recording"
  /\ events' = events \cup {observer[o].obs}
  /\ IF observer[o].obs.kind = "artifact"
     THEN /\ observer' = [observer EXCEPT ![o] =
               [@ EXCEPT !.pc = "bound",
                         !.told = IF FirstRecord(o) THEN observer[o].obs ELSE None]]
          /\ IF FirstRecord(o) THEN Tell(observer[o].obs) ELSE UNCHANGED shown
     ELSE /\ observer' = [observer EXCEPT ![o] =
               [@ EXCEPT !.pc = "updating", !.unique = FirstRecord(o)]]
          /\ UNCHANGED shown
  /\ UNCHANGED <<published, row>>

(* The CASE guard of every column of updateTaskBinding.                    *)
Applies_IgnoringTerminal(r, x) ==  \* fault: terminal_at is not consulted
  Stamp(x) = 0 \/ r.at = 0 \/ Stamp(x) >= r.at

Applies_IgnoringStamps(r, x) == ~r.terminal  \* fault: timestamps ignored

Applies_NullIsOld(r, x) ==  \* fault: a comparison with NULL is not true
  ~r.terminal /\ (r.at = 0 \/ Stamp(x) >= r.at)

Applies(r, x) ==
  /\ ~r.terminal
  /\ Stamp(x) = 0 \/ r.at = 0 \/ Stamp(x) >= r.at

Merge(r, x) ==
  IF Applies(r, x)
  THEN [r EXCEPT !.status = StateOf(x), !.seen = x,
                 !.at = IF Stamp(x) = 0 THEN @ ELSE Stamp(x),
                 !.terminal = StateOf(x) \in Terminal]
  ELSE r

(* What the coordinator makes of the row the update returned: the turn may *)
(* tell an observation that is the one the row now holds, if nobody        *)
(* recorded it before or the user is owed a status.                        *)
Accepted_StateOnly(r, x) == r.status = StateOf(x)  \* fault: hash ignored

Accepted(r, x) == r.status = StateOf(x) /\ r.seen = x

Publishes(o, r) ==
  /\ Accepted(r, observer[o].obs)
  /\ observer[o].unique \/ observer[o].force

(* boundaryFragments: the observation, or else the status held back.       *)
Telling(o, r) ==
  IF Publishes(o, r) THEN observer[o].obs ELSE observer[o].held

(* A status event that ends the answer is held back for its check; every   *)
(* other observation that is owed or ends the answer is the turn's last.   *)
HoldsBack(x) == x.kind = "status" /\ Boundary(x)

Returned(o, r) ==
  LET u == observer[o]
  IN  [u EXCEPT
        !.pc = IF HoldsBack(u.obs) THEN "checking"
               ELSE IF u.force \/ Boundary(u.obs) THEN "over" ELSE "bound",
        !.current = TRUE, !.unique = FALSE, !.misses = 0,
        !.held = IF HoldsBack(u.obs) THEN Telling(o, r) ELSE None,
        !.told = IF HoldsBack(u.obs) THEN None ELSE Telling(o, r)]

(* What is told is counted, unless it is owed.                             *)
Publish(o, r) ==
  IF \/ HoldsBack(observer[o].obs)
     \/ Telling(o, r) = None
     \/ Publishes(o, r) /\ observer[o].force
  THEN UNCHANGED shown
  ELSE Tell(Telling(o, r))

(* updateTaskBinding, UPDATE ... WHERE version = expectedVersion: a hit.   *)
Update(o) ==
  LET r == Merge(row, observer[o].obs)
  IN  /\ observer[o].pc = "updating"
      /\ observer[o].current
      /\ row' = r
      /\ observer' = [p \in Observer |->
           IF p = o THEN Returned(o, r)
                    ELSE [observer[p] EXCEPT !.current = FALSE]]
      /\ Publish(o, r)
      /\ UNCHANGED <<published, events>>

(* A miss: the version has moved on, and the row is read again.            *)
Miss(o) ==
  /\ observer[o].pc = "updating"
  /\ ~observer[o].current
  /\ observer' = [observer EXCEPT ![o] = [@ EXCEPT !.pc = "rereading"]]
  /\ UNCHANGED <<published, row, events, shown>>

(* preserveCurrentTaskBinding: the row stays as it is.                     *)
Preserved_Always(r, x) == r.exists  \* fault: a lost update is not tried again

Preserved(r, x) ==
  \/ r.terminal
  \/ Stamp(x) # 0 /\ r.at # 0 /\ Stamp(x) < r.at

(* Three attempts to update are allowed.                                   *)
Exhausted_OffByOne(o) == observer[o].misses = 3  \* fault: <= for <

Exhausted(o) == observer[o].misses = 2

Reread(o) ==
  /\ observer[o].pc = "rereading"
  /\ \/ /\ Preserved(row, observer[o].obs)
        /\ observer' = [observer EXCEPT ![o] = Returned(o, row)]
        /\ Publish(o, row)
     \/ /\ ~Preserved(row, observer[o].obs)
        /\ observer' = [observer EXCEPT ![o] =
             [@ EXCEPT !.pc = IF Exhausted(o) THEN "failed" ELSE "updating",
                       !.current = TRUE, !.misses = observer[o].misses + 1]]
        /\ UNCHANGED shown
  /\ UNCHANGED <<published, row, events>>

(* The turn ends: it has shown what it wanted, failed, or its process died *)
(* with it at any point.                                                   *)
Leave(o) ==
  /\ observer[o].pc # "idle"
  /\ observer' = [observer EXCEPT ![o] = Idle]
  /\ UNCHANGED <<published, row, events, shown>>

Work(o) ==
  \/ CreateBinding(o) \/ Check(o)
  \/ RecordEvent(o) \/ Update(o) \/ Miss(o) \/ Reread(o)

Next ==
  \/ SdarPublishes
  \/ \E o \in Observer :
       \/ ReadBinding(o) \/ Work(o) \/ Leave(o)
       \/ \E kind \in Kind :
            \/ FirstEvent(o, kind)
            \/ \E force \in BOOLEAN : Observe(o, kind, force)

Spec == Init /\ [][Next]_vars

(* The code of a turn runs on; turns end, and processes die, but no turn   *)
(* is always cut off at the same point; and somebody keeps asking for the  *)
(* status, which is what the bounded poll loop and its users do.           *)
Fairness ==
  \A o \in Observer :
    /\ SF_vars(RecordEvent(o)) /\ SF_vars(Update(o))
    /\ WF_vars(Miss(o)) /\ SF_vars(Reread(o))
    /\ SF_vars(ReadBinding(o)) /\ SF_vars(Observe(o, "task", FALSE))
    /\ WF_vars(observer[o].pc \in {"over", "failed"} /\ Leave(o))

FairSpec == Spec /\ Fairness

-----------------------------------------------------------------------------
(* Once terminal_at is set, no late observation changes the row: neither   *)
(* its status nor the event it is known by.                                *)
TerminalIsFinal == [][row.terminal => row' = row]_vars

(* The status timestamp of a row never goes back.                          *)
StampsAdvance == [][row'.at >= row.at]_vars

(* No update is lost to a concurrent one: when updateTaskBinding returns,  *)
(* a timestamped observation is in the row, or the row holds one that is   *)
(* at least as new, or it is terminal.                                     *)
NoLostUpdate ==
  \A o \in Observer :
    LET x == observer[o].obs
    IN  (observer[o].pc \in {"bound", "checking", "over"} /\ x # None) =>
          \/ x.kind = "artifact"
          \/ row.terminal
          \/ row.at >= Stamp(x)

(* However many turns observe the Task, an observation that nobody is owed *)
(* is told by at most one of them.                                         *)
PublishedOnce == \A x \in Observation : shown[x] <= 1

(* A status the database has refused is never held back or told. What a    *)
(* turn tells is what the row holds, with one exception: a question that   *)
(* was held back is told although the row has passed it over, because the  *)
(* row has ended since or carries a later stamp (submit falls back to the  *)
(* fragments of the event). A final state that is told is always the row's.*)
PublishedIsPersisted ==
  [][\A o \in Observer :
       LET u == observer[o]
           v == observer'[o]
           InRow(x) == row'.seen = x /\ row'.status = StateOf(x)
       IN  /\ v.held \notin {None, u.held} => InRow(v.held)
           /\ (v.told \notin {None, u.told} /\ v.told.kind # "artifact") =>
                \/ InRow(v.told)
                \/ /\ v.told = u.held
                   /\ StateOf(v.told) = "INPUT_REQUIRED"
                   /\ row'.terminal \/ row'.at > v.told.n]_vars

(* An observation published earlier by SDAR never replaces a later one.    *)
NewerWins ==
  [][(row.seen # None /\ row'.seen # None) => row'.seen.n >= row.seen.n]_vars

(* A turn that owes its user the state of the Task (a status request, the  *)
(* replay of a completed request) tells it when SDAR's answer is the       *)
(* status the row holds.                                                   *)
OwedStatusIsTold ==
  \A o \in Observer :
    LET x == observer[o].obs
    IN  (observer[o].pc = "over" /\ observer[o].force) =>
          (row.status = StateOf(x) => observer[o].told # None)

(* A final state that SDAR has published reaches the row of a bound Task.  *)
TerminalIsRecorded ==
  (row.exists /\ Lifeline[published] \in Terminal) ~> row.terminal
=============================================================================
