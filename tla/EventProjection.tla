--------------------------- MODULE EventProjection --------------------------
(***************************************************************************)
(* What an AG-UI client sees of one run: the coordinator's observations    *)
(* become interaction events (A2aInteractionMapper, over the factory that  *)
(* numbers and deduplicates them), these become AG-UI events               *)
(* (AgUiEventProjection), and the route sends them and stores the text it  *)
(* published (encodeEventStream). The stream, the polls that follow it and *)
(* a recovery deliver the same fact more than once.                        *)
(***************************************************************************)
EXTENDS Naturals, Sequences, FiniteSets

CONSTANTS
  Task,      \* Tasks that observations may name
  Status,    \* [state, phase] records; a phase stands for all the rest
  Message,   \* ids of agent messages with text
  Artifact,  \* [id, content] records, one part each
  None,
  MaxSteps   \* bound: observations and local fragments in a run

VARIABLES
  factory,   \* InteractionEventFactory: [sequence, keys]
  mapper,    \* A2aInteractionMapper: [task, snapshot]
  source,    \* coordinatorInteractionEvents and the run around it
  finished,  \* AgUiEventProjection.finished
  client,    \* what the route has sent
  stored,    \* what persistAssistantMessages was given, or None
  last       \* the status last observed, or None

vars == <<factory, mapper, source, finished, client, stored, last>>

Terminal == {"COMPLETED", "FAILED", "CANCELED", "REJECTED"}
TerminalEvent == {"input.required", "observation.ended", "run.finished",
                  "run.error"}
TextEvent == {"message.text", "artifact.text"}

Working == [state |-> "WORKING", phase |-> None]  \* of an artifact event

Init ==
  /\ factory = [sequence |-> 0, keys |-> {}]
  /\ mapper = [task |-> None, snapshot |-> FALSE]
  /\ source = [pc |-> "new", pending |-> <<>>, fallback |-> 0,
               latest |-> None, steps |-> 0]
  /\ finished = FALSE
  /\ client = [sent |-> <<>>, status |-> None, actions |-> {},
               aborted |-> FALSE]
  /\ stored = None
  /\ last = None

-----------------------------------------------------------------------------
(* The factory: a draft whose dedupe key is known, from before or from a    *)
(* draft ahead of it, makes no event and takes no sequence number.         *)
Draft(type, key, body) == [type |-> type, key |-> key, body |-> body]

Fresh_Always(drafts, i) == TRUE  \* fault: the dedupe key is not looked up

Fresh(drafts, i) ==
  drafts[i].key # None =>
    drafts[i].key \notin factory.keys \cup {drafts[j].key : j \in 1..(i - 1)}

Made(drafts) == {i \in DOMAIN drafts : Fresh(drafts, i)}

Nth(S, k) == CHOOSE i \in S : Cardinality({j \in S : j <= i}) = k

Created(drafts) ==
  LET made == Made(drafts)
      Event(i, n) == [type |-> drafts[i].type, body |-> drafts[i].body,
                      sequence |-> factory.sequence + (n - 1)]
  IN  [sequence |-> factory.sequence + Cardinality(made),
       keys |-> factory.keys \cup ({drafts[i].key : i \in made} \ {None}),
       events |-> [n \in 1..Cardinality(made) |-> Event(Nth(made, n), n)]]

Number(f) == factory' = [sequence |-> f.sequence, keys |-> f.keys]

-----------------------------------------------------------------------------
(* The mapper: the drafts each kind of observation makes, in order.        *)
AllowedActions(s) ==
  IF s.state \in Terminal THEN {}
  ELSE IF s.state # "INPUT_REQUIRED" THEN {"patch_goal", "cancel_goal", "pause"}
  ELSE CASE s.phase = "awaiting_plan_confirmation" ->
              {"confirm_plan", "reject_plan", "revise_plan", "patch_goal"}
         [] s.phase = "awaiting_user_input" -> {"provide_input"}
         [] s.phase = "paused" -> {"resume", "cancel_goal"}
         [] OTHER -> {}

(* NULL is none of the values that observations are made of, and no dedupe *)
(* key.                                                                    *)
ASSUME EventProjectionAssumption ==
  /\ MaxSteps \in Nat
  /\ None \notin Task \cup Status
  /\ None \notin {<<"message", m>> : m \in Message}
                \cup {<<"artifact", a.id>> : a \in Artifact}
                \cup {<<"status", s>> : s \in Status}
                \cup {<<"actions", AllowedActions(s)>> : s \in Status}

ActionsDraft(s) ==
  Draft("allowed_actions.changed", <<"actions", AllowedActions(s)>>,
        AllowedActions(s))

StatusDrafts_NoDelta(t, s) ==  \* fault: every status is a snapshot
  <<Draft("task.bound", <<"bound", t>>, t),
    Draft("task.snapshot", <<"snapshot", t>>, s), ActionsDraft(s)>>

StatusDrafts(t, s) ==
  IF mapper.snapshot
  THEN <<Draft("task.status_changed", <<"status", s>>, s), ActionsDraft(s)>>
  ELSE <<Draft("task.bound", <<"bound", t>>, t),
         Draft("task.snapshot", <<"snapshot", t>>, s), ActionsDraft(s)>>

SignalDrafts(s) ==
  (IF s.state = "INPUT_REQUIRED"
   THEN <<Draft("input.required", <<"input", s.phase>>, s)>> ELSE <<>>) \o
  (IF s.phase = "capability_gap"
   THEN <<Draft("capability.gap", <<"gap">>, s)>> ELSE <<>>)

MessageDrafts(ms) ==
  [i \in DOMAIN ms |-> Draft("message.text", <<"message", ms[i]>>, ms[i])]

ArtifactDrafts(as) ==
  [i \in DOMAIN as |-> Draft("artifact.text", <<"artifact", as[i].id>>,
                             as[i])]

Observation ==
  LET Lists(S) == {<<>>} \cup {<<x>> : x \in S} IN
  [kind : {"status"}, task : Task, status : Status,
   messages : Lists(Message), artifacts : Lists(Artifact)]
  \cup [kind : {"artifact"}, task : Task, artifacts : Lists(Artifact)]
  \cup [kind : {"message"}, messages : Lists(Message)]

Drafts(o) ==
  CASE o.kind = "status" ->  \* mapTask, and a status update of a stream
         StatusDrafts(o.task, o.status) \o MessageDrafts(o.messages)
           \o SignalDrafts(o.status) \o ArtifactDrafts(o.artifacts)
    [] o.kind = "artifact" ->
         (IF mapper.snapshot THEN <<>>
          ELSE StatusDrafts(o.task, Working))
           \o ArtifactDrafts(o.artifacts)
    [] o.kind = "message" -> MessageDrafts(o.messages)

(* ensureTask: a mapper is scoped to one Task.                             *)
SameTask(o) ==
  IF o.kind = "message" THEN TRUE ELSE mapper.task \in {None, o.task}

-----------------------------------------------------------------------------
(* coordinatorInteractionEvents. The observer queues the events of an      *)
(* observation; they are yielded before the coordinator's next fragment.   *)
Running == source.pc = "running"

Start ==
  LET f == Created(<<Draft("run.started", None, None)>>) IN
  /\ source.pc = "new"
  /\ source' = [source EXCEPT !.pc = "running", !.pending = f.events]
  /\ Number(f)
  /\ UNCHANGED <<mapper, finished, client, stored, last>>

(* What SDAR shows next: a Task that has ended does not change its status. *)
Follows(o) ==
  (o.kind = "status" /\ last # None /\ last.state \in Terminal)
  => o.status = last

Throws(pc) == source' = [source EXCEPT !.pc = pc, !.pending = <<>>]

Observe(o) ==
  LET f == Created(Drafts(o)) IN
  /\ Running /\ source.steps < MaxSteps /\ Follows(o)
  /\ \/ /\ SameTask(o)
        /\ Number(f)
        /\ source' = [source EXCEPT
             !.pending = @ \o f.events, !.steps = @ + 1,
             !.latest = IF o.kind = "status" THEN o.status.state ELSE @]
        /\ mapper' = IF o.kind = "message" THEN mapper
                     ELSE [task |-> o.task, snapshot |-> TRUE]
        /\ last' = IF o.kind = "status" THEN o.status ELSE last
     \/ ~SameTask(o) /\ Throws("failed") /\ UNCHANGED <<factory, mapper, last>>
  /\ UNCHANGED <<finished, client, stored>>

(* A fragment that no observation accounts for is kept for the end.        *)
LocalFragment ==
  /\ Running /\ source.steps < MaxSteps /\ source.pending = <<>>
  /\ source' = [source EXCEPT !.fallback = @ + 1, !.steps = @ + 1]
  /\ UNCHANGED <<factory, mapper, finished, client, stored, last>>

EndDrafts ==
  [i \in 1..source.fallback |-> Draft("message.text", None, None)] \o
  CASE source.latest = "INPUT_REQUIRED" -> <<>>
    [] source.latest = None -> <<Draft("run.finished", None, None)>>
    [] OTHER -> <<Draft("observation.ended", None, source.latest)>>

End ==
  LET f == Created(EndDrafts) IN
  /\ Running /\ source.pending = <<>>
  /\ Number(f)
  /\ source' = [source EXCEPT !.pc = "ending", !.pending = f.events]
  /\ UNCHANGED <<mapper, finished, client, stored, last>>

-----------------------------------------------------------------------------
(* The route, through AgUiEventProjection: one event is projected and sent *)
(* unless the projection has finished. An input.required that cannot be    *)
(* made durable throws instead (persistInterruptsBeforeRunFinish).         *)
Shown_All == TRUE  \* fault: the projection does not stop at its end

Shown == ~finished

Apply(view, e) ==
  [view EXCEPT
     !.sent = Append(@, e),
     !.status = IF e.type \in {"task.snapshot", "task.status_changed"}
                THEN e.body ELSE @,
     !.actions = CASE e.type = "task.snapshot" -> {}
                   [] e.type = "allowed_actions.changed" -> e.body
                   [] OTHER -> @]

Send ==
  LET e == Head(source.pending) IN
  /\ source.pc \in {"running", "ending", "failing"}
  /\ source.pending # <<>> /\ ~client.aborted
  /\ \/ /\ client' = IF Shown THEN Apply(client, e) ELSE client
        /\ finished' = (finished \/ e.type \in TerminalEvent)
        /\ source' = [source EXCEPT !.pending = Tail(@)]
     \/ /\ e.type = "input.required" /\ source.pc = "running"
        /\ Throws("failed") /\ UNCHANGED <<client, finished>>
  /\ UNCHANGED <<factory, mapper, stored, last>>

(* SDAR or a statement fails while the run is executed.                    *)
Fail ==
  /\ source.pc \in {"running", "ending"} /\ Throws("failed")
  /\ UNCHANGED <<factory, mapper, finished, client, stored, last>>

(* The run's catch block: a new factory goes on after the last sequence    *)
(* number that was yielded.                                                *)
Resumed ==
  IF client.sent = <<>> THEN 0 ELSE client.sent[Len(client.sent)].sequence + 1

Recover ==
  LET Event(type, n) == [type |-> type, body |-> None, sequence |-> n] IN
  /\ source.pc = "failed" /\ ~client.aborted
  /\ source' = [source EXCEPT
       !.pc = "failing",
       !.pending = IF client.sent = <<>>
                   THEN <<Event("run.started", 0), Event("run.error", 1)>>
                   ELSE <<Event("run.error", Resumed)>>]
  /\ UNCHANGED <<factory, mapper, finished, client, stored, last>>

(* The generator returns; or finishing the run throws after everything was *)
(* sent, which the route answers with a RUN_ERROR of its own.              *)
Sent(types) == \E i \in DOMAIN client.sent : client.sent[i].type \in types

Texts == {client.sent[i].body :
            i \in {j \in DOMAIN client.sent : client.sent[j].type \in TextEvent}}

Truncated_IfAborted(failed) ==  \* fault: a failure does not count
  client.aborted

Truncated(failed) ==
  \/ client.aborted \/ failed
  \/ Sent({"run.error"}) \/ ~Sent(TerminalEvent)

Store(failed) ==
  stored' = IF Texts = {} THEN None
            ELSE [texts |-> Texts, truncated |-> Truncated(failed)]

Return ==
  /\ source.pc \in {"ending", "failing"} /\ source.pending = <<>>
  /\ ~client.aborted
  /\ source' = [source EXCEPT !.pc = "done"]
  /\ \/ Store(FALSE) /\ UNCHANGED client
     \/ /\ Store(TRUE)
        /\ client' = Apply(client, [type |-> "run.error", body |-> None,
                                    sequence |-> None])
  /\ UNCHANGED <<factory, mapper, finished, last>>

Disconnect ==
  /\ source.pc # "done" /\ ~client.aborted
  /\ client' = [client EXCEPT !.aborted = TRUE]
  /\ UNCHANGED <<factory, mapper, source, finished, stored, last>>

Close ==  \* the route sees the abort, and only stores
  /\ client.aborted /\ source.pc # "done"
  /\ source' = [source EXCEPT !.pc = "done"]
  /\ Store(FALSE)
  /\ UNCHANGED <<factory, mapper, finished, client, last>>

Next ==
  \/ Start \/ LocalFragment \/ End \/ Send \/ Fail \/ Recover \/ Return
  \/ Disconnect \/ Close
  \/ \E o \in Observation : Observe(o)

Spec == Init /\ [][Next]_vars

-----------------------------------------------------------------------------
TypeOK ==
  /\ factory.sequence \in Nat
  /\ mapper \in [task : Task \cup {None}, snapshot : BOOLEAN]
  /\ mapper.snapshot <=> mapper.task # None
  /\ source.pc \in {"new", "running", "ending", "failed", "failing", "done"}
  /\ source.steps \in 0..MaxSteps /\ source.fallback \in 0..MaxSteps
  /\ source.pc \in {"new", "failed"} => source.pending = <<>>
  /\ (finished = Sent(TerminalEvent) \/ source.pc = "done")
  /\ last \in Status \cup {None}
  /\ client.status \in Status \cup {None, Working}

(* Whatever the stream, the polls and the recovery repeat, a client is     *)
(* shown each message and each artifact of the agent once.                 *)
ShownOnce ==
  \A i, j \in DOMAIN client.sent :
    /\ client.sent[i].type \in TextEvent
    /\ client.sent[j].type = client.sent[i].type
    /\ client.sent[i].body = client.sent[j].body
    /\ client.sent[i].body # None
    => i = j

(* Between two fragments the client's view is the Task's: the status last  *)
(* observed, unless it is one that was announced before (without a new     *)
(* timestamp it is taken for a repetition), and the actions that belong to *)
(* the status it is shown.                                                 *)
Announced(s) ==
  \E i \in DOMAIN client.sent :
    client.sent[i].type = "task.status_changed" /\ client.sent[i].body = s

ViewIsCurrent ==
  (source.pc = "running" /\ source.pending = <<>> /\ ~finished
     /\ ~client.aborted /\ last # None)
  => /\ client.status = last \/ Announced(last)
     /\ client.actions = AllowedActions(client.status)

(* No content follows the event that ends the run; only the error of a run *)
(* that could not be stored does.                                          *)
NothingAfterTheEnd ==
  \A i, j \in DOMAIN client.sent :
    (i < j /\ client.sent[i].type \in TerminalEvent)
    => /\ client.sent[j].type = "run.error"
       /\ j = Len(client.sent)

(* The text stored as the assistant's answer is the text that was sent,    *)
(* and it is marked complete only if the client saw the run end well.      *)
StoredIsHonest ==
  stored # None =>
    /\ stored.texts = Texts
    /\ ~stored.truncated =>
         /\ ~client.aborted /\ ~Sent({"run.error"})
         /\ Sent({"input.required", "observation.ended", "run.finished"})
=============================================================================
