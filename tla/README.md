# A TLA+ verification of single-agent-chat-server

Single Agent Chat Server (SACS) is a gateway between chat clients (OpenAI-compatible
HTTP and AG-UI) and exactly one SDAR agent, which it drives over A2A. Everything it must
remember is in PostgreSQL. This directory holds a model of its core logic in TLA+, the TLC
configurations that check it on small instances, and TLAPS proofs of what matters most.
Paths below are relative to the repository.

## 1. Inventory

### Components, their state and operations

| component | state | operations | talks to |
|---|---|---|---|
| request ledger (`packages/persistence/src/interaction-repository.ts`) | `interaction_request`: status, hash, lease, result | `claimRequest`, `completeRequest`, `completeCoordinatorRequest`, `abandonCoordinatorRequest`, `findRequestResult`, startup reconciliation | called by every handler with an effect |
| Task coordinator (`packages/chat-runtime/src/task-coordinator.ts`) | none of its own; per turn: lease owner, binding, signals | `submit`, `followUp`, `cancel`, `statusForTask`, `listTaskStatuses`, polling | ledger, leases, binding, SDAR |
| chat submission lease, Task interaction lease | columns of `conversation_thread` and `conversation_task_binding` | claim (with the active-Task limit), release, expire, reconcile | coordinator |
| Task binding and event cache | `conversation_task_binding`, `a2a_event_cache` | `createTaskBinding`, `recordEvent`, `updateTaskBinding` (optimistic version, three attempts) | coordinator, directory |
| durable AG-UI runs (`packages/interaction-runtime/src/durable-agui-run.ts`) | `interaction_run` | run, recover, finish; an outer claim around the coordinator's | ledger, coordinator, interrupts |
| interrupts (`interrupt-resume.ts`) | `agui_interrupt_binding` | persist, resolve, complete, cancel, expire | runs, SDAR |
| world grounding runtime, WSGS adapter, request planner, authority fusion | `grounding_execution` with a trigger that guards it, fusion records | claim, ask WSGS, record, end, revalidate, fuse | ledger, world focus, WSGS |
| conversation world focus | focus rows, pending choices | propose, choose, revalidate | grounding runtime |
| conversation history and summaries | `conversation_message`, `conversation_summary` | append with a thread-owned sequence, import, summarise under a version | application service |
| Task directory, classification graph, decision routing | none (pure over rows) | order, resolve a reference, route a decision | application service |
| AG-UI projection, A2A mapper, OpenAI adapter | per-response state | map observations to events; the event grammar | HTTP routes |
| SDAR adapter, lazy client | one cached client promise | submit stream, follow-up, get, cancel; normalisation | SDAR |
| server: bootstrap, shutdown, rate limiter, auth, telemetry | process state | start, reconcile, drain, limit | everything |

### What is hard here

* **Interleaving.** A handler awaits between any two statements, so turns for the same
  message, the same Task or the same chat interleave at every database and SDAR call.
* **Leases.** Requests, the chat's submissions and each Task's mutations are guarded by
  leases that run out on the database clock: a slow owner and its successor coexist.
* **Crashes and partial failure.** A turn can throw (its `finally` runs), be aborted by its
  client, or be lost with its process (nothing runs). Startup reconciliation sees the rest.
* **Late and duplicated observations.** The state of one Task reaches one row through
  streams, polls, status requests and replays, in any order, with or without timestamps.
* **Retries.** Clients send a message id again after anything; SDAR recognises it. The model
  decides anew each time, so a retry may ask for something else and write another text.
* **Several rows for one fact.** An AG-UI run has a run row, an outer and an inner request; a
  world turn an outer request, a grounding and the conversation's focus; an OpenAI turn a
  claim, a directory entry and a stored message. Each is written in a transaction of its own.
* **Bounded views.** The model is given a context cut to a budget, the client a stream that
  may break off; decisions are made, and texts stored, on what is left.

`PROJECT.json` lists each hazard at its line with the properties that would catch it.

## 2. Modules

| module | what it is |
|---|---|
| `RequestTable` | the table `interaction_request` and the statements on it, one operator per SQL statement |
| `IdempotentRequest` | the abstract contract of a request: decided once, everyone is told that decision |
| `RequestLedger` | concurrent turns around the table: claim, resolve, complete, abandon, give up, expire, restart; refines `IdempotentRequest` |
| `TaskBinding` | one binding row, its event cache, and the turns that observe the Task |
| `TaskCoordinator` | `submit`, `followUp`, `cancel` of one chat over `RequestTable`, both kinds of lease, bindings and SDAR |
| `Interrupts` | the interrupts of one Task: AG-UI runs that publish them, resumes that answer or cancel them |
| `DurableRun` | the attempts at one AG-UI run over `RequestTable`: run row, outer request, inner request |
| `EventProjection` | what an AG-UI client sees of a run and what is stored of it: event factory, A2A mapper, projection, route |
| `GroundingTable` | the table `grounding_execution` and the operations of its repository |
| `GroundingGuard` | what the database's trigger and CHECKs allow of that table, read from the migration |
| `WorldGrounding` | attempts at the world turns of a conversation over `RequestTable` and `GroundingTable`, with WSGS, world focus and choices; its groundings refine `GroundingGuard` |
| `ConversationLog` | messages and summary of a thread and the operations on them |
| `TaskDirectory` | the order of a thread's Tasks, focus, reference, and how selectors resolve |
| `ChatTurn` | OpenAI turns of one chat over `ConversationLog` and `TaskDirectory`, from the POST to the stored answer |
| `MC*` | instances for TLC: model values, Tasks' lives, symmetry, constraints |
| `*_proofs` | TLAPS proofs |

How they compose. `TaskCoordinator`, `DurableRun` and `WorldGrounding` instantiate
`RequestTable` with their own keys, contents and owners. `TaskBinding` refines the
coordinator's single step `RecordTerminal` and everything a turn shows. `DurableRun` sees the
coordinator through the inner request; `ChatTurn` sees it as `claim` and `made`, which keep of
the ledger that a message has at most one request and its holder. Two specifications are shown
to be implemented: `IdempotentRequest` by the ledger (`ImplementsContract`) and
`GroundingGuard` by the repository as the runtime uses it (`KeepsTheGuard`).

An operator called `X_Something` with a comment `fault:` is not part of any model. It is a
plausible mistake in `X` and shows, when put in its place, which property notices it.

### Correspondence with the code

**RequestTable.** A key stands for (protocol, external request id, principal, thread), a
content for the request hash. `lease_until > now()` is the Boolean `leased`; `ExpireClaim` is
the clock. `InsertClaim` is the `INSERT ... ON CONFLICT DO NOTHING` of `claimRequest`;
`Conflicts`, `Replays`, `InProgress` and `TakeOver` are its outcomes after the row was found
and locked. `CompleteClaim` requires the owner but not an unexpired lease, exactly like the
`WHERE` clause. `None` as an owner is an owner that is no turn. `WellFormed` is the CHECK
constraint of migration 0009 together with what the statements keep of the lease columns.

**RequestLedger.** A turn is one execution of any handler that claims a request. `ClaimNew`
and `ClaimExisting` + `ResolveClaim` split `claimRequest` where another transaction can get in
between (the insert and the lookup have different snapshots under READ COMMITTED, so the row
may be gone: the lookup then throws). `Fresh` is `randomUUID()`.

**TaskBinding.** SDAR publishes the states of `Lifeline` in order. An observation is a
published state in an envelope (`status` event, `artifact` event, `task` snapshot); its
identity is `observationHash`. `Observe` may be followed by arbitrary delay before
`RecordEvent`, `Update`, `Miss` and `Reread`, which are the statements of `recordEvent` and
`updateTaskBinding`. Versions are compared only for equality, so an observer's
`expectedVersion` is the Boolean `current`. `Applies` is the guard repeated in every CASE,
`Preserved` is `preserveCurrentTaskBinding`. A status event that ends the answer of a submission (`Boundary`) is
not told when its update returns: it is `held` until `Check`, a `getTask` whose snapshot goes to
the row like one that is owed. If the row refuses the snapshot, `submit` falls back to the held
event (`Telling`), whatever the row holds by then. `told` is what a turn yields of an observation,
`shown` counts what nobody was owed. So a question may be told although its Task has ended in
the meantime; `PublishedIsPersisted` says that this is the only status a turn tells that the row
does not hold. Stamps are positions in the lifeline: SDAR's clock is
assumed not to run backwards.

**TaskCoordinator.** The program counter of a turn follows the handler: `asking` (about to
claim), `claimed`, then for a submission `submitting` (the SDAR stream is open), `binding`,
`bound` (completion is due), `streaming`; for a mutation `mutating` (SDAR is being called);
`releasing` is the `finally` block. `Fail` is a throw, an abort or a closed generator at any
await; `Die` loses the turn without `finally`; `Restart` loses all turns and runs
`reconcileStartup`. SDAR answers a known message id with what it answered before
(docs/architecture/durable-run-recovery.md, "retry uses the same message ID; it cannot choose
a new Task identity"); that is the only assumption about SDAR. `claimRequest` is one step here,
the finer interleaving being `RequestLedger`'s. A binding created from a final state is
`ended`: refused to mutations by `isTerminalBinding`, but counted by the limit, because
`terminal_at` is still NULL. `Rest` erases the finished turn's random owner, so that a finite
set of turns stands for unboundedly many.

**Interrupts.** An interrupt's id is `<runId>:input-required`, so a run is the key of its row.
`Observe` is the run's `input_required` event, `FindOpen` and `Create` the two statements of
`persistInputRequired`, between which another run may insert; `Publish` is the event that
reaches the projection only after the row is stored. A resume goes `find` (row and binding),
`check` (`getTask`), `claim`, `send`, `complete`; a cancellation goes straight to
`cancelInterrupt`. `Acquires` is the guard of the claiming UPDATE, `ClaimOutcome` what is
answered otherwise. `FollowUp` is answered with the Task, with a message (either completes the
resolution, interrupt-resume.ts:291-311, whether or not SDAR acted) or with an error, or its answer
is lost. `replied` and `applied` record which it was, for the properties. `at` and `waiting` are the Task.

**DurableRun.** Two requests: `outer` (the run id) and `inner` (`<runId>:task`), both rows of
`RequestTable`. The program counter follows the branches of `run`: replay, recover, execute,
catch, finally, the aborted end, finish, complete. `Decided` is `findRequestResult`. A text
stands for the events of a run; `busy` is "already being submitted". What is asked of the
coordinator is decided anew by every attempt, so `ClaimInner` has a content of its own. All leases
have the same length (interaction-repository.ts:708), so of two that run the one drawn first ends
first (`younger`, `Oldest`), which for the requests of one attempt is the outer one. With `Stalls`
they end also under attempts that are at work.

**EventProjection.** Drafts become events unless their dedupe key is known (`Fresh`), events are
numbered (`Created`, in closed form: the n-th draft that is `Made` takes the n-th number), shown if the projection lets them pass (`Shown`), and applied to the client's view.
`source` is `coordinatorInteractionEvents`: its stream, its polls and its end; `Fail` and
`Recover` are the catch block and the recovery branch of the run that drives it, whose event
numbers continue (`Resumed`). `Close` is the route's `finally`, where the text is stored.

**GroundingTable, GroundingGuard, WorldGrounding.** `GroundingTable` has one operator per method
of `PostgresGroundingRepository` with the guards that its statements carry. `GroundingGuard` is
translated from migration 0010 alone: forward transitions, fields that are written once, fields
only a lease holder may write, and the shape of each state. A turn is `TurnKey`: a message and a
stage (ask, revalidate, validate and resume of a choice), each with its own idempotency key.
`Assembled` is the part of a request that depends on the focus, and stands for the request hash.
WSGS keeps one answer per key. `Overrun` is a poll that outlasts the leases of its attempt, the
outer one first, which was drawn first for the same 180 s; the attempt then still owns both rows.
The other awaits are single statements and calls and are taken to be shorter. `Operate` is a
worker on the operational part of the repository, which no caller in `src/` reaches yet.

**ConversationLog, TaskDirectory, ChatTurn.** The thread row is locked by every insert and save,
so these are single steps. `TaskDirectory.order` is `ORDER BY last_interacted_at DESC`. A turn of
`ChatTurn` reconciles the parent answer the client sends, ingests the message, loads summary,
messages and Tasks (`Load`, in the orders that `Promise.all` allows), and decides; `Directories`
are the cuts that the character budget may make of what was loaded, `Context` the pairs of a
summary and messages that it may give to the model. Then the coordinator's operation, focus, and
the stream, whose fragments may or may not reach the client. `shown`, `meant`, `sent`, `heard` and
`client` record what users and SDAR have seen, for the properties. `AssistantId` is the message id
that Open WebUI sends with the request (openai-routes.ts:256), taken to be one for each user
message. `Reconcile` is the parent answer of what importer.ts:43-80 compares or ingests.
`BeginRefresh` and `SaveRefresh` are `ConversationSummaryRefresher`, which is tested but which
nothing in `src/` constructs yet; without them no summary exists and `Context` only gets smaller.

## 3. What is checked

| run | instance | shows |
|---|---|---|
| `ledger_safety` | 2 keys, 2 contents, 3 turns, 2 results | answers agree with the row; no turn works for two rows; completed rows are final; the contract is implemented |
| `binding_mixed` | 2 observers, stamped WORKING and INPUT_REQUIRED, unstamped COMPLETED, one artifact, 4 recorded events | ended rows are frozen, stamps advance, no stamped update is lost, nothing is told twice, nothing is told that the row does not hold but a question it has passed over |
| `binding_live` | 2 observers, stamped WORKING, unstamped COMPLETED | a final state reaches the row |
| `coordinator` | all operations, 2 messages, 2 Tasks that may be bound before, 2 turns, limit 1, 1 crash | active limit; one sender per message, one mutator per Task; completed work is not sent again; leases are returned; replays find their binding |
| `coordinator_live` | 1 message, 2 turns, 2 crashes | a repeated message is decided |
| `interrupts` | 2 runs, 2 resumes, 2 questions of different phases, 4 answers and the cancellation | one follow-up per interrupt; nothing for a cancelled or expired one; what is reported as done SDAR has replied to; the row is what was published |
| `durable_run` | 2 attempts that may outlive their leases, 2 contents, 2 crashes | a finished run is final; its Task is bound; an undisturbed attempt ends on what is durable |
| `projection` | 2 Tasks, 5 statuses, 1 message, 1 artifact in two versions, 4 observations | contents are shown once; the view is current; nothing follows the end; what is stored is what was sent |
| `grounding` | 2 turns (one ambiguous, one that uses references), 2 attempts, 1 worker, 1 choice, 1 fault | an answer told is an answer stored; focus and choices have their origin; no result is applied twice; the database's guard is never hit |
| `chat` | 2 turns, 2 messages after 1 answered, 2 Tasks, the newest 3 messages loaded and room for 2, 2 posts | a complete answer is the stored one; a message that is completed, or whose submission SDAR has, is followed by no other operation; the messages in a context are the past without a gap; focus is only where SDAR has answered |

Bounds. Two turns (attempts, resumes, observers) are enough for every race between an owner and
its successor; the ledger has a third, so that a successor may itself be overtaken. Two keys (or
messages) are needed for a turn to work for the wrong row and for two submissions to compete;
two Tasks for the limit of 1 to be exceeded; two inputs for a run id to be reused; two runs for
an interrupt to be in another's way; two questions for an answer to be stale. Three lifeline
states give an observation that is late by one and by two.

* `MaxCrashes` (`MaxFaults` in `WorldGrounding`, where it also counts failed calls and overrun
  outer leases): one where two attempts already double the state, two where a crash during the
  recovery from a crash matters (`durable_run`, `coordinator_live`). In `grounding` one fault leaves
  out the late failure of an attempt that was overrun, which takes two; with `MaxFaults = 2` the
  instance also passes (3.2 million states, too long for a run), and the theorems have no bound.
* `MaxSteps` = 4 observations: enough for a status that is left and returned to, twice.
* `MaxChoices`, `MaxSends`, `MaxRefresh`: one choice, two posts, one summary refresh.
* No other counter is bounded: leases expire and clients retry for ever.

Constraints. `binding_mixed` (`SomeEvents`): one artifact, and four events of the Task are
recorded; the theorems of section 4 have no such bound. `grounding` (`Apart`): operational groundings, which share no key with turns, are looked
at before the first turn. `chat` (`Apart`): a behaviour has one of a Task that ends, a refresh
and a death. `coordinator` starts from `BoundSpec`, in which Tasks may have been bound by earlier
messages. Deadlock is not checked where the system may stop: interrupts are all answered, a run's
stream has ended, the posts or faults are used up. `Stalls = FALSE` in the coordinator runs: a
turn does not outlive its own leases. With `Stalls = TRUE` the limit and the one-sender
properties fail, by the stall that PROJECT.json lists as a hazard; types and
`CompletedTaskIsBound` are proved for both values. `durable_run` has `Stalls = TRUE`.

### Disagreements with the documentation

Two runs are expected to fail; each checks one sentence of the docs against what the code does.

* `grounding_beyond` (`BeyondIsReplayed`): a retried turn assembles its request from the present
  focus; when that has changed the hash differs, and the grounding that is READY is refused as a
  conflict instead of being replayed.
* `chat_sole` (`ActsOnWhatIsMeant`): the context budget is given to messages first and the list of
  active Tasks is cut to the rest; "the only active Task" is resolved on the cut list, so that a
  mutation is sent although several are active.

Further configurations reproduce disagreements of the same kind; `tlc -config X.cfg M` finds each
in seconds. They are not among the runs.

* `MCRequestLedger_restart` (`LeasedToSomeone`; docs/operations.md:11): startup reconciliation
  leases expired claims anew to an owner that never works on them.
* `MCTaskBinding_reordered` (`NewerWins`; docs/architecture/postgresql-persistence.md:60): an
  observation without a timestamp overwrites a newer one.
* `MCTaskBinding_owed` (`OwedStatusIsTold`; docs/architecture/durable-run-recovery.md:45): a final
  state recorded from a stream status event is never shown to a later status request or replay.
* `MCTaskCoordinator_busy` (`BusyMeansAtWork`; the text of task-coordinator.ts:165): `submit`
  keeps its claim when the submission lease is refused.
* `MCTaskCoordinator_retry` (`RetryIsReplayed`; docs/architecture/postgresql-persistence.md:53):
  the retry of a completed cancellation is turned away before its result is looked up.
* `MCInterrupts_stale` (`StaleFailsClosed`; docs/architecture/interrupt-resume.md:67): questions
  are compared by phase and input request, so an answer to one plan confirms the next one.
* `MCInterrupts_told` (`ToldIsApplied`; the same sentence): the Task moves on between the check of an
  answer and its follow-up, SDAR replies with a message and does nothing, and the interrupt is
  RESOLVED like one it acted upon.
* `MCDurableRun_busy` (`BusyIsNotFinal`; docs/architecture/durable-run-recovery.md:24, "expired owner
  can execute the original input"): the outer lease of a dead attempt ends before its inner one; a
  retry in between finds the inner request in progress and settles the run for good with "already
  being submitted".
* `MCDurableRun_overlap` (`AllTellTheSame`; the same file, line 27, "replay MESSAGE or query that
  Run's TASK"): an attempt that outlives its lease finishes a run with its own text after an aborted
  successor has stored another as the outer result, and a replay before has told that one.
* `MCChatTurn_later` (`NothingLater`): a message that is sent again may be answered with a summary of
  what came after it; assembler.ts:60-78 does not compare the two sequences, as line 48 does for
  messages.
* `MCChatTurn_stored` (`StoredIsSeen`; docs/adr/0003-real-conversation-context-multitask.md:43):
  the client may hold another text than the stored one, and its next message is then refused by
  `reconcileAssistantMessage`.
* `MCChatTurn_again` (`OneOperation`; docs/deployment/openwebui-connection.md:63): a mutation reaches
  SDAR and its turn fails; the retry takes the claim over, finds the Task's interaction slot held
  by another message and abandons the claim, which deletes the row and with it the hash that would
  refuse other content. The next retry is decided anew and may ask SDAR for something else. The
  proof of `OperationIsFinal` brought this up: what survives for every instance is that a
  completed message, or one whose submission SDAR has, stays what it is.
* `MCChatTurn_ordinal` (`ActsOnWhatIsMeant`; docs/architecture-v0.3.md:81, "stable ordinal"): an
  ordinal is resolved in an order that every interaction changes.

### Fairness

`TaskBinding`: the code of a turn runs on (WF), and a turn is not cut off at the same point
every time (SF on recording and updating); somebody keeps observing the Task, as the poll loop
and its users do (SF on reading the binding and observing). `TaskCoordinator`: turns run on and
leases run out (WF); a client repeats its message and SDAR does not fail every time at the same
point (SF per step of a message's submission). Restarts and deaths are never fair and bounded
by `MaxCrashes`. Where the code gives no such guarantee (SDAR is down for ever, nobody asks)
nothing is claimed. For interrupts, runs, groundings and chats no liveness is claimed: an
interrupt may stay RESOLVING for ever by design ("favors no duplicate side effect over an unsafe
retry"), and the others end only if a client comes back.

## 4. What is proved

All theorems hold for any number of keys, messages, Tasks and turns, and for every other value
of the constants that satisfies the assumptions named in the modules.

`RequestLedger_proofs`: the inductive invariant `IInv` adds to the checked invariants that a
turn with a request in hand names a real key and content (`Placed`) and that a turn which found
a row in its way owns no row (`Waiting`). `Waiting` is what makes `SoleLessee` inductive: the
row that is taken over is then the only one its new owner has. `CompletedIsFinal` follows from
`WellFormed`: a completed row has no lease owner, so no guarded update hits it. `Implements`
maps every step to a `Decide`, `Repeat` or `Forget` of the contract or to a stutter.
The assumption `None \notin [hash : Content, result : Result]` says that NULL is no decision.

`TaskBinding_proofs`: `TInv` adds to the types where a turn can be and what it then holds
(`Placement`): a turn that is about to write has an observation and a row to write to, and has
missed at most two attempts. `RowStep` says what one step may do to the row and gives
`TerminalIsFinal` and `StampsAdvance`; `TurnChanges` says what one step may do to a turn.
`NoLostUpdate` is not a fact about one step: its invariant (`Kept`) has to survive every later
write of the other turns, which it does because stamps advance and ended rows are frozen.
`OnlyPersistedIsPublished` needs `HeldBack`: a final status that is held back for its check is in
the row and stays there, and a check observes nothing earlier than what it checks; so only a question
can be told that the row does not hold, and only where the row refused the snapshot because it has
ended or carries a later stamp. `PublishedOnce` needs `Publisher`, which says of each
observation that at most one turn may still publish it and that none may once it was shown; the
insert into the event cache is what singles that turn out. Nothing is assumed about which states
carry a stamp.

`TaskCoordinator_proofs`: `TypeInv` adds to the types what a turn has in hand at each point of
its handler. `BoundInv` says that a turn relies only on a Task that is bound and, with it, gives
`CompletedTaskIsBound` without any assumption about leases. The other four theorems assume
`~Stalls` and rest on `Holds`: a turn past a claim still has the request, the chat's submission
lease or its Task's interaction lease, and while it holds the submission lease there is room for
one more Task. That last conjunct carries `ActiveLimit` from the time of the check to the time
of the binding; it is inductive because only the turn with the lease can add an active Task, and
the step from "fewer than the limit" to "at most the limit" is a fact about the cardinality of
finite sets (`OneMoreFits`, `FewerHaveRoom`). `HeldInv` is the converse of `Holds`: a lease that
a row carries belongs to a turn inside its `try` block or to a dead one, which gives
`LeasesAreReturned` with no assumption about leases.

`Interrupts_proofs`: a resume past its claim is the only one at work on the row (`SoleClaim`) and
the row carries its answer (`ClaimIsHeld`); whatever is in `sent` went out under such a claim
(`SentUnderClaim`). A row never comes back from RESOLVED or CANCELLED, so that what was told
of it stays true (`ToldByRow`, `ResolvedIsReplied`).

`DurableRun_proofs`: leases end by the clock, so nothing can rest on an attempt being alone. Everything
an attempt knows rests on what nobody takes back: the result of a completed inner request and the
outcome of a finished run. The invariant says that the run row names only the inner request's Task
(`RunHolds`), that an outer result that is a Task is the inner one's, and that what each attempt
carries at its point of the branch fits the two rows (`Fits`); one lemma per action shows that it
leaves these facts standing for all attempts (`Sound`). Exclusion by the outer request is neither
assumed nor claimed.

`WorldGrounding_proofs`: rows are written by statements that do not ask for the lease, so that a
late attempt still writes. But an attempt that owns its request while it waits for WSGS finds the
grounding pending in its name, or failed by a late one (`RowIsMine`), and what it is about to answer is what the row holds (`TextHolds`,
`ResultIsStored`); an attempt about to apply a result saw another one in the focus (`SawAnother`).
`GuardIsKept` is a refinement: every statement of every attempt and of the operational worker is
shown to be a transition that the trigger allows with the shape that the CHECKs demand
(`AllLegal`). The proof corrected the model: an overrun lease is one that the attempt still owns.

`ChatTurn_proofs`: `Shapes` says what a turn has in hand at each point; `LogInv` and `Reads` say
that the log only grows, so what was loaded is still the newest part of the past at some point
after the turn's message (`ReadsTheLog` concludes that the context has no gap). `Heard` says that a turn past SDAR's
answer, and every completed mutation, names a Task that SDAR has answered about: the replay path asks
SDAR nothing and rests on it. `Claims` ties the request
of a message to its holder and to what was sent. `Claims` is not inductive with one operation per
message (see `MCChatTurn_again`): a claim may be abandoned by a turn that inherited it.

`EventProjection_proofs`: everything is said of the line, which is what was sent followed by what
is pending; sending moves an event along it and changes nothing else. The factory's events are
the accepted drafts in their order (`CreatedFacts`: `Nth` enumerates a finite set of positions).
`Once` says that every text on the line has its key in the factory, under which no second one is
accepted. For the view, `KeysHold` says what a known key tells: a status was announced and its actions
were too, and the only actions announced while the Task goes on are those of a Task that is
at work, because a status that asks for input ends the run (`InputEnds`). So a suppressed
repetition changes neither the status that will be shown nor its actions (`ShowsNext`), and the
client shows the last of what it was sent (`LastOf`). The theorem rests on what the model says of
SDAR (`Follows`): a Task that has ended keeps its status. `EventProjectionAssumption` says that
NULL is no Task, no status and no dedupe key.
The proof corrected the model: `AllowedActions` was a CASE with guards that overlap, of which TLC takes the
first and TLA+ any; it is now a chain of IFs, as the code is, and so are two operators
of `DurableRun` and `WorldGrounding` with the same mistake.

Only model-checked: everything under "Fairness" (liveness and ENABLED are beyond the prover), and
the disagreements. `Interrupts`, `DurableRun`, `EventProjection` and `WorldGrounding` state a
`TypeOK` as the start of an inductive invariant (`Shapes` in `ChatTurn_proofs` does the same for
chats); no run spends time on it.

## 5. What is not modelled, and the plan

Not modelled for good: authentication, CORS, telemetry, logging, schema declarations, the model
client (stateless or external), the legacy OpenAI-only repository (unused in production),
authority fusion and the request planner (pure functions), the rate limiter (one synchronous
counter), normalization of A2A and WSGS payloads (conversions), migrations and shutdown (run once
and alone).

Left out of modelled parts: short-id allocation; `listTaskStatuses`; `compareHybrid`; selection by
short id or summary text, which select like a Task id; the legacy bridge; utility requests.
Simplified: SDAR's clock does not run backwards; focus references are one set that is usable or
not; the sizes of texts are a number of messages and of Tasks that fit.

Left of the plan, in this order:

1. `compareHybrid` beside `WorldGrounding`, short-id allocation beside `TaskDirectory`.
2. Liveness of groundings and runs under a client that keeps coming back.
