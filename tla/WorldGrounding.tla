--------------------------- MODULE WorldGrounding ---------------------------
(***************************************************************************)
(* WorldGroundingRuntime in one conversation: attempts at world turns.     *)
(* Each first continues an open choice, revalidates stale references where *)
(* the turn uses them, and then executes a grounding: it claims the outer  *)
(* request (wg-<hash>), claims the grounding row, asks WSGS, stores the    *)
(* result, updates the conversation's world focus, ends the grounding and  *)
(* completes the outer request, each a transaction of its own. Leases may  *)
(* end while WSGS is still being polled; attempts die between any steps.   *)
(***************************************************************************)
EXTENDS Naturals, Sequences

CONSTANTS
  Turn,        \* world turns: external request ids of the conversation
  Uses,        \* the turns whose plan uses known world references
  Attempt,     \* executions of a turn; each draws random lease owners
  Operation,   \* groundings of operational work, claimed by workers
  Worker,      \* callers of the repository's operational part
  Outcomes,    \* what WSGS may answer, by turn and stage
  Bare,        \* groundings whose result brings no usable product or candidate
  Empty,       \* a context capsule without references
  None,
  MaxChoices,  \* bound: choices created
  MaxFaults    \* bound: deaths, failed calls and overrun leases

Stage == {"revalidate", "ask", "validate", "resume"}
Outcome == {"COMPLETED", "AMBIGUOUS", "FAILED", "CANCELLED"}
Answers == {"COMPLETED"}  \* with PARTIAL: what answers the turn
TurnKey == Turn \X Stage
Text == Outcome \cup {"failed", "validated"}

ASSUME WorldGroundingAssumption ==
  /\ Uses \subseteq Turn /\ Bare \subseteq TurnKey
  /\ Outcomes \in [TurnKey -> SUBSET Outcome]
  /\ MaxChoices \in Nat /\ MaxFaults \in Nat
  /\ {None, Empty} \cap (Turn \cup Attempt \cup Worker \cup Operation) = {}
  /\ {None, Empty} \cap (TurnKey \cup Text \cup {"hash"}) = {}
  /\ Operation \cap TurnKey = {} /\ Attempt \cap Worker = {}

VARIABLES
  requests,    \* interaction_request: the outer requests
  groundings,  \* grounding_execution
  wsgs,        \* what WSGS holds under each idempotency key
  focus,       \* conversation_world_focus and its references
  choices,     \* pending_grounding_choice, in order of creation
  attempt,     \* the attempts
  faults       \* deaths, failed calls and overrun leases so far

vars == <<requests, groundings, wsgs, focus, choices, attempt, faults>>

INSTANCE RequestTable WITH
  Key <- TurnKey, Content <- {"hash"}, Owner <- Attempt, Result <- Text

G == INSTANCE GroundingTable WITH
  Key <- TurnKey \cup Operation, Holder <- Attempt \cup Worker,
  Context <- TurnKey \cup {Empty}

Guard == INSTANCE GroundingGuard WITH
  Key <- TurnKey \cup Operation,
  rows <- [k \in TurnKey \cup Operation |->
             [state |-> groundings[k].state, context |-> groundings[k].context,
              result |-> groundings[k].result, task |-> groundings[k].task,
              reserved |-> groundings[k].reserved,
              leased |-> groundings[k].leased]]

Focus == [revision : Nat, last : TurnKey \cup {None},
          source : TurnKey \cup {None},  \* the result its references are of
          fresh : BOOLEAN]               \* usable without revalidation

Choice == [origin : TurnKey, status : {"OPEN", "SELECTED"}, expired : BOOLEAN]

AttemptState ==
  [pc : {"idle", "select", "refocus", "context", "outer", "claim", "post",
         "record", "settle", "focus", "apply", "complete",
         "caught", "finish", "busy", "thrown"},
   key : TurnKey \cup {None}, choice : Nat,
   context : TurnKey \cup {Empty, None},
   found : {"none", "pending", "beyond", "completed"},  \* by the claim
   result : Outcome \cup {None}, text : Text \cup {None}, seen : Nat]

IdleAttempt == [pc |-> "idle", key |-> None, choice |-> 0, context |-> None,
                found |-> "none", result |-> None, text |-> None, seen |-> 0]

Init ==
  /\ requests = [k \in TurnKey |-> NoRequest]
  /\ groundings = [k \in TurnKey \cup Operation |-> G!NoGrounding]
  /\ wsgs = [k \in TurnKey |-> None]
  /\ focus = [revision |-> 0, last |-> None, source |-> None, fresh |-> FALSE]
  /\ choices = <<>>
  /\ attempt = [a \in Attempt |-> IdleAttempt]
  /\ faults = 0

Fault == faults < MaxFaults /\ faults' = faults + 1

KeyOf(a) == attempt[a].key
Go(a, pc) == attempt' = [attempt EXCEPT ![a].pc = pc]
Throw(a) == Go(a, "thrown")
Start(a, k, pc) ==  \* executeReadOnlyGrounding is entered with key k
  attempt' = [attempt EXCEPT ![a] = [IdleAttempt EXCEPT !.pc = pc, !.key = k]]

(* It returns: a validated reference lets the turn go on. An attempt that  *)
(* leaves no lease behind is idle again at once.                           *)
Quit(a) == attempt' = [attempt EXCEPT ![a] = IdleAttempt]

Return(a, result) ==
  LET t == KeyOf(a)[1] s == KeyOf(a)[2] IN
  IF result = "COMPLETED" /\ s \in {"validate", "revalidate"}
  THEN Start(a, <<t, IF s = "validate" THEN "resume" ELSE "ask">>, "context")
  ELSE Quit(a)

-----------------------------------------------------------------------------
(* continuePendingChoice: getOpenChoice and the resolver, then selectChoice *)
(* and the stages validate and resume of the choice's origin. A text that  *)
(* does not decide the choice is asked back and changes nothing.           *)
Answerable(i) == choices[i].status = "OPEN" /\ ~choices[i].expired

Begin(a, t) ==
  LET open == {i \in 1..Len(choices) : Answerable(i)} IN
  /\ attempt[a].pc = "idle"
  /\ \/ \E i \in open :
          \/ attempt' = [attempt EXCEPT ![a].pc = "select", ![a].choice = i]
     \/ /\ open = {}
        /\ Start(a, <<t, "ask">>, IF t \in Uses THEN "refocus" ELSE "context")
  /\ UNCHANGED <<requests, groundings, wsgs, focus, choices, faults>>

SelectChoice(i) ==
  /\ Answerable(i)
  /\ choices' = [choices EXCEPT ![i].status = "SELECTED"]

Select(a) ==
  LET i == attempt[a].choice IN
  /\ attempt[a].pc = "select"
  /\ \/ /\ SelectChoice(i)
        /\ IF groundings[choices[i].origin].result = None
           THEN Quit(a)  \* the source is unavailable
           ELSE Start(a, <<choices[i].origin[1], "validate">>, "context")
     \/ ~Answerable(i) /\ Throw(a) /\ UNCHANGED choices
  /\ UNCHANGED <<requests, groundings, wsgs, focus, faults>>

(* listUsableReferences, and listReferencesRequiringValidation.            *)
Usable == focus.fresh
Stale == ~focus.fresh /\ focus.source # None

(* revalidateWorldFocus.                                                   *)
Refocus(a) ==
  /\ attempt[a].pc = "refocus"
  /\ IF Stale THEN Start(a, <<KeyOf(a)[1], "revalidate">>, "context")
              ELSE Go(a, "context")
  /\ UNCHANGED <<requests, groundings, wsgs, focus, choices, faults>>

(* assembleContext, and the assemblies of the other stages, which add the  *)
(* reference in question and so never fail.                                *)
Assembled(k) ==
  IF k[2] = "ask" /\ k[1] \notin Uses THEN Empty
  ELSE IF k[2] = "revalidate" \/ Usable THEN focus.source
  ELSE Empty

Context(a) ==
  LET k == KeyOf(a) IN
  /\ attempt[a].pc = "context"
  /\ IF k[2] = "ask" /\ k[1] \in Uses /\ ~Usable
     THEN Quit(a)  \* context unavailable
     ELSE attempt' = [attempt EXCEPT ![a].pc = "outer",
                                     ![a].context = Assembled(k)]
  /\ UNCHANGED <<requests, groundings, wsgs, focus, choices, faults>>

-----------------------------------------------------------------------------
ClaimOuter(a) ==
  LET k == KeyOf(a) IN
  /\ attempt[a].pc = "outer"
  /\ \/ /\ InsertClaim(k, "hash", a) \/ TakeOver(k, "hash", a)
        /\ Go(a, "claim")
     \/ InProgress(k, "hash") /\ Return(a, None) /\ UNCHANGED requests
     \/ /\ Replays(k, "hash") /\ UNCHANGED requests
        /\ Return(a, groundings[k].result)
  /\ UNCHANGED <<groundings, wsgs, focus, choices, faults>>

FoundBeyond(a, row) ==
  [attempt EXCEPT
     ![a].pc = IF row.result = None THEN "finish" ELSE "focus",
     ![a].found = IF row.state = "COMPLETED" THEN "completed" ELSE "beyond",
     ![a].result = row.result,
     ![a].text = IF row.result = None THEN "failed" ELSE None]

ClaimGrounding(a) ==
  LET k == KeyOf(a) c == attempt[a].context IN
  /\ attempt[a].pc = "claim"
  /\ \/ /\ G!Created(k, c, a) \/ G!Acquired(k, c, a)
        /\ attempt' = [attempt EXCEPT ![a].pc = "post",
                                      ![a].found = "pending"]
     \/ G!Busy(k, c, a) /\ Go(a, "busy") /\ UNCHANGED groundings
     \/ G!HashConflicts(k, c) /\ Throw(a) /\ UNCHANGED groundings
     \/ /\ G!Replayed(k, c) /\ UNCHANGED groundings
        /\ attempt' = FoundBeyond(a, groundings[k])
  /\ UNCHANGED <<requests, wsgs, focus, choices, faults>>

(* createGrounding and the polls: WSGS keeps one result per idempotency    *)
(* key. Every failure of a call looks the same: of the transport, of the   *)
(* contract, or of a job that outlasts the polls; WSGS may have a result.  *)
Answered(k, r) == wsgs[k] \in {None, r} /\ wsgs' = [wsgs EXCEPT ![k] = r]

CallFails(a) == Fault /\ Go(a, "caught")

Post(a) ==
  LET k == KeyOf(a) IN
  /\ attempt[a].pc = "post"
  /\ \/ \E r \in Outcomes[k] :
          /\ Answered(k, r)
          /\ \/ attempt' = [attempt EXCEPT ![a].pc = "record", ![a].result = r]
                /\ UNCHANGED faults
             \/ CallFails(a)
     \/ CallFails(a) /\ UNCHANGED wsgs
  /\ UNCHANGED <<requests, groundings, focus, choices>>

Record(a) ==
  LET k == KeyOf(a) r == attempt[a].result IN
  /\ attempt[a].pc = "record"
  /\ \/ G!RecordReady(k, r, a) /\ Go(a, "settle")
     \/ ~G!CanRecordReady(k, r, a) /\ Throw(a) /\ UNCHANGED groundings
  /\ UNCHANGED <<requests, wsgs, focus, choices, faults>>

(* A cancelled result cancels the grounding, another that is no answer     *)
(* fails it; a conflict is rethrown.                                       *)
Settle(a) ==
  LET k == KeyOf(a)
      r == attempt[a].result
      end == IF r = "CANCELLED" THEN "CANCELLED" ELSE "FAILED" IN
  /\ attempt[a].pc = "settle"
  /\ \/ r \in Answers /\ Go(a, "focus") /\ UNCHANGED groundings
     \/ r \notin Answers /\ G!End(k, end) /\ Go(a, "focus")
     \/ r \notin Answers /\ ~G!CanEnd(k, end) /\ Throw(a)
        /\ UNCHANGED groundings
  /\ UNCHANGED <<requests, wsgs, focus, choices, faults>>

-----------------------------------------------------------------------------
(* renderResult, which the turn does at once: an answer still completes    *)
(* the grounding, unless the claim found it complete.                      *)
Owed_Own(a) ==  \* fault: what the claim found READY is not completed
  attempt[a].result \in Answers /\ attempt[a].found = "pending"

Owed(a) == attempt[a].result \in Answers /\ attempt[a].found # "completed"

Render(a) ==
  attempt' = [attempt EXCEPT
    ![a].text = IF KeyOf(a)[2] \in {"validate", "revalidate"}
                THEN "validated" ELSE attempt[a].result,
    ![a].pc = IF Owed(a) THEN "complete" ELSE "finish"]

(* WorldFocusUpdater.apply: the focus is read, and then a choice created,  *)
(* or the references applied at the revision that was read.                *)
AlreadyApplied(k) == focus.last = k

(* Index pending_grounding_choice_one_open, which counts an expired choice *)
(* too: nothing ever closes one (closeChoice has no caller).               *)
NoneOpen == \A i \in 1..Len(choices) : choices[i].status # "OPEN"

CreateChoice(a) ==
  \/ /\ NoneOpen /\ Len(choices) < MaxChoices
     /\ choices' = Append(choices, [origin |-> KeyOf(a), status |-> "OPEN",
                                    expired |-> FALSE])
     /\ Render(a)
  \/ ~NoneOpen /\ Throw(a) /\ UNCHANGED choices

Applies_Any(r) == r # "AMBIGUOUS"  \* fault: no look at the status

Applies(r) == r \in Answers

UpdateFocus(a) ==
  LET k == KeyOf(a) r == attempt[a].result IN
  /\ attempt[a].pc = "focus"
  /\ \/ AlreadyApplied(k) /\ Render(a) /\ UNCHANGED choices
     \/ ~AlreadyApplied(k) /\ k \notin Bare /\ r = "AMBIGUOUS" /\ CreateChoice(a)
     \/ /\ ~AlreadyApplied(k)
        /\ k \in Bare \/ (r # "AMBIGUOUS" /\ ~Applies(r))
        /\ Render(a) /\ UNCHANGED choices
     \/ /\ ~AlreadyApplied(k) /\ k \notin Bare /\ Applies(r) /\ UNCHANGED choices
        /\ attempt' = [attempt EXCEPT ![a].pc = "apply",
                                      ![a].seen = focus.revision]
  /\ UNCHANGED <<requests, groundings, wsgs, focus, faults>>

(* applyReferences; a product that itself asks for revalidation is one     *)
(* that ages at once.                                                      *)
AtRevision_Any(a) == TRUE  \* fault: expectedRevision is not compared

AtRevision(a) == focus.revision = attempt[a].seen

ApplyReferences(a) ==
  LET k == KeyOf(a) IN
  /\ attempt[a].pc = "apply"
  /\ \/ /\ AtRevision(a)
        /\ focus' = [revision |-> focus.revision + 1, last |-> k,
                     source |-> k, fresh |-> TRUE]
        /\ Render(a)
     \/ /\ ~AtRevision(a) /\ UNCHANGED focus
        /\ IF AlreadyApplied(k) THEN Render(a) ELSE Throw(a)
  /\ UNCHANGED <<requests, groundings, wsgs, choices, faults>>

-----------------------------------------------------------------------------
CompleteGrounding(a) ==
  LET k == KeyOf(a) IN
  /\ attempt[a].pc = "complete"
  /\ \/ G!End(k, "COMPLETED") /\ Go(a, "finish")
     \/ ~G!CanEnd(k, "COMPLETED") /\ Throw(a) /\ UNCHANGED groundings
  /\ UNCHANGED <<requests, wsgs, focus, choices, faults>>

(* The catch block: fail, whose own conflict is swallowed.                 *)
Caught(a) ==
  LET k == KeyOf(a) IN
  /\ attempt[a].pc = "caught"
  /\ \/ G!End(k, "FAILED")
     \/ ~G!CanEnd(k, "FAILED") /\ UNCHANGED groundings
  /\ attempt' = [attempt EXCEPT ![a].pc = "finish", ![a].text = "failed"]
  /\ UNCHANGED <<requests, wsgs, focus, choices, faults>>

(* completeOuterRequest, which throws when the claim was taken over.       *)
Finish(a) ==
  LET k == KeyOf(a) IN
  /\ attempt[a].pc = "finish"
  /\ \/ /\ CompleteClaim(k, "hash", a, attempt[a].text)
        /\ Return(a, attempt[a].result)
     \/ ~OwnsClaim(k, "hash", a) /\ Throw(a) /\ UNCHANGED requests
  /\ UNCHANGED <<groundings, wsgs, focus, choices, faults>>

-----------------------------------------------------------------------------
(* An attempt that is over leaves its leases to an owner that is no        *)
(* attempt: the next one draws another random owner.                       *)
Over(a) ==
  /\ attempt' = [attempt EXCEPT ![a] = IdleAttempt]
  /\ requests' = [k \in TurnKey |->
                    IF requests[k].owner = a
                    THEN [requests[k] EXCEPT !.owner = None] ELSE requests[k]]
  /\ groundings' = [k \in TurnKey \cup Operation |->
                      IF groundings[k].holder = a
                      THEN [groundings[k] EXCEPT !.holder = None]
                      ELSE groundings[k]]
  /\ UNCHANGED <<wsgs, focus, choices>>

Crash(a) ==
  /\ attempt[a].pc \notin {"idle", "busy", "thrown"}
  /\ Fault /\ Over(a)

Rest(a) ==
  /\ attempt[a].pc \in {"busy", "thrown"}
  /\ Over(a) /\ UNCHANGED faults

(* Leases run out: of an attempt that is over, or of one that still waits, *)
(* for the polls may last longer than their 180 seconds; the outer request *)
(* is claimed first and its lease ends first. The other awaits are of      *)
(* single statements and calls, and are taken to be shorter.               *)
Lapse(k) ==
  /\ \/ requests[k].owner = None /\ ExpireClaim(k) /\ UNCHANGED groundings
     \/ groundings[k].holder = None /\ G!Lapse(k) /\ UNCHANGED requests
  /\ UNCHANGED <<wsgs, focus, choices, attempt, faults>>

Overrun(a) ==
  LET k == KeyOf(a)
      held == requests[k].owner = a /\ requests[k].leased IN
  /\ attempt[a].pc = "post"
  /\ \/ held /\ Fault /\ ExpireClaim(k) /\ UNCHANGED groundings
     \/ /\ ~held /\ groundings[k].holder = a
        /\ G!Lapse(k) /\ UNCHANGED <<requests, faults>>
  /\ UNCHANGED <<wsgs, focus, choices, attempt>>

ChoiceExpires(i) ==
  /\ Answerable(i)
  /\ choices' = [choices EXCEPT ![i].expired = TRUE]
  /\ UNCHANGED <<requests, groundings, wsgs, focus, attempt, faults>>

FocusAges ==
  /\ focus.fresh
  /\ focus' = [focus EXCEPT !.fresh = FALSE]
  /\ UNCHANGED <<requests, groundings, wsgs, choices, attempt, faults>>

-----------------------------------------------------------------------------
(* The repository's operational part, which no caller in src/ reaches yet  *)
(* (submitOperational fails closed): workers that use it as it allows.     *)
Operate(w, k) ==
  /\ \/ G!Created(k, Empty, w) \/ G!Acquired(k, Empty, w)
     \/ G!RecordReady(k, "COMPLETED", w) \/ G!Reserve(k, w)
     \/ G!RecordSubmitted(k, w) \/ G!Recover(k, w) \/ G!Release(k, w)
     \/ \E s \in G!Terminal : G!End(k, s)
     \/ G!Lapse(k)
  /\ UNCHANGED <<requests, wsgs, focus, choices, attempt, faults>>

Step(a) ==
  \/ Select(a) \/ Refocus(a) \/ Context(a) \/ ClaimOuter(a)
  \/ ClaimGrounding(a) \/ Post(a) \/ Record(a) \/ Settle(a)
  \/ UpdateFocus(a) \/ ApplyReferences(a)
  \/ CompleteGrounding(a) \/ Caught(a) \/ Finish(a)

Next ==
  \/ \E a \in Attempt : \/ \E t \in Turn : Begin(a, t)
                        \/ Step(a) \/ Crash(a) \/ Overrun(a) \/ Rest(a)
  \/ \E k \in TurnKey : Lapse(k)
  \/ \E i \in 1..Len(choices) : ChoiceExpires(i)
  \/ FocusAges
  \/ \E w \in Worker, k \in Operation : Operate(w, k)

Spec == Init /\ [][Next]_vars

-----------------------------------------------------------------------------
TypeOK ==
  /\ requests \in [TurnKey -> Request]
  /\ groundings \in [TurnKey \cup Operation -> G!Grounding]
  /\ wsgs \in [TurnKey -> Outcome \cup {None}]
  /\ focus \in Focus /\ choices \in Seq(Choice)
  /\ attempt \in [Attempt -> AttemptState]
  /\ faults \in 0..MaxFaults

(* No statement of the repository, in any order the runtime and the        *)
(* workers issue them, is one that the database would refuse.              *)
KeepsTheGuard == Guard!Spec

(* What a turn's outer request stores is what its grounding row holds: an  *)
(* answer is of a COMPLETED grounding, another outcome of its result, and  *)
(* a failure of one that ended without an answer.                          *)
AnswerIsDurable ==
  \A k \in TurnKey :
    LET text == requests[k].result row == groundings[k] IN
    /\ text \in Answers => row.state = "COMPLETED" /\ row.result = text
    /\ text \in Outcome => row.result = text
    /\ text = "failed" => row.state \in {"FAILED", "CANCELLED"}

(* The focus and the choices of a conversation rest on stored results, so  *)
(* that a restart finds the origin of each.                                *)
FocusHasOrigin ==
  /\ focus.last # None => groundings[focus.last].result \in Answers
  /\ \A i \in 1..Len(choices) :
       groundings[choices[i].origin].result = "AMBIGUOUS"

(* A late or replayed result is never written over itself: two attempts at *)
(* one grounding advance the focus once while no other result comes in.    *)
NotAppliedTwice ==
  [][focus'.revision # focus.revision => focus'.last # focus.last]_vars

(* execplans/EP-04: what is already beyond GROUNDING_PENDING is replayed.  *)
BeyondIsReplayed ==
  \A a \in Attempt :
    attempt[a].pc = "thrown" /\ attempt[a].context # None
      /\ attempt[a].found = "none"
      => ~G!BeyondPending(KeyOf(a))
=============================================================================
