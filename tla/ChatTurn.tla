------------------------------ MODULE ChatTurn ------------------------------
(***************************************************************************)
(* Turns of one Open WebUI chat, from the POST of a user message to the    *)
(* [DONE] of its response: import of the client's history, assembly of the *)
(* context, the model's decision, the operation on a Task, the stream of   *)
(* the answer and its storage.                                             *)
(*                                                                         *)
(* A client posts a message again when it likes, and each turn of the      *)
(* message asks the model anew, which may decide otherwise and write       *)
(* another text. The user message id is the idempotency key of the         *)
(* operation; the row of interaction_request and the leases are those of   *)
(* TaskCoordinator and appear here as `claim`. World routes are those of   *)
(* WorldGrounding and are left out.                                        *)
(***************************************************************************)
EXTENDS Naturals, Sequences, FiniteSets

CONSTANTS
  Turn,       \* handler executions
  Messages,   \* how many messages the user sends, one after the other
  Task,
  Mutation,   \* subset of {"followUp", "cancel"}
  Ordinal,    \* the ordinals users name Tasks by
  Text,       \* texts of answers
  None,
  Bound0,     \* the Tasks bound when the turns begin, latest first
  Answered,   \* how many messages have had an answer by then
  Window,     \* CONVERSATION_MAX_RECENT_MESSAGES
  Budget,     \* how many of the messages fit into a context at most,
  Rooms,      \* and how many Tasks then may
  MaxSends,   \* bound: posts in a behaviour
  MaxRefresh, \* bound: summary refreshes
  MaxCrashes  \* bound: turns that die

Message == 1..Messages

Intent == {i \in [op : Mutation \cup {"submit"}, task : Task \cup {None}] :
             (i.op = "submit") <=> (i.task = None)}

(* How much of a text has been published: its two fragments, or some of it *)
(* and the words that say that the operation failed.                       *)
Amount == {"none", "part", "whole", "failed"}
Answer == [text : Text, amount : Amount]

(* Assistant texts are stored under the message id that Open WebUI sends   *)
(* with the request; it is taken to be one for each user message, so that  *)
(* a response that is regenerated under an id of its own is left out.      *)
UserId(m) == <<"user", m>>
AssistantId(m) == <<"assistant", m>>

ASSUME ChatAssumption ==
  /\ Messages \in Nat \ {0} /\ Window \in Nat \ {0} /\ Budget \in Nat
  /\ Mutation \subseteq {"followUp", "cancel"}
  /\ Ordinal \subseteq Nat /\ Rooms \subseteq Nat /\ Text # {}
  /\ Answered \in 0..Messages
  /\ None \notin Task \cup Text \cup Intent \cup Answer
  /\ \A i, j \in DOMAIN Bound0 :
       Bound0[i] \in Task /\ (Bound0[i] = Bound0[j] => i = j)
  /\ {MaxSends, MaxRefresh, MaxCrashes} \subseteq Nat

VARIABLES
  log, summary,                    \* ConversationLog
  order, ended, focus, reference,  \* TaskDirectory
  claim,   \* per message: the request it is claimed for, and if it is done
  made,    \* per message: the Task that SDAR made for it
  sent,    \* per message: what SDAR was asked to do (for the properties)
  heard,   \* the Tasks that SDAR has answered a turn about (likewise)
  shown,   \* the Task list that the user saw last
  client,  \* per message: the response that the client holds
  turn, refresh,
  sends, crashes

Id == {UserId(m) : m \in Message} \cup {AssistantId(m) : m \in Message}
Contents == Answer \cup {None}  \* None: the words of a user message

L == INSTANCE ConversationLog WITH Content <- Contents
D == INSTANCE TaskDirectory

directory == <<order, ended, focus, reference>>
history == <<log, summary, refresh>>
effects == <<claim, made, sent, heard>>
bounds == <<sends, crashes>>
vars == <<history, directory, effects, shown, client, turn, bounds>>

Snapshot == [active : Seq(Task), recent : Seq(Task),
             focus : Task \cup {None}, reference : Task \cup {None}]
NoSnapshot == [active |-> <<>>, recent |-> <<>>,
               focus |-> None, reference |-> None]

NoResponse == [answer |-> None, done |-> FALSE]
NoClaim == [intent |-> None, done |-> FALSE]

IdleTurn ==
  [pc |-> "idle", msg |-> None, parent |-> None, seq |-> 0, past |-> {},
   through |-> 0, loaded |-> {}, tasks |-> NoSnapshot, op |-> None,
   task |-> None, meant |-> {}, list |-> <<>>, answer |-> None]

(* A chat may be found with a past: messages that were answered with words *)
(* alone, and Tasks.                                                       *)
PastAnswer == [text |-> CHOOSE x \in Text : TRUE, amount |-> "whole"]

PastLog ==
  [s \in 1..(2 * Answered) |->
     IF s % 2 = 1
     THEN [id |-> UserId((s + 1) \div 2), content |-> None, truncated |-> FALSE]
     ELSE [id |-> AssistantId(s \div 2), content |-> PastAnswer, truncated |-> FALSE]]

Init ==
  /\ log = PastLog /\ summary = L!NoSummary
  /\ order = Bound0 /\ ended = {} /\ focus = None /\ reference = None
  /\ claim = [m \in Message |-> NoClaim]
  /\ made = [m \in Message |-> None]
  /\ sent = [m \in Message |-> {}]
  /\ heard = {}
  /\ shown = <<>>
  /\ client = [m \in Message |->
       IF m <= Answered THEN [answer |-> PastAnswer, done |-> TRUE] ELSE NoResponse]
  /\ turn = [o \in Turn |-> IdleTurn]
  /\ refresh = [pc |-> "idle", version |-> 0, through |-> 0]
  /\ sends = 0 /\ crashes = 0

Goto(o, pc) == turn' = [turn EXCEPT ![o].pc = pc]

Intends(o) ==
  [op |-> turn[o].op,
   task |-> IF turn[o].op = "submit" THEN None ELSE turn[o].task]

-----------------------------------------------------------------------------
(* POST /chat/completions: a new message, or one that was sent before. The *)
(* client includes the parent answer as it holds it.                       *)
Send(o, m) ==
  /\ turn[o].pc = "idle"
  /\ sends < MaxSends
  /\ m > 1 => client[m - 1].answer # None
  /\ sends' = sends + 1
  /\ turn' = [turn EXCEPT ![o] =
       [IdleTurn EXCEPT !.pc = "reconciling", !.msg = m,
          !.parent = IF m > 1 THEN client[m - 1].answer ELSE None]]
  /\ UNCHANGED <<history, directory, effects, shown, client, crashes>>

(* Importer: reconcileAssistantMessage throws if the parent answer is      *)
(* stored with another text. Of the history that the client sends only     *)
(* this message is modelled: older ones that carry an id of their own are  *)
(* ingested or compared in the same way.                                   *)
Reconcile(o) ==
  LET p == turn[o].parent
  IN  /\ turn[o].pc = "reconciling"
      /\ turn' = IF p # None /\ L!Clashes(AssistantId(turn[o].msg - 1), p)
                 THEN [turn EXCEPT ![o] = IdleTurn]
                 ELSE [turn EXCEPT ![o] =
                         [@ EXCEPT !.pc = "ingesting", !.parent = None]]
      /\ UNCHANGED <<history, directory, effects, shown, client, bounds>>

(* Importer: ingestUserMessage of the current message.                     *)
Ingest(o) ==
  LET id == UserId(turn[o].msg)
  IN  /\ turn[o].pc = "ingesting"
      /\ L!Insert(id, None, FALSE)
      /\ turn' = [turn EXCEPT ![o] =
           [@ EXCEPT !.pc = "loading", !.seq = L!SequenceOf(id)]]
      /\ UNCHANGED <<summary, refresh, directory, effects, shown, client, bounds>>

(* Assembler: loadSummary, loadRecentMessages and loadTaskDirectory run in *)
(* parallel, and the last one is four statements on connections of their   *)
(* own. The first two share no state with the others and are put before    *)
(* them; focus and reference are read with the active Tasks.               *)
Loads == {"summary", "messages", "active", "recent"}

Loading(o, what) ==
  /\ turn[o].pc = "loading"
  /\ what \notin turn[o].loaded
  /\ what \in {"active", "recent"} => {"summary", "messages"} \subseteq turn[o].loaded

Loaded(o, what, t) ==
  LET done == turn[o].loaded \cup {what}
  IN  turn' = [turn EXCEPT ![o] =
        [t EXCEPT !.loaded = IF done = Loads THEN {} ELSE done,
                  !.pc = IF done = Loads THEN "deciding" ELSE "loading"]]

Load(o) ==
  LET t == turn[o]
  IN  /\ \/ /\ Loading(o, "summary")
            /\ Loaded(o, "summary", [t EXCEPT !.through = summary.through])
         \/ /\ Loading(o, "messages")
            /\ Loaded(o, "messages", [t EXCEPT !.past = L!Recent(Window)])
         \/ /\ Loading(o, "active")
            /\ Loaded(o, "active",
                 [t EXCEPT !.tasks.active = D!ActiveTasks,
                           !.tasks.focus = focus, !.tasks.reference = reference])
         \/ /\ Loading(o, "recent")
            /\ Loaded(o, "recent", [t EXCEPT !.tasks.recent = D!RecentTasks])
      /\ UNCHANGED <<history, directory, effects, shown, client, bounds>>

(* What the model is given: the summary, if it fits, or none; the newest   *)
(* messages that still fit, of those that the summary does not cover, even *)
(* if it did not fit; and then the Tasks. Their sizes decide what has room.*)
(* Nothing compares the end of the summary with the message of the turn.   *)
Context(o) ==
  [summary : {0, turn[o].through},
   messages : LET rows == L!Eligible(turn[o].past, turn[o].through, turn[o].seq)
              IN  {L!Newest(rows, n) : n \in 0..Budget}]

Directories(o) ==
  LET whole == turn[o].tasks
      cuts == {D!Cut(whole, room) : room \in Rooms}
  IN  cuts \cup {[d EXCEPT !.focus = None] : d \in cuts \ {whole}}
           \cup {[d EXCEPT !.reference = None] : d \in cuts \ {whole}}

-----------------------------------------------------------------------------
(* The turn has its text: the model's, a list, or what the coordinator     *)
(* says. The operation and what was loaded for it are not needed any more. *)
Answering(t, x) ==
  [IdleTurn EXCEPT !.pc = "answering", !.msg = t.msg,
                   !.answer = [text |-> x, amount |-> "none"]]

Say(o) == \E x \in Text : turn' = [turn EXCEPT ![o] = Answering(turn[o], x)]

(* classifyTurn: general chat, or a clarification when a selector matches  *)
(* no Task or several; nothing is sent. For list_tasks the text is the     *)
(* directory of the context, kept here when users name Tasks by ordinals.  *)
Lists(o) ==
  IF Ordinal = {} THEN {} ELSE {D!Listed(d) : d \in Directories(o)}

Chat(o) ==
  /\ turn[o].pc = "deciding"
  /\ \E x \in Text, list \in {<<>>} \cup Lists(o) :
       turn' = [turn EXCEPT ![o] =
                  [Answering(turn[o], x) EXCEPT !.list = list]]
  /\ UNCHANGED <<history, directory, effects, shown, client, bounds>>

(* new_task                                                                *)
New(o) ==
  /\ turn[o].pc = "deciding"
  /\ turn' = [turn EXCEPT ![o] = [IdleTurn EXCEPT
       !.pc = "claiming", !.msg = turn[o].msg, !.op = "submit"]]
  /\ UNCHANGED <<history, directory, effects, shown, client, bounds>>

(* What a decision asks of a Task: a TurnDecision by its kind, a TurnPlan  *)
(* by its route and the action of its directive.                           *)
Operation == Mutation \cup {"status"}

(* Who gives an ordinal means the Task that has it in the list they saw    *)
(* last; who says "the only one", the Tasks that are active.               *)
Means(o, selector) ==
  IF selector.by = "ordinal" /\ selector.arg \in DOMAIN shown
  THEN {shown[selector.arg]}
  ELSE IF selector.by = "only_active"
  THEN {turn[o].tasks.active[i] : i \in DOMAIN turn[o].tasks.active}
  ELSE {}

(* status, follow_up and cancel of the Task that the model's selector      *)
(* names in the directory it was given, and touchResolvedTask.             *)
Target(o) ==
  /\ turn[o].pc = "deciding"
  /\ \E s \in D!Selector(Ordinal), t \in Task, op \in Operation,
        d \in Directories(o) :
       /\ D!Resolves(s, d, t)
       /\ D!TouchTask(t)
       /\ turn' = [turn EXCEPT ![o] = [IdleTurn EXCEPT
            !.pc = IF op = "status" THEN "asking" ELSE "claiming",
            !.msg = turn[o].msg, !.op = op, !.task = t, !.meant = Means(o, s)]]
  /\ UNCHANGED <<history, effects, shown, client, bounds>>

-----------------------------------------------------------------------------
(* claimRequest. A Task that has ended is refused before; a claim held by  *)
(* another turn is in progress, and one whose turn is gone is taken over.  *)
Held(o) ==
  \E p \in Turn \ {o} :
    turn[p].msg = turn[o].msg /\ turn[p].pc \in {"calling", "binding", "answered"}

Replayed_Claimed(c) == c.intent # None  \* fault: the status is not read
Replayed(c) == c.done

OtherRequest_Never(c, i) == FALSE  \* fault: the request hash is not compared
OtherRequest(c, i) == c # i

Claim(o) ==
  LET m == turn[o].msg
      c == claim[m]
      i == Intends(o)
  IN  /\ turn[o].pc = "claiming"
      /\ IF \/ i.op # "submit" /\ i.task \in ended
            \/ c.intent # None /\ OtherRequest(c.intent, i)
         THEN Say(o) /\ UNCHANGED claim
         ELSE IF Replayed(c)
         THEN /\ Goto(o, IF i.op = "submit" THEN "asking" ELSE "focusing")
              /\ UNCHANGED claim
         ELSE IF Held(o) THEN Say(o) /\ UNCHANGED claim
         ELSE /\ claim' = [claim EXCEPT ![m].intent = i]
              /\ Goto(o, "calling")
      /\ UNCHANGED <<history, directory, made, sent, heard, shown, client, bounds>>

(* The submission slot is taken, or the limit reached: the claim stays. An *)
(* interaction slot that another turn has: the claim is given back.        *)
Refuse(o) ==
  LET m == turn[o].msg
  IN  /\ turn[o].pc = "calling"
      /\ IF turn[o].op = "submit" THEN UNCHANGED claim
         ELSE /\ \E p \in Turn \ {o} : /\ turn[p].pc \in {"calling", "answered"}
                                       /\ turn[p].task = turn[o].task
              /\ claim' = [claim EXCEPT ![m] = NoClaim]
      /\ Say(o)
      /\ UNCHANGED <<history, directory, made, sent, heard, shown, client, bounds>>

(* SDAR gets the request. A submission makes a Task, the same one for the  *)
(* same message id; the event that names it reaches the turn, or does not. *)
Call(o) ==
  LET m == turn[o].msg
  IN  /\ turn[o].pc = "calling"
      /\ sent' = [sent EXCEPT ![m] = @ \cup {Intends(o)}]
      /\ IF turn[o].op # "submit"
         THEN /\ Goto(o, "answered") /\ UNCHANGED made
              /\ heard' = heard \cup {turn[o].task}
         ELSE \E t \in Task :
                /\ IF made[m] # None THEN t = made[m]
                   ELSE t \notin D!Bound /\ \A n \in Message : made[n] # t
                /\ made' = [made EXCEPT ![m] = t]
                /\ heard' = heard \cup {t}
                /\ turn' = [turn EXCEPT ![o] =
                              [@ EXCEPT !.pc = "binding", !.task = t]]
      /\ UNCHANGED <<history, directory, claim, shown, client, bounds>>

(* ensureBinding                                                           *)
Bind(o) ==
  LET t == turn[o].task
  IN  /\ turn[o].pc = "binding"
      /\ IF t \in D!Bound THEN UNCHANGED directory ELSE D!BindTask(t)
      /\ Goto(o, "answered")
      /\ UNCHANGED <<history, effects, shown, client, bounds>>

(* completeRequest; a mutation then focuses its Task.                      *)
Complete(o) ==
  /\ turn[o].pc = "answered"
  /\ claim' = [claim EXCEPT ![turn[o].msg].done = TRUE]
  /\ IF turn[o].op = "submit" THEN Say(o) ELSE Goto(o, "focusing")
  /\ UNCHANGED <<history, directory, made, sent, heard, shown, client, bounds>>

(* getTask answers: for a status, which focuses its Task, or for a         *)
(* submission that is replayed, which does not.                            *)
Ask(o) ==
  /\ turn[o].pc = "asking"
  /\ IF turn[o].op = "status"
     THEN Goto(o, "focusing") /\ heard' = heard \cup {turn[o].task}
     ELSE Say(o) /\ UNCHANGED heard
  /\ UNCHANGED <<history, directory, claim, made, sent, shown, client, bounds>>

(* focusTask                                                               *)
Focus(o) ==
  /\ turn[o].pc = "focusing"
  /\ D!FocusTask(turn[o].task)
  /\ Say(o)
  /\ UNCHANGED <<history, effects, shown, client, bounds>>

-----------------------------------------------------------------------------
(* streamChatCompletion pushes a fragment to what it has published and     *)
(* yields it; whether it reaches the client is another matter.             *)
Publish(o) ==
  LET a == turn[o].answer
      more == [a EXCEPT !.amount = IF @ = "none" THEN "part" ELSE "whole"]
  IN  /\ turn[o].pc = "answering"
      /\ a.amount \in {"none", "part"}
      /\ turn' = [turn EXCEPT ![o].answer = more]
      /\ \/ client' = [client EXCEPT ![turn[o].msg] =
                         [answer |-> more, done |-> FALSE]]
         \/ UNCHANGED client
      /\ UNCHANGED <<history, directory, effects, shown, bounds>>

(* The stream ends, or the client has gone, and its finally block runs. A  *)
(* client that went earlier is seen to be gone when the stream begins.     *)
EndStream(o) ==
  /\ turn[o].pc = "answering" /\ turn[o].answer.amount = "whole"
  /\ Goto(o, "storing")
  /\ UNCHANGED <<history, directory, effects, shown, client, bounds>>

Leave(o) ==
  /\ turn[o].pc \in {"answering", "storing"}
  /\ Goto(o, "aborted")
  /\ UNCHANGED <<history, directory, effects, shown, client, bounds>>

(* Before the stream exists an error is the response; then it is caught,   *)
(* and some words for it are published, or nothing if the client has gone  *)
(* and the operation was aborted.                                          *)
InStream == {"claiming", "calling", "binding", "answered", "asking",
             "focusing", "answering"}

Fail(o) ==
  /\ turn[o].pc \in InStream \cup {"reconciling", "ingesting", "loading",
                                   "deciding"}
  /\ IF turn[o].pc \notin InStream
     THEN turn' = [turn EXCEPT ![o] = IdleTurn]
     ELSE \/ \E x \in Text :
               turn' = [turn EXCEPT ![o] = [Answering(turn[o], x) EXCEPT
                 !.pc = "storing",
                 !.answer = [text |-> IF turn[o].answer = None THEN x
                                      ELSE turn[o].answer.text,
                             amount |-> "failed"]]]
          \/ turn' = [turn EXCEPT ![o] =
               IF turn[o].pc = "answering" THEN [@ EXCEPT !.pc = "aborted"]
                                           ELSE IdleTurn]
  /\ UNCHANGED <<history, directory, effects, shown, client, bounds>>

(* persistAssistantMessage: what was published, if anything, is stored;    *)
(* then the client is told that the response is complete. A conflict       *)
(* throws, and the response breaks off.                                    *)
Store(o) ==
  LET m == turn[o].msg
      a == turn[o].answer
  IN  /\ turn[o].pc \in {"storing", "aborted"}
      /\ turn' = [turn EXCEPT ![o] = IdleTurn]
      /\ IF a.amount = "none" \/ L!Clashes(AssistantId(m), a)
         THEN UNCHANGED <<log, client, shown>>
         ELSE /\ L!Insert(AssistantId(m), a,
                          turn[o].pc = "aborted" \/ a.amount = "failed")
              /\ \/ /\ turn[o].pc = "storing"
                    /\ client' = [client EXCEPT ![m] =
                                    [answer |-> a, done |-> TRUE]]
                    /\ shown' = IF turn[o].list = <<>> THEN shown
                                                       ELSE turn[o].list
                 \/ UNCHANGED <<client, shown>>
      /\ UNCHANGED <<summary, refresh, directory, effects, bounds>>

(* The turn's process dies.                                                *)
Die(o) ==
  /\ turn[o].pc # "idle" /\ crashes < MaxCrashes
  /\ crashes' = crashes + 1
  /\ turn' = [turn EXCEPT ![o] = IdleTurn]
  /\ UNCHANGED <<history, directory, effects, shown, client, sends>>

-----------------------------------------------------------------------------
(* Some turn observes the final state of a Task.                           *)
TaskEnds ==
  /\ \E t \in Task : D!EndTask(t)
  /\ UNCHANGED <<history, effects, shown, client, turn, bounds>>

(* ConversationSummaryRefresher: the summary and the messages after it are *)
(* read, the model summarizes a prefix of them that leaves the last out,   *)
(* and the result is saved unless another refresh came first. No code of   *)
(* the repository calls the class yet.                                     *)
BeginRefresh ==
  /\ refresh.pc = "idle" /\ summary.version < MaxRefresh
  /\ \E n \in L!Unsummarized \ {Len(log)} :
       refresh' = [pc |-> "saving", version |-> summary.version, through |-> n]
  /\ UNCHANGED <<log, summary, directory, effects, shown, client, turn, bounds>>

SaveRefresh ==
  /\ refresh.pc = "saving"
  /\ \/ L!SaveSummary(refresh.version, refresh.through)
     \/ UNCHANGED summary
  /\ refresh' = [refresh EXCEPT !.pc = "idle"]
  /\ UNCHANGED <<log, directory, effects, shown, client, turn, bounds>>

Step(o) ==
  \/ Reconcile(o) \/ Ingest(o) \/ Load(o) \/ Chat(o) \/ New(o)
  \/ Target(o) \/ Claim(o) \/ Refuse(o) \/ Call(o) \/ Bind(o) \/ Complete(o)
  \/ Ask(o) \/ Focus(o) \/ Publish(o) \/ EndStream(o) \/ Store(o)

Next ==
  \/ \E o \in Turn : Step(o) \/ Fail(o) \/ Leave(o) \/ Die(o)
  \/ \E o \in Turn, m \in Message : Send(o, m)
  \/ TaskEnds \/ BeginRefresh \/ SaveRefresh

Spec == Init /\ [][Next]_vars

-----------------------------------------------------------------------------
(* A client that was told that a response is complete holds what the       *)
(* conversation has stored, although every turn of the message writes its  *)
(* own text: all complete responses to a message are the same text.        *)
WholeAnswerIsStored ==
  \A m \in Message : client[m].done =>
    \E s \in L!Sequences(AssistantId(m)) : log[s].content = client[m].answer

(* The operation of a message is the last thing that it makes SDAR do, once *)
(* it is completed or SDAR has got it as a submission, although the model   *)
(* decides anew each time the message is sent and may decide otherwise.     *)
OperationIsFinal ==
  [][\A m \in Message :
       (claim[m].done \/ \E i \in sent[m] : i.op = "submit")
         => sent'[m] = sent[m]]_vars

(* As messages the model is given only what the conversation had before    *)
(* the message of the turn, however late that is sent again; nothing that  *)
(* the summary tells too; and nothing is skipped between the first of them *)
(* and the message. If the log is not longer than the window, only what    *)
(* the summary covers and what has no room is left out.                    *)
ContextHasNoGap ==
  \A o \in Turn : turn[o].pc = "deciding" =>
    LET before == {s \in DOMAIN log :
                     \E n \in L!Sequences(UserId(turn[o].msg)) : s < n}
        uncovered == {s \in before : s > turn[o].through}
    IN  /\ \A c \in Context(o) : \A s \in c.messages :
             /\ s \in before /\ s > c.summary
             /\ \A u \in before : u > s => u \in c.messages
        /\ Len(log) <= Window =>
             [summary |-> turn[o].through,
              messages |-> L!Newest(uncovered, Budget)] \in Context(o)

(* Focus is on a Task only after SDAR has answered for it, to this turn or *)
(* to the earlier turn of the message that this one replays.               *)
FocusIsHeard == focus # None => focus \in heard

-----------------------------------------------------------------------------
(* Not so of summaries: a message that is sent again may be answered with  *)
(* a summary of what came after it.                                        *)
NothingLater ==
  \A o \in Turn : turn[o].pc = "deciding" =>
    \A c \in Context(o) : c.summary < turn[o].seq

(* "stable ordinal" and "the sole active Task": the Task that is operated  *)
(* on is what the user's words mean.                                       *)
ActsOnWhatIsMeant ==
  \A o \in Turn : turn[o].meant # {} => turn[o].meant = {turn[o].task}

(* "The user-message ID is the stable identity for ... A2A request          *)
(* idempotency": a message makes SDAR do one thing.                         *)
OneOperation == \A m \in Message : Cardinality(sent[m]) <= 1

(* "Persist the assistant text actually published": a client that sends    *)
(* its parent answer along has what is stored.                             *)
StoredIsSeen ==
  \A o \in Turn : turn[o].pc = "reconciling" /\ turn[o].parent # None =>
    ~L!Clashes(AssistantId(turn[o].msg - 1), turn[o].parent)
=============================================================================
