--------------------------- MODULE ChatTurn_proofs ---------------------------
(***************************************************************************)
(* Proofs about ChatTurn for any number of turns, messages, Tasks and      *)
(* posts.                                                                  *)
(*                                                                         *)
(* Three facts carry them. The log has a message once and only grows, so   *)
(* that the sequence at which a turn found its own message, and the rows   *)
(* that it read, keep their meaning (Reads). Whoever calls SDAR holds the  *)
(* claim of the message, alone and for the operation that it performs      *)
(* (Claims), while the claim of a submission is never given back. And a    *)
(* completed mutation names a Task that SDAR has answered about (Heard).   *)
(***************************************************************************)
EXTENDS ChatTurn, TLAPS, FiniteSetTheorems

Holding == {"calling", "binding", "answered"}

(* The shape of a turn, except for the Tasks that it has read, and what it *)
(* knows where.                                                            *)
WellShaped(t) ==
  /\ t \in [pc : {"idle", "reconciling", "ingesting", "loading", "deciding",
                  "claiming", "calling", "binding", "answered", "asking",
                  "focusing", "answering", "storing", "aborted"},
            msg : Message \cup {None}, parent : Contents, seq : Nat,
            past : SUBSET Nat, through : Nat, loaded : SUBSET Loads,
            tasks : {t.tasks}, op : Operation \cup {"submit", None},
            task : Task \cup {None}, meant : {t.meant}, list : {t.list},
            answer : Contents]
  /\ t.pc # "idle" => t.msg \in Message
  /\ t.pc \in {"idle", "reconciling", "ingesting"} => t.loaded = {}
  /\ t.pc \in {"claiming"} \cup Holding =>
       /\ t.op \in Mutation \cup {"submit"}
       /\ t.op # "submit" => t.task \in Task
  /\ t.pc \in {"answering", "storing", "aborted"} => t.answer \in Answer

Shapes ==
  /\ DOMAIN turn = Turn /\ turn = [o \in Turn |-> turn[o]]
  /\ \A o \in Turn : WellShaped(turn[o])
  /\ client \in [Message -> [answer : Contents, done : BOOLEAN]]
  /\ claim \in [Message -> [intent : Intent \cup {None}, done : BOOLEAN]]
  /\ sent \in [Message -> SUBSET Intent]
  /\ summary.through \in Nat /\ refresh.through \in Nat

(* A message is in the log once.                                           *)
LogOK ==
  /\ log \in Seq(L!LogRow)
  /\ \A s, u \in DOMAIN log : log[s].id = log[u].id => s = u

(* The newest rows of the log when it had k.                               *)
NewestOf(k) == {s \in 1..k : s + Window > k}

(* A turn that assembles its context knows where its own message is, and   *)
(* what it has read of the log is the newest of it as it was at some point *)
(* after that message had come.                                            *)
Reads(t) ==
  /\ t.pc \in {"loading", "deciding"} =>
       t.seq \in DOMAIN log /\ log[t.seq].id = UserId(t.msg)
  /\ t.pc = "deciding" \/ (t.pc = "loading" /\ "messages" \in t.loaded) =>
       \E k \in t.seq..Len(log) : t.past = NewestOf(k)

LogInv == LogOK /\ \A o \in Turn : Reads(turn[o])

(* Who is calling SDAR for a message has its claim, nobody else does, and  *)
(* no claim of a submission is given back.                                 *)
Claims ==
  /\ \A o \in Turn : turn[o].pc \in Holding =>
       /\ claim[turn[o].msg].intent = Intends(o)
       /\ ~claim[turn[o].msg].done
  /\ \A o, p \in Turn :
       (turn[o].pc \in Holding /\ turn[p].pc \in Holding
          /\ turn[o].msg = turn[p].msg) => o = p
  /\ \A m \in Message : \A i \in sent[m] :
       i.op = "submit" => claim[m].intent = i

IInv == Shapes /\ LogInv /\ WholeAnswerIsStored /\ Claims

-----------------------------------------------------------------------------
(* The shape of every turn, whatever it does: a step of a turn changes that *)
(* turn alone.                                                             *)
Moves(o) ==
  /\ turn' = [turn EXCEPT ![o] = turn'[o]]
  /\ WellShaped(turn'[o])

LEMMA IdleShaped == WellShaped(IdleTurn)
  BY DEF WellShaped, IdleTurn, Contents, Loads, Holding

LEMMA MovedShapes ==
  ASSUME Shapes, NEW o \in Turn, NEW v, WellShaped(v),
         turn' = [turn EXCEPT ![o] = v]
  PROVE  Moves(o) /\ turn'[o] = v
  BY DEF Shapes, Moves

LEMMA GotoMoves ==
  ASSUME Shapes, NEW o \in Turn,
         NEW pc \in {"calling", "binding", "answered", "asking", "focusing",
                     "storing", "aborted"},
         Goto(o, pc),
         pc \in Holding =>
           /\ turn[o].op \in Mutation \cup {"submit"}
           /\ turn[o].op # "submit" => turn[o].task \in Task,
         turn[o].pc # "idle",
         pc \in {"storing", "aborted"} => turn[o].answer \in Answer
  PROVE  Moves(o) /\ turn'[o] = [turn[o] EXCEPT !.pc = pc]
<1>1. WellShaped(turn[o]) BY DEF Shapes
<1>2. WellShaped([turn[o] EXCEPT !.pc = pc])
  BY <1>1 DEF WellShaped, Holding
<1>3. turn' = [turn EXCEPT ![o] = [turn[o] EXCEPT !.pc = pc]]
  BY DEF Goto, Shapes
<1> QED BY <1>2, <1>3, MovedShapes

LEMMA AnsweringShaped ==
  ASSUME NEW o \in Turn, turn[o].msg \in Message, NEW x \in Text
  PROVE  /\ WellShaped(Answering(turn[o], x))
         /\ Answering(turn[o], x).pc = "answering"
         /\ Answering(turn[o], x).msg = turn[o].msg
  BY DEF WellShaped, Answering, IdleTurn, Contents, Answer, Amount, Loads,
     Holding

LEMMA SayMoves ==
  ASSUME Shapes, NEW o \in Turn, turn[o].pc # "idle", Say(o)
  PROVE  Moves(o) /\ turn'[o].pc = "answering" /\ turn'[o].msg = turn[o].msg
<1>1. turn[o].msg \in Message BY DEF Shapes, WellShaped
<1>2. PICK x \in Text : turn' = [turn EXCEPT ![o] = Answering(turn[o], x)]
  BY DEF Say
<1>3. /\ WellShaped(Answering(turn[o], x))
      /\ Answering(turn[o], x).pc = "answering"
      /\ Answering(turn[o], x).msg = turn[o].msg
  BY <1>1, AnsweringShaped
<1> QED BY <1>2, <1>3, MovedShapes

LEMMA SequenceIsNat ==
  ASSUME LogOK, NEW id
  PROVE  L!SequenceOf(id) \in Nat
<1>1. DOMAIN log \subseteq Nat /\ Len(log) + 1 \in Nat BY DEF LogOK
<1> QED BY <1>1 DEF L!SequenceOf, L!Stored, L!Sequences

LEMMA ReadingMoves ==
  ASSUME Shapes, LogOK, NEW o \in Turn
  PROVE  /\ \A m \in Message : Send(o, m) =>
              Moves(o) /\ turn'[o].pc = "reconciling"
         /\ Reconcile(o) => Moves(o) /\ turn'[o].pc \in {"idle", "ingesting"}
         /\ Ingest(o) =>
              /\ Moves(o)
              /\ turn'[o].pc = "loading" /\ turn'[o].loaded = {}
              /\ turn'[o].msg = turn[o].msg
              /\ turn'[o].seq = L!SequenceOf(UserId(turn[o].msg))
<1>1. WellShaped(turn[o]) BY DEF Shapes
<1>2. ASSUME NEW m \in Message, Send(o, m)
      PROVE  Moves(o) /\ turn'[o].pc = "reconciling"
  <2> DEFINE v == [IdleTurn EXCEPT !.pc = "reconciling", !.msg = m,
                     !.parent = IF m > 1 THEN client[m - 1].answer ELSE None]
  <2>1. turn' = [turn EXCEPT ![o] = v] BY <1>2 DEF Send
  <2>2. m > 1 => client[m - 1].answer \in Contents
    BY ChatAssumption DEF Shapes, Message
  <2>3. None \in Contents BY DEF Contents
  <2>4. WellShaped(v) /\ v.pc = "reconciling"
    BY <2>2, <2>3 DEF WellShaped, IdleTurn, Loads, Holding
  <2> QED BY <2>1, <2>4, MovedShapes
<1>3. ASSUME Reconcile(o)
      PROVE  Moves(o) /\ turn'[o].pc \in {"idle", "ingesting"}
  <2> DEFINE v == [turn[o] EXCEPT !.pc = "ingesting", !.parent = None]
  <2>1. \/ turn' = [turn EXCEPT ![o] = IdleTurn]
        \/ turn' = [turn EXCEPT ![o] = v]
    BY <1>3 DEF Reconcile, Shapes
  <2>2. turn[o].pc = "reconciling" BY <1>3 DEF Reconcile
  <2>3. WellShaped(v) /\ v.pc = "ingesting"
    BY <1>1, <2>2 DEF WellShaped, Contents, Holding
  <2>4. IdleTurn.pc = "idle" BY DEF IdleTurn
  <2> QED BY <2>1, <2>3, <2>4, IdleShaped, MovedShapes
<1>4. ASSUME Ingest(o)
      PROVE  /\ Moves(o)
             /\ turn'[o].pc = "loading" /\ turn'[o].loaded = {}
             /\ turn'[o].msg = turn[o].msg
             /\ turn'[o].seq = L!SequenceOf(UserId(turn[o].msg))
  <2> DEFINE q == L!SequenceOf(UserId(turn[o].msg))
             v == [turn[o] EXCEPT !.pc = "loading", !.seq = q]
  <2>1. turn' = [turn EXCEPT ![o] = v] BY <1>4 DEF Ingest, Shapes
  <2>2. turn[o].pc = "ingesting" BY <1>4 DEF Ingest
  <2>3. q \in Nat BY SequenceIsNat
  <2> HIDE DEF q
  <2>4. /\ WellShaped(v) /\ v.pc = "loading" /\ v.loaded = {}
        /\ v.msg = turn[o].msg /\ v.seq = q
    BY <1>1, <2>2, <2>3 DEF WellShaped, Holding
  <2>5. Moves(o) /\ turn'[o] = v BY <2>1, <2>4, MovedShapes
  <2> QED BY <2>4, <2>5 DEF q
<1> QED BY <1>2, <1>3, <1>4

LEMMA LoadMoves ==
  ASSUME Shapes, LogOK, NEW o \in Turn, Load(o)
  PROVE  /\ Moves(o)
         /\ turn[o].pc = "loading" /\ turn'[o].pc \in {"loading", "deciding"}
         /\ turn'[o].msg = turn[o].msg /\ turn'[o].seq = turn[o].seq
         /\ turn'[o].pc = "deciding" \/ "messages" \in turn'[o].loaded =>
              \/ turn'[o].past = L!Recent(Window)
              \/ turn'[o].past = turn[o].past /\ "messages" \in turn[o].loaded
<1> DEFINE Filled(w, what) ==
      LET done == turn[o].loaded \cup {what}
      IN  [w EXCEPT !.loaded = IF done = Loads THEN {} ELSE done,
                    !.pc = IF done = Loads THEN "deciding" ELSE "loading"]
           t == turn[o]
           summed == [t EXCEPT !.through = summary.through]
           read == [t EXCEPT !.past = L!Recent(Window)]
           active == [t EXCEPT !.tasks.active = D!ActiveTasks,
                        !.tasks.focus = focus, !.tasks.reference = reference]
           recent == [t EXCEPT !.tasks.recent = D!RecentTasks]
<1>1. WellShaped(t) /\ t.pc = "loading"
  BY DEF Shapes, Load, Loading
<1>2. L!Recent(Window) \in SUBSET Nat /\ summary.through \in Nat
  BY DEF L!Recent, LogOK, Shapes
<1> DEFINE Like(w) == /\ WellShaped(w) /\ w.pc = "loading"
                      /\ w.msg = t.msg /\ w.seq = t.seq /\ w.loaded = t.loaded
<1>3. Like(summed) /\ summed.past = t.past
  BY <1>1, <1>2 DEF WellShaped, Holding
<1>4. Like(read) /\ read.past = L!Recent(Window)
  BY <1>1, <1>2 DEF WellShaped, Holding
<1>5. Like(active) /\ active.past = t.past
  BY <1>1 DEF WellShaped, Holding
<1>6. Like(recent) /\ recent.past = t.past
  BY <1>1 DEF WellShaped, Holding
<1> DEFINE Goal ==
      /\ Moves(o)
      /\ turn'[o].pc \in {"loading", "deciding"}
      /\ turn'[o].msg = turn[o].msg /\ turn'[o].seq = turn[o].seq
      /\ turn'[o].pc = "deciding" \/ "messages" \in turn'[o].loaded =>
           \/ turn'[o].past = L!Recent(Window)
           \/ turn'[o].past = turn[o].past /\ "messages" \in turn[o].loaded
<1> HIDE DEF summed, read, active, recent
<1>7. ASSUME NEW w \in {summed, read, active, recent}, NEW what \in Loads,
             Like(w),
             w.past = L!Recent(Window) \/ (w.past = t.past /\ what # "messages"),
             turn' = [turn EXCEPT ![o] = Filled(w, what)]
      PROVE  Goal
  <2> DEFINE v == Filled(w, what)
  <2>1. /\ v.pc \in {"loading", "deciding"}
        /\ v.msg = w.msg /\ v.seq = w.seq /\ v.past = w.past
        /\ v.loaded = IF w.loaded \cup {what} = Loads THEN {}
                      ELSE w.loaded \cup {what}
        /\ v.pc = "deciding" => w.loaded \cup {what} = Loads
    BY <1>7 DEF WellShaped
  <2>2. WellShaped(v)
    <3>1. PICK lo \in SUBSET Loads, pc \in {"loading", "deciding"} :
            v = [w EXCEPT !.loaded = lo, !.pc = pc]
      <4>1. w.loaded \in SUBSET Loads BY <1>7 DEF WellShaped
      <4> QED BY <1>7, <4>1
    <3>2. WellShaped(w) /\ w.pc = "loading" BY <1>7
    <3> HIDE DEF v, Like, Filled
    <3> QED BY <3>1, <3>2 DEF WellShaped, Holding
  <2>3. turn' = [turn EXCEPT ![o] = v] BY <1>7
  <2>5. Moves(o) /\ turn'[o] = v
    <3> HIDE DEF v
    <3> QED BY <2>2, <2>3, MovedShapes
  <2>4. "messages" \in Loads BY DEF Loads
  <2> HIDE DEF v
  <2> QED BY <1>7, <2>1, <2>5, <2>4
<1> HIDE DEF Goal, Filled, Like
<1>8. ASSUME Loading(o, "summary") /\ Loaded(o, "summary", summed) PROVE Goal
  <2>1. turn' = [turn EXCEPT ![o] = Filled(summed, "summary")]
    BY <1>8 DEF Loaded, Filled
  <2>2. "summary" \in Loads /\ "summary" # "messages" BY DEF Loads
  <2> QED BY <1>3, <1>7, <2>1, <2>2 DEF Like
<1>9. ASSUME Loading(o, "messages") /\ Loaded(o, "messages", read) PROVE Goal
  <2>1. turn' = [turn EXCEPT ![o] = Filled(read, "messages")]
    BY <1>9 DEF Loaded, Filled
  <2>2. "messages" \in Loads BY DEF Loads
  <2> QED BY <1>4, <1>7, <2>1, <2>2 DEF Like
<1>10. ASSUME Loading(o, "active") /\ Loaded(o, "active", active) PROVE Goal
  <2>1. turn' = [turn EXCEPT ![o] = Filled(active, "active")]
    BY <1>10 DEF Loaded, Filled
  <2>2. "active" \in Loads /\ "active" # "messages" BY DEF Loads
  <2> QED BY <1>5, <1>7, <2>1, <2>2 DEF Like
<1>11. ASSUME Loading(o, "recent") /\ Loaded(o, "recent", recent) PROVE Goal
  <2>1. turn' = [turn EXCEPT ![o] = Filled(recent, "recent")]
    BY <1>11 DEF Loaded, Filled
  <2>2. "recent" \in Loads /\ "recent" # "messages" BY DEF Loads
  <2> QED BY <1>6, <1>7, <2>1, <2>2 DEF Like
<1>12. Goal BY <1>8, <1>9, <1>10, <1>11 DEF Load, summed, read,
        active, recent
<1> QED BY <1>1, <1>12 DEF Goal

LEMMA DecidingMoves ==
  ASSUME Shapes, NEW o \in Turn, Chat(o) \/ New(o) \/ Target(o)
  PROVE  Moves(o) /\ turn'[o].pc \in {"answering", "claiming", "asking"}
<1>1. WellShaped(turn[o]) BY DEF Shapes
<1>2. turn[o].msg \in Message BY <1>1 DEF WellShaped, Chat, New, Target
<1>3. CASE Chat(o)
  <2>1. PICK x \in Text, list \in {<<>>} \cup Lists(o) :
          turn' = [turn EXCEPT ![o] =
                     [Answering(turn[o], x) EXCEPT !.list = list]]
    BY <1>3 DEF Chat
  <2> DEFINE v == [Answering(turn[o], x) EXCEPT !.list = list]
  <2>2. WellShaped(v) /\ v.pc = "answering"
    BY <1>2 DEF WellShaped, Answering, IdleTurn, Contents, Answer, Amount,
       Loads, Holding
  <2>3. turn' = [turn EXCEPT ![o] = v] BY <2>1
  <2> QED BY <2>2, <2>3, MovedShapes
<1>4. CASE New(o)
  <2> DEFINE v == [IdleTurn EXCEPT !.pc = "claiming", !.msg = turn[o].msg,
                                   !.op = "submit"]
  <2>1. WellShaped(v) /\ v.pc = "claiming"
    BY <1>2 DEF WellShaped, IdleTurn, Contents, Loads, Holding
  <2>2. turn' = [turn EXCEPT ![o] = v] BY <1>4 DEF New
  <2> QED BY <2>1, <2>2, MovedShapes
<1>5. CASE Target(o)
  <2>1. PICK s \in D!Selector(Ordinal), t \in Task, op \in Operation :
          turn' = [turn EXCEPT ![o] = [IdleTurn EXCEPT
            !.pc = IF op = "status" THEN "asking" ELSE "claiming",
            !.msg = turn[o].msg, !.op = op, !.task = t, !.meant = Means(o, s)]]
    BY <1>5 DEF Target
  <2> DEFINE v == [IdleTurn EXCEPT
            !.pc = IF op = "status" THEN "asking" ELSE "claiming",
            !.msg = turn[o].msg, !.op = op, !.task = t, !.meant = Means(o, s)]
  <2>2. op = "status" \/ op \in Mutation BY DEF Operation
  <2>3. WellShaped(v) /\ v.pc \in {"asking", "claiming"}
    BY <1>2, <2>2 DEF WellShaped, IdleTurn, Contents, Loads, Holding
  <2>4. turn' = [turn EXCEPT ![o] = v] BY <2>1
  <2> QED BY <2>3, <2>4, MovedShapes
<1> QED BY <1>3, <1>4, <1>5

Unwinds == {"idle", "answering", "storing", "aborted"}

LEMMA FailMoves ==
  ASSUME Shapes, NEW o \in Turn, Fail(o)
  PROVE  Moves(o) /\ turn'[o].pc \in Unwinds
<1>1. WellShaped(turn[o]) /\ turn[o].msg \in Message
  BY DEF Shapes, WellShaped, Fail, InStream
<1>2. CASE turn' = [turn EXCEPT ![o] = IdleTurn]
  <2>1. IdleTurn.pc = "idle" BY DEF IdleTurn
  <2> QED BY <1>2, <2>1, IdleShaped, MovedShapes DEF Unwinds
<1>3. CASE /\ turn[o].pc = "answering"
           /\ turn' = [turn EXCEPT ![o].pc = "aborted"]
  <2> DEFINE v == [turn[o] EXCEPT !.pc = "aborted"]
  <2>1. WellShaped(v) /\ v.pc = "aborted"
    BY <1>1, <1>3 DEF WellShaped, Holding
  <2>2. turn' = [turn EXCEPT ![o] = v] BY <1>3 DEF Shapes
  <2> QED BY <2>1, <2>2, MovedShapes DEF Unwinds
<1>4. ASSUME NEW x \in Text, turn' = [turn EXCEPT ![o] =
               [Answering(turn[o], x) EXCEPT !.pc = "storing",
                 !.answer = [text |-> IF turn[o].answer = None THEN x
                                      ELSE turn[o].answer.text,
                             amount |-> "failed"]]]
      PROVE  Moves(o) /\ turn'[o].pc \in Unwinds
  <2> DEFINE a == [text |-> IF turn[o].answer = None THEN x
                            ELSE turn[o].answer.text, amount |-> "failed"]
             v == [Answering(turn[o], x) EXCEPT !.pc = "storing", !.answer = a]
  <2>1. turn[o].answer \in Answer \cup {None}
    BY <1>1 DEF WellShaped, Contents
  <2>2. a \in Answer BY <2>1 DEF Answer, Amount
  <2>3. turn' = [turn EXCEPT ![o] = v] BY <1>4
  <2> HIDE DEF a
  <2>4. WellShaped(v) /\ v.pc = "storing"
    <3>1. WellShaped(Answering(turn[o], x))
          /\ Answering(turn[o], x).msg \in Message
      BY <1>1, AnsweringShaped
    <3> QED BY ZenonT(60), <2>2, <3>1 DEF WellShaped, Contents, Holding
  <2> QED BY <2>3, <2>4, MovedShapes DEF Unwinds
<1>5. \/ turn' = [turn EXCEPT ![o] = IdleTurn]
      \/ turn[o].pc = "answering" /\ turn' = [turn EXCEPT ![o].pc = "aborted"]
      \/ \E x \in Text : turn' = [turn EXCEPT ![o] =
               [Answering(turn[o], x) EXCEPT !.pc = "storing",
                 !.answer = [text |-> IF turn[o].answer = None THEN x
                                      ELSE turn[o].answer.text,
                             amount |-> "failed"]]]
  BY DEF Fail, Shapes
<1> QED BY <1>2, <1>3, <1>4, <1>5

LEMMA StreamMoves ==
  ASSUME Shapes, NEW o \in Turn,
         Publish(o) \/ EndStream(o) \/ Leave(o) \/ Store(o) \/ Die(o)
  PROVE  Moves(o) /\ turn'[o].pc \in Unwinds
<1>1. WellShaped(turn[o]) BY DEF Shapes
<1>2. CASE Publish(o)
  <2> DEFINE a == turn[o].answer
             more == [a EXCEPT !.amount = IF @ = "none" THEN "part" ELSE "whole"]
             v == [turn[o] EXCEPT !.answer = more]
  <2>1. turn[o].pc = "answering" /\ a \in Answer
    BY <1>1, <1>2 DEF Publish, WellShaped
  <2>2. more \in Answer BY <2>1 DEF Answer, Amount
  <2>3. turn' = [turn EXCEPT ![o] = v] BY <1>2 DEF Publish, Shapes
  <2> HIDE DEF more
  <2>4. WellShaped(v) /\ v.pc = "answering"
    BY <1>1, <2>1, <2>2 DEF WellShaped, Contents, Holding
  <2> QED BY <2>3, <2>4, MovedShapes DEF Unwinds
<1>3. CASE EndStream(o) \/ Leave(o)
  <2>1. /\ turn[o].pc \in {"answering", "storing"} /\ turn[o].answer \in Answer
        /\ Goto(o, "storing") \/ Goto(o, "aborted")
    BY <1>1, <1>3 DEF EndStream, Leave, WellShaped
  <2>2. PICK pc \in {"storing", "aborted"} : Goto(o, pc) BY <2>1
  <2>3. Moves(o) /\ turn'[o] = [turn[o] EXCEPT !.pc = pc]
    BY <2>1, <2>2, GotoMoves DEF Holding
  <2>4. turn'[o].pc = pc BY <1>1, <2>3 DEF WellShaped
  <2> QED BY <2>3, <2>4 DEF Unwinds
<1>4. CASE Store(o) \/ Die(o)
  <2>1. turn' = [turn EXCEPT ![o] = IdleTurn] BY <1>4 DEF Store, Die
  <2>2. IdleTurn.pc = "idle" BY DEF IdleTurn
  <2> QED BY <2>1, <2>2, IdleShaped, MovedShapes DEF Unwinds
<1> QED BY <1>2, <1>3, <1>4

(* What a turn that operates on a Task does to its own row, and to the     *)
(* claim of its message.                                                   *)
Keeps(o) ==
  /\ turn'[o].msg = turn[o].msg /\ turn'[o].op = turn[o].op
  /\ Intends(o)' = Intends(o)

LEMMA IntendsWell ==
  ASSUME Shapes, NEW o \in Turn, turn[o].pc \in {"claiming"} \cup Holding
  PROVE  Intends(o) \in Intent /\ Intends(o).op = turn[o].op
  BY ChatAssumption DEF Shapes, WellShaped, Intends, Intent

LEMMA KeptIntent ==
  ASSUME Shapes, NEW o \in Turn, NEW pc \in {"calling", "answered"},
         turn'[o] = [turn[o] EXCEPT !.pc = pc]
  PROVE  Keeps(o) /\ turn'[o].pc = pc
<1>1. /\ turn'[o].msg = turn[o].msg /\ turn'[o].op = turn[o].op
      /\ turn'[o].task = turn[o].task /\ turn'[o].pc = pc
  BY DEF Shapes, WellShaped
<1> QED BY <1>1 DEF Keeps, Intends

LEMMA ClaimMoves ==
  ASSUME Shapes, NEW o \in Turn, Claim(o)
  PROVE  /\ Moves(o) /\ UNCHANGED sent /\ turn[o].msg \in Message
         /\ \/ /\ turn'[o].pc \in {"answering", "asking", "focusing"}
               /\ UNCHANGED claim
            \/ /\ turn'[o].pc = "calling" /\ Keeps(o)
               /\ ~Held(o) /\ ~claim[turn[o].msg].done
               /\ claim[turn[o].msg].intent \in {None, Intends(o)}
               /\ claim' = [claim EXCEPT ![turn[o].msg].intent = Intends(o)]
<1> DEFINE m == turn[o].msg
           c == claim[m]
           i == Intends(o)
<1>1. /\ WellShaped(turn[o]) /\ turn[o].pc = "claiming"
      /\ m \in Message /\ UNCHANGED sent
  BY DEF Shapes, Claim, WellShaped, Holding
<1>2. /\ turn[o].op \in Mutation \cup {"submit"}
      /\ turn[o].op # "submit" => turn[o].task \in Task
  BY <1>1 DEF WellShaped
<1>3. CASE Say(o) /\ UNCHANGED claim
  BY <1>1, <1>3, SayMoves
<1>4. CASE /\ Goto(o, IF i.op = "submit" THEN "asking" ELSE "focusing")
           /\ UNCHANGED claim
  <2>1. PICK pc \in {"asking", "focusing"} : Goto(o, pc) BY <1>4
  <2>2. Moves(o) /\ turn'[o] = [turn[o] EXCEPT !.pc = pc]
    BY <1>1, <2>1, GotoMoves DEF Holding
  <2>3. turn'[o].pc = pc BY <1>1, <2>2 DEF WellShaped
  <2> QED BY <1>1, <1>4, <2>2, <2>3
<1>5. CASE /\ ~(c.intent # None /\ OtherRequest(c.intent, i))
           /\ ~c.done /\ ~Held(o)
           /\ claim' = [claim EXCEPT ![m].intent = i]
           /\ Goto(o, "calling")
  <2>1. Moves(o) /\ turn'[o] = [turn[o] EXCEPT !.pc = "calling"]
    BY <1>1, <1>2, <1>5, GotoMoves DEF Holding
  <2>2. Keeps(o) /\ turn'[o].pc = "calling" BY <2>1, KeptIntent
  <2>3. c.intent \in {None, i} BY <1>5 DEF OtherRequest
  <2> QED BY <1>1, <1>5, <2>1, <2>2, <2>3
<1> QED BY <1>3, <1>4, <1>5 DEF Claim, Replayed

LEMMA RefuseMoves ==
  ASSUME Shapes, NEW o \in Turn, Refuse(o)
  PROVE  /\ Moves(o) /\ UNCHANGED sent /\ turn[o].msg \in Message
         /\ turn[o].pc = "calling" /\ turn'[o].pc = "answering"
         /\ \/ UNCHANGED claim
            \/ /\ turn[o].op # "submit"
               /\ claim' = [claim EXCEPT ![turn[o].msg] = NoClaim]
<1>1. WellShaped(turn[o]) /\ turn[o].pc = "calling" /\ Say(o) /\ UNCHANGED sent
  BY DEF Shapes, Refuse
<1>2. turn[o].msg \in Message BY <1>1 DEF WellShaped
<1>3. Moves(o) /\ turn'[o].pc = "answering" BY <1>1, SayMoves
<1>4. \/ UNCHANGED claim
      \/ /\ turn[o].op # "submit"
         /\ claim' = [claim EXCEPT ![turn[o].msg] = NoClaim]
  BY DEF Refuse
<1> QED BY <1>1, <1>2, <1>3, <1>4

LEMMA CallMoves ==
  ASSUME Shapes, NEW o \in Turn, Call(o)
  PROVE  /\ Moves(o) /\ Keeps(o) /\ turn[o].msg \in Message
         /\ turn[o].pc = "calling" /\ turn'[o].pc \in {"answered", "binding"}
         /\ sent' = [sent EXCEPT ![turn[o].msg] = @ \cup {Intends(o)}]
         /\ UNCHANGED claim
<1>1. /\ WellShaped(turn[o]) /\ turn[o].pc = "calling" /\ UNCHANGED claim
      /\ sent' = [sent EXCEPT ![turn[o].msg] = @ \cup {Intends(o)}]
  BY DEF Shapes, Call
<1>2. /\ turn[o].msg \in Message
      /\ turn[o].op \in Mutation \cup {"submit"}
      /\ turn[o].op # "submit" => turn[o].task \in Task
  BY <1>1 DEF WellShaped, Holding
<1>3. CASE Goto(o, "answered")
  <2>1. Moves(o) /\ turn'[o] = [turn[o] EXCEPT !.pc = "answered"]
    BY <1>1, <1>2, <1>3, GotoMoves DEF Holding
  <2> QED BY <1>1, <1>2, <2>1, KeptIntent
<1>4. ASSUME NEW t \in Task, turn[o].op = "submit",
             turn' = [turn EXCEPT ![o] = [@ EXCEPT !.pc = "binding", !.task = t]]
      PROVE  Moves(o) /\ Keeps(o) /\ turn'[o].pc = "binding"
  <2> DEFINE v == [turn[o] EXCEPT !.pc = "binding", !.task = t]
  <2>1. turn' = [turn EXCEPT ![o] = v] BY <1>4 DEF Shapes
  <2>2. /\ WellShaped(v) /\ v.pc = "binding"
        /\ v.msg = turn[o].msg /\ v.op = "submit"
    BY <1>1, <1>2, <1>4 DEF WellShaped, Holding
  <2>3. Moves(o) /\ turn'[o] = v BY <2>1, <2>2, MovedShapes
  <2> HIDE DEF v
  <2>4. Intends(o)' = Intends(o)
    BY <1>4, <2>2, <2>3 DEF Intends
  <2> QED BY <1>4, <2>2, <2>3, <2>4 DEF Keeps
<1> QED BY <1>1, <1>2, <1>3, <1>4 DEF Call

LEMMA BindMoves ==
  ASSUME Shapes, NEW o \in Turn, Bind(o)
  PROVE  /\ Moves(o) /\ Keeps(o) /\ UNCHANGED <<claim, sent>>
         /\ turn[o].pc = "binding" /\ turn'[o].pc = "answered"
<1>1. /\ WellShaped(turn[o]) /\ turn[o].pc = "binding" /\ UNCHANGED <<claim, sent>>
      /\ Goto(o, "answered")
  BY DEF Shapes, Bind, effects
<1>2. /\ turn[o].op \in Mutation \cup {"submit"}
      /\ turn[o].op # "submit" => turn[o].task \in Task
  BY <1>1 DEF WellShaped, Holding
<1>3. Moves(o) /\ turn'[o] = [turn[o] EXCEPT !.pc = "answered"]
  BY <1>1, <1>2, GotoMoves DEF Holding
<1> QED BY <1>1, <1>3, KeptIntent

LEMMA EndingMoves ==
  ASSUME Shapes, NEW o \in Turn, Complete(o) \/ Ask(o) \/ Focus(o)
  PROVE  /\ Moves(o) /\ turn'[o].pc \in {"answering", "focusing"}
         /\ UNCHANGED sent /\ turn[o].msg \in Message
         /\ \/ UNCHANGED claim
            \/ /\ turn[o].pc = "answered"
               /\ claim' = [claim EXCEPT ![turn[o].msg].done = TRUE]
<1>1. /\ WellShaped(turn[o]) /\ turn[o].pc \in {"answered", "asking", "focusing"}
      /\ Say(o) \/ Goto(o, "focusing")
      /\ UNCHANGED sent
      /\ \/ UNCHANGED claim
         \/ /\ turn[o].pc = "answered"
            /\ claim' = [claim EXCEPT ![turn[o].msg].done = TRUE]
  BY DEF Shapes, Complete, Ask, Focus, effects
<1>2. turn[o].msg \in Message BY <1>1 DEF WellShaped
<1>3. CASE Say(o)
  BY <1>1, <1>2, <1>3, SayMoves
<1>4. CASE Goto(o, "focusing")
  <2>1. Moves(o) /\ turn'[o] = [turn[o] EXCEPT !.pc = "focusing"]
    BY <1>1, <1>4, GotoMoves DEF Holding
  <2>2. turn'[o].pc = "focusing" BY <1>1, <2>1 DEF WellShaped
  <2> QED BY <1>1, <1>2, <2>1, <2>2
<1> QED BY <1>1, <1>3, <1>4

-----------------------------------------------------------------------------
(* The log only grows, and what is inserted can be found.                  *)
Grows ==
  /\ Len(log) \in Nat /\ Len(log') \in Nat /\ Len(log) <= Len(log')
  /\ \A s \in DOMAIN log : s \in DOMAIN log' /\ log'[s] = log[s]

LEMMA InsertGrows ==
  ASSUME LogOK, NEW id \in Id, NEW c \in Contents, NEW cut \in BOOLEAN,
         L!Insert(id, c, cut)
  PROVE  /\ LogOK' /\ Grows
         /\ L!SequenceOf(id) \in DOMAIN log'
         /\ log'[L!SequenceOf(id)].id = id
         /\ ~L!Clashes(id, c) => log'[L!SequenceOf(id)].content = c
<1> DEFINE row == [id |-> id, content |-> c, truncated |-> cut]
<1>1. row \in L!LogRow BY DEF L!LogRow
<1>2. log \in Seq(L!LogRow) /\ Len(log) \in Nat /\ DOMAIN log = 1..Len(log)
  BY DEF LogOK
<1>3. CASE L!Stored(id)
  <2>1. log' = log BY <1>3 DEF L!Insert
  <2>2. L!SequenceOf(id) \in L!Sequences(id)
    BY <1>3 DEF L!SequenceOf, L!Stored
  <2>3. ~L!Clashes(id, c) => log[L!SequenceOf(id)].content = c
    BY <2>2 DEF L!Clashes
  <2> QED BY <1>2, <2>1, <2>2, <2>3 DEF LogOK, Grows, L!Sequences
<1>4. CASE ~L!Stored(id)
  <2>1. log' = Append(log, row) BY <1>4 DEF L!Insert
  <2>2. L!SequenceOf(id) = Len(log) + 1 BY <1>4 DEF L!SequenceOf
  <2>3. /\ Len(log') = Len(log) + 1 /\ log'[Len(log) + 1] = row
        /\ DOMAIN log' = 1..(Len(log) + 1)
        /\ \A s \in DOMAIN log : s \in DOMAIN log' /\ log'[s] = log[s]
        /\ log' \in Seq(L!LogRow)
    BY <1>1, <1>2, <2>1
  <2>4. \A s \in DOMAIN log : log[s].id # id
    BY <1>4 DEF L!Stored, L!Sequences
  <2>5. row.id = id /\ row.content = c OBVIOUS
  <2> HIDE DEF row
  <2>6. \A s \in DOMAIN log' : s \in DOMAIN log \/ s = Len(log) + 1
    BY <1>2, <2>3
  <2>7. LogOK' BY <2>3, <2>4, <2>5, <2>6 DEF LogOK
  <2>8. Grows BY <1>2, <2>3 DEF Grows
  <2>9. Len(log) + 1 \in DOMAIN log' BY <1>2, <2>3
  <2> QED BY <2>2, <2>3, <2>5, <2>7, <2>8, <2>9
<1> QED BY <1>3, <1>4

LEMMA IdsWell ==
  /\ \A m \in Message : UserId(m) \in Id /\ AssistantId(m) \in Id
  /\ \A m, n \in Message : UserId(m) = UserId(n) => m = n
  BY DEF Id, UserId, AssistantId

LEMMA IngestGrows ==
  ASSUME LogOK, NEW o \in Turn, Ingest(o), turn[o].msg \in Message
  PROVE  /\ LogOK' /\ Grows
         /\ L!SequenceOf(UserId(turn[o].msg)) \in DOMAIN log'
         /\ log'[L!SequenceOf(UserId(turn[o].msg))].id = UserId(turn[o].msg)
<1>1. L!Insert(UserId(turn[o].msg), None, FALSE) BY DEF Ingest
<1>2. UserId(turn[o].msg) \in Id /\ None \in Contents
  BY IdsWell DEF Contents
<1> QED BY <1>1, <1>2, InsertGrows

LEMMA StoreGrows ==
  ASSUME LogOK, Shapes, NEW o \in Turn, Store(o)
  PROVE  /\ LogOK' /\ Grows
         /\ \/ UNCHANGED client
            \/ \E a \in Answer, s \in DOMAIN log' :
                 /\ client' = [client EXCEPT ![turn[o].msg] =
                                 [answer |-> a, done |-> TRUE]]
                 /\ log'[s].id = AssistantId(turn[o].msg)
                 /\ log'[s].content = a
<1> DEFINE m == turn[o].msg
           a == turn[o].answer
           cut == turn[o].pc = "aborted" \/ a.amount = "failed"
<1>1. m \in Message /\ a \in Answer BY DEF Store, Shapes, WellShaped
<1>2. CASE UNCHANGED <<log, client, shown>>
  BY <1>2 DEF LogOK, Grows
<1>3. CASE /\ ~L!Clashes(AssistantId(m), a)
           /\ L!Insert(AssistantId(m), a, cut)
           /\ \/ client' = [client EXCEPT ![m] = [answer |-> a, done |-> TRUE]]
              \/ UNCHANGED client
  <2>1. AssistantId(m) \in Id /\ a \in Contents /\ cut \in BOOLEAN
    BY <1>1, IdsWell DEF Contents
  <2> HIDE DEF cut
  <2>2. /\ LogOK' /\ Grows
        /\ L!SequenceOf(AssistantId(m)) \in DOMAIN log'
        /\ log'[L!SequenceOf(AssistantId(m))].id = AssistantId(m)
        /\ log'[L!SequenceOf(AssistantId(m))].content = a
    BY <1>3, <2>1, InsertGrows
  <2> QED BY <1>1, <1>3, <2>2
<1> QED BY <1>2, <1>3 DEF Store

(* Every other step leaves the log alone, and tells no client that a       *)
(* response is complete.                                                   *)
Untold ==
  \A m \in Message :
    client'[m] = client[m] \/ ~client'[m].done

LEMMA OthersKeepLog ==
  ASSUME Shapes, LogOK, NEW o \in Turn,
         \/ \E m \in Message : Send(o, m)
         \/ Reconcile(o) \/ Load(o) \/ Chat(o) \/ New(o) \/ Target(o)
         \/ Claim(o) \/ Refuse(o) \/ Call(o) \/ Bind(o) \/ Complete(o)
         \/ Ask(o) \/ Focus(o) \/ Publish(o) \/ EndStream(o)
         \/ Fail(o) \/ Leave(o) \/ Die(o)
  PROVE  UNCHANGED log /\ LogOK' /\ Grows /\ Untold
<1>1. UNCHANGED log
  BY DEF Send, Reconcile, Load, Chat, New, Target, Claim, Refuse, Call, Bind,
     Complete, Ask, Focus, Publish, EndStream, Fail, Leave, Die, history
<1>2. CASE UNCHANGED client
  BY <1>1, <1>2 DEF LogOK, Grows, Untold
<1>3. CASE Publish(o)
  <2>1. PICK more : \/ client' = [client EXCEPT ![turn[o].msg] =
                                    [answer |-> more, done |-> FALSE]]
                    \/ UNCHANGED client
    BY <1>3 DEF Publish
  <2>2. Untold BY <2>1 DEF Shapes, Untold
  <2> QED BY <1>1, <2>2 DEF LogOK, Grows
<1> QED
  BY <1>2, <1>3 DEF Send, Reconcile, Load, Chat, New, Target, Claim, Refuse,
     Call, Bind, Complete, Ask, Focus, EndStream, Fail, Leave, Die

-----------------------------------------------------------------------------
(* What turns have read keeps its meaning.                                 *)
LEMMA KeptReads ==
  ASSUME LogOK, Grows, NEW o \in Turn, Reads(turn[o]), turn'[o] = turn[o]
  PROVE  Reads(turn[o])'
<1> DEFINE t == turn[o]
<1>1. t.pc \in {"loading", "deciding"} =>
        t.seq \in DOMAIN log' /\ log'[t.seq].id = UserId(t.msg)
  BY DEF Reads, Grows
<1>2. ASSUME t.pc = "deciding" \/ (t.pc = "loading" /\ "messages" \in t.loaded)
      PROVE  \E k \in t.seq..Len(log') : t.past = NewestOf(k)
  <2>1. PICK k \in t.seq..Len(log) : t.past = NewestOf(k)
    BY <1>2 DEF Reads
  <2>2. t.seq \in Nat BY <1>2 DEF Reads, LogOK
  <2>3. k \in t.seq..Len(log') BY <2>1, <2>2 DEF Grows
  <2> QED BY <2>1, <2>3
<1> QED BY <1>1, <1>2 DEF Reads, UserId, NewestOf

LEMMA MovedLogInv ==
  ASSUME LogInv, LogOK', Grows, Shapes, NEW o \in Turn, Moves(o),
         Reads(turn[o])'
  PROVE  LogInv'
<1>1. \A p \in Turn \ {o} : turn'[p] = turn[p]
  BY DEF Moves, Shapes
<1>2. \A p \in Turn \ {o} : Reads(turn[p])'
  BY <1>1, KeptReads DEF LogInv
<1> QED BY <1>2 DEF LogInv

LEMMA IngestReads ==
  ASSUME Shapes, LogInv, NEW o \in Turn, Ingest(o)
  PROVE  LogInv' /\ UNCHANGED client
<1>1. turn[o].msg \in Message BY DEF Shapes, WellShaped, Ingest
<1>2. /\ Moves(o) /\ turn'[o].pc = "loading" /\ turn'[o].loaded = {}
      /\ turn'[o].msg = turn[o].msg
      /\ turn'[o].seq = L!SequenceOf(UserId(turn[o].msg))
  BY ReadingMoves DEF LogInv
<1>3. /\ LogOK' /\ Grows
      /\ L!SequenceOf(UserId(turn[o].msg)) \in DOMAIN log'
      /\ log'[L!SequenceOf(UserId(turn[o].msg))].id = UserId(turn[o].msg)
  BY <1>1, IngestGrows DEF LogInv
<1>4. Reads(turn[o])' BY <1>2, <1>3 DEF Reads, UserId
<1>5. UNCHANGED client BY DEF Ingest
<1> QED BY <1>2, <1>3, <1>4, <1>5, MovedLogInv

LEMMA LoadReads ==
  ASSUME Shapes, LogInv, NEW o \in Turn, Load(o)
  PROVE  LogInv' /\ UNCHANGED <<log, client>>
<1> DEFINE t == turn[o]
<1>1. /\ Moves(o)
      /\ t.pc = "loading" /\ turn'[o].pc \in {"loading", "deciding"}
      /\ turn'[o].msg = t.msg /\ turn'[o].seq = t.seq
      /\ turn'[o].pc = "deciding" \/ "messages" \in turn'[o].loaded =>
           \/ turn'[o].past = L!Recent(Window)
           \/ turn'[o].past = t.past /\ "messages" \in t.loaded
  BY LoadMoves DEF LogInv
<1>2. UNCHANGED <<log, client>> /\ LogOK' /\ Grows
  BY DEF Load, history, LogInv, LogOK, Grows
<1>3. t.seq \in DOMAIN log /\ log[t.seq].id = UserId(t.msg)
  BY <1>1 DEF LogInv, Reads
<1>4. /\ DOMAIN log = 1..Len(log) /\ Len(log) \in Nat
      /\ Len(log) \in t.seq..Len(log)
  BY <1>3 DEF LogInv, LogOK
<1>5. L!Recent(Window) = NewestOf(Len(log))
  BY <1>4 DEF L!Recent, NewestOf
<1>6. turn'[o].pc = "deciding" \/ "messages" \in turn'[o].loaded =>
        \E k \in t.seq..Len(log) : turn'[o].past = NewestOf(k)
  <2>1. CASE turn'[o].past = L!Recent(Window) BY <1>4, <1>5, <2>1
  <2>2. CASE turn'[o].past = t.past /\ "messages" \in t.loaded
    BY <1>1, <2>2 DEF LogInv, Reads
  <2> QED BY <1>1, <2>1, <2>2
<1>7. Reads(turn[o])'
  BY <1>1, <1>2, <1>3, <1>6 DEF Reads, UserId, NewestOf
<1> QED BY <1>1, <1>2, <1>7, MovedLogInv

LEMMA AwayReads ==
  ASSUME Shapes, LogInv, LogOK', Grows, NEW o \in Turn, Moves(o),
         turn'[o].pc \notin {"loading", "deciding"}
  PROVE  LogInv'
<1>1. Reads(turn[o])' BY DEF Reads
<1> QED BY <1>1, MovedLogInv

(* Where a turn goes that does not read.                                   *)
LEMMA OthersMove ==
  ASSUME Shapes, LogOK, NEW o \in Turn,
         \/ \E m \in Message : Send(o, m)
         \/ Reconcile(o) \/ Chat(o) \/ New(o) \/ Target(o)
         \/ Claim(o) \/ Refuse(o) \/ Call(o) \/ Bind(o) \/ Complete(o)
         \/ Ask(o) \/ Focus(o) \/ Publish(o) \/ EndStream(o)
         \/ Store(o) \/ Fail(o) \/ Leave(o) \/ Die(o)
  PROVE  Moves(o) /\ turn'[o].pc \notin {"loading", "deciding"}
  BY ZenonT(60), ReadingMoves, DecidingMoves, ClaimMoves, RefuseMoves, CallMoves,
     BindMoves, EndingMoves, FailMoves, StreamMoves DEF Unwinds

LEMMA StoredStays ==
  ASSUME Shapes, WholeAnswerIsStored, Grows, Untold
  PROVE  WholeAnswerIsStored'
<1> SUFFICES ASSUME NEW m \in Message, client'[m].done
             PROVE  \E s \in L!Sequences(AssistantId(m))' :
                      log'[s].content = client'[m].answer
  BY DEF WholeAnswerIsStored, AssistantId
<1>1. client'[m] = client[m] BY DEF Untold
<1>2. PICK s \in L!Sequences(AssistantId(m)) : log[s].content = client[m].answer
  BY <1>1 DEF WholeAnswerIsStored
<1>3. s \in L!Sequences(AssistantId(m))'
  BY <1>2 DEF Grows, L!Sequences, AssistantId
<1>4. log'[s].content = client'[m].answer
  BY <1>1, <1>2 DEF Grows, L!Sequences
<1> QED BY <1>3, <1>4

LEMMA StoreStored ==
  ASSUME Shapes, LogOK, WholeAnswerIsStored, NEW o \in Turn, Store(o)
  PROVE  WholeAnswerIsStored'
<1>1. /\ Grows
      /\ \/ UNCHANGED client
         \/ \E a \in Answer, s \in DOMAIN log' :
              /\ client' = [client EXCEPT ![turn[o].msg] =
                              [answer |-> a, done |-> TRUE]]
              /\ log'[s].id = AssistantId(turn[o].msg)
              /\ log'[s].content = a
  BY StoreGrows
<1>2. CASE UNCHANGED client
  BY <1>1, <1>2, StoredStays DEF Untold
<1>3. ASSUME NEW a \in Answer, NEW s \in DOMAIN log',
             client' = [client EXCEPT ![turn[o].msg] =
                          [answer |-> a, done |-> TRUE]],
             log'[s].id = AssistantId(turn[o].msg), log'[s].content = a
      PROVE  WholeAnswerIsStored'
  <2> SUFFICES ASSUME NEW m \in Message, client'[m].done
               PROVE  \E u \in L!Sequences(AssistantId(m))' :
                        log'[u].content = client'[m].answer
    BY DEF WholeAnswerIsStored, AssistantId
  <2>1. turn[o].msg \in Message BY DEF Shapes, WellShaped, Store
  <2>2. CASE m = turn[o].msg
    <3>1. client'[m].answer = a BY <1>3, <2>2 DEF Shapes
    <3>2. s \in L!Sequences(AssistantId(m))'
      BY <1>3, <2>2 DEF L!Sequences, AssistantId
    <3> QED BY <1>3, <3>1, <3>2
  <2>3. CASE m # turn[o].msg
    <3>1. client'[m] = client[m] BY <1>3, <2>1, <2>3 DEF Shapes
    <3>2. PICK u \in L!Sequences(AssistantId(m)) :
            log[u].content = client[m].answer
      BY <3>1 DEF WholeAnswerIsStored
    <3>3. u \in L!Sequences(AssistantId(m))'
      BY <1>1, <3>2 DEF Grows, L!Sequences, AssistantId
    <3>4. log'[u].content = client'[m].answer
      BY <1>1, <3>1, <3>2 DEF Grows, L!Sequences
    <3> QED BY <3>3, <3>4
  <2> QED BY <2>2, <2>3
<1> QED BY <1>1, <1>2, <1>3

-----------------------------------------------------------------------------
(* Who calls SDAR has the claim of the message, and alone.                 *)
LEMMA OthersStand ==
  ASSUME Shapes, NEW o \in Turn, Moves(o)
  PROVE  \A p \in Turn \ {o} :
           turn'[p] = turn[p] /\ Intends(p)' = Intends(p)
  BY DEF Moves, Shapes, Intends

LEMMA QuietClaims ==
  ASSUME Shapes, Claims, NEW o \in Turn, Moves(o), turn'[o].pc \notin Holding,
         UNCHANGED <<claim, sent>>
  PROVE  Claims'
<1>1. \A p \in Turn : turn'[p].pc \in Holding =>
        p # o /\ turn'[p] = turn[p] /\ Intends(p)' = Intends(p)
  BY OthersStand
<1>2. (\A p \in Turn : turn[p].pc \in Holding =>
         /\ claim[turn[p].msg].intent = Intends(p)
         /\ ~claim[turn[p].msg].done)'
  BY <1>1 DEF Claims, Holding
<1> QED BY <1>1, <1>2 DEF Claims, Holding

(* The claim of a message nobody else works on is changed, and the turn    *)
(* holds it or leaves.                                                     *)
LEMMA ChangedClaim ==
  ASSUME Shapes, Claims, NEW o \in Turn, Moves(o), UNCHANGED sent,
         turn[o].msg \in Message,
         \A p \in Turn \ {o} :
           turn[p].pc \in Holding => turn[p].msg # turn[o].msg,
         NEW c, claim' = [claim EXCEPT ![turn[o].msg] = c],
         turn'[o].pc \in Holding =>
           /\ turn'[o].msg = turn[o].msg
           /\ c.intent = Intends(o)' /\ ~c.done,
         \A i \in sent[turn[o].msg] : i.op = "submit" => c.intent = i
  PROVE  Claims'
<1> DEFINE m == turn[o].msg
<1>1. claim'[m] = c /\ \A n \in Message \ {m} : claim'[n] = claim[n]
  BY DEF Shapes
<1>2. \A p \in Turn \ {o} : turn'[p] = turn[p] /\ Intends(p)' = Intends(p)
  BY OthersStand
<1>3. \A p \in Turn : turn[p].pc \in Holding => turn[p].msg \in Message
  BY DEF Shapes, WellShaped, Holding
<1>4. ASSUME NEW p \in Turn, turn'[p].pc \in Holding
      PROVE  /\ claim'[turn'[p].msg].intent = Intends(p)'
             /\ ~claim'[turn'[p].msg].done
  <2>1. CASE p = o BY <1>1, <1>4, <2>1
  <2>2. CASE p # o
    <3>1. /\ turn'[p] = turn[p] /\ Intends(p)' = Intends(p)
          /\ turn[p].pc \in Holding
      BY <1>2, <1>4, <2>2
    <3>2. turn[p].msg \in Message \ {m} BY <1>3, <2>2, <3>1
    <3> QED BY <1>1, <3>1, <3>2 DEF Claims
  <2> QED BY <2>1, <2>2
<1>5. ASSUME NEW p \in Turn, NEW q \in Turn,
             turn'[p].pc \in Holding, turn'[q].pc \in Holding,
             turn'[p].msg = turn'[q].msg
      PROVE  p = q
  BY <1>2, <1>5 DEF Claims
<1>6. ASSUME NEW n \in Message, NEW i \in sent[n], i.op = "submit"
      PROVE  claim'[n].intent = i
  BY <1>1, <1>6 DEF Claims
<1> QED BY <1>4, <1>5, <1>6 DEF Claims, Holding

LEMMA ClaimClaims ==
  ASSUME Shapes, Claims, NEW o \in Turn, Claim(o)
  PROVE  Claims'
<1> DEFINE m == turn[o].msg
<1>1. Moves(o) /\ UNCHANGED sent /\ m \in Message BY ClaimMoves
<1>2. CASE /\ turn'[o].pc \in {"answering", "asking", "focusing"}
           /\ UNCHANGED claim
  BY <1>1, <1>2, QuietClaims DEF Holding
<1>3. CASE /\ turn'[o].pc = "calling" /\ Keeps(o)
           /\ ~Held(o) /\ ~claim[m].done
           /\ claim[m].intent \in {None, Intends(o)}
           /\ claim' = [claim EXCEPT ![m].intent = Intends(o)]
  <2> DEFINE c == [claim[m] EXCEPT !.intent = Intends(o)]
  <2>1. claim' = [claim EXCEPT ![m] = c] BY <1>3
  <2>2. c.intent = Intends(o) /\ ~c.done BY <1>1, <1>3 DEF Shapes
  <2>3. \A p \in Turn \ {o} : turn[p].pc \in Holding => turn[p].msg # m
    BY <1>3 DEF Held, Holding
  <2>4. \A i \in sent[m] : i.op = "submit" => c.intent = i
    <3>1. \A i \in sent[m] : i \in Intent BY <1>1 DEF Shapes
    <3>2. None \notin Intent BY ChatAssumption
    <3> QED BY <1>1, <1>3, <2>2, <3>1, <3>2 DEF Claims
  <2>5. Intends(o)' = Intends(o) /\ turn'[o].msg = m BY <1>3 DEF Keeps
  <2> HIDE DEF c
  <2> QED BY <1>1, <2>1, <2>2, <2>3, <2>4, <2>5, ChangedClaim
<1> QED BY <1>2, <1>3, ClaimMoves

LEMMA SoleHolder ==
  ASSUME Claims, NEW o \in Turn, turn[o].pc \in Holding
  PROVE  /\ \A p \in Turn \ {o} :
              turn[p].pc \in Holding => turn[p].msg # turn[o].msg
         /\ claim[turn[o].msg].intent = Intends(o)
         /\ ~claim[turn[o].msg].done
  BY DEF Claims

LEMMA RefuseClaims ==
  ASSUME Shapes, Claims, NEW o \in Turn, Refuse(o)
  PROVE  Claims'
<1> DEFINE m == turn[o].msg
<1>1. /\ Moves(o) /\ UNCHANGED sent /\ m \in Message
      /\ turn[o].pc = "calling" /\ turn'[o].pc = "answering"
  BY RefuseMoves
<1>2. CASE UNCHANGED claim
  BY <1>1, <1>2, QuietClaims DEF Holding
<1>3. CASE turn[o].op # "submit" /\ claim' = [claim EXCEPT ![m] = NoClaim]
  <2>1. turn[o].pc \in Holding BY <1>1 DEF Holding
  <2>2. Intends(o).op # "submit" BY <1>3, <2>1, IntendsWell
  <2>3. \A i \in sent[m] : i.op # "submit"
    BY <1>1, <2>1, <2>2, SoleHolder DEF Claims
  <2>4. turn'[o].pc \notin Holding BY <1>1 DEF Holding
  <2>5. \A p \in Turn \ {o} : turn[p].pc \in Holding => turn[p].msg # m
    BY <2>1, SoleHolder
  <2> QED BY <1>1, <1>3, <2>3, <2>4, <2>5, ChangedClaim
<1> QED BY <1>2, <1>3, RefuseMoves

LEMMA CompleteClaims ==
  ASSUME Shapes, Claims, NEW o \in Turn, Complete(o) \/ Ask(o) \/ Focus(o)
  PROVE  Claims'
<1> DEFINE m == turn[o].msg
<1>1. /\ Moves(o) /\ turn'[o].pc \notin Holding
      /\ UNCHANGED sent /\ m \in Message
  BY EndingMoves DEF Holding
<1>2. CASE UNCHANGED claim BY <1>1, <1>2, QuietClaims
<1>3. CASE /\ turn[o].pc = "answered"
           /\ claim' = [claim EXCEPT ![m].done = TRUE]
  <2> DEFINE c == [claim[m] EXCEPT !.done = TRUE]
  <2>1. claim' = [claim EXCEPT ![m] = c] BY <1>3
  <2>2. c.intent = claim[m].intent BY <1>1 DEF Shapes
  <2>3. \A i \in sent[m] : i.op = "submit" => c.intent = i
    BY <1>1, <2>2 DEF Claims
  <2>4. \A p \in Turn \ {o} : turn[p].pc \in Holding => turn[p].msg # m
    BY <1>3, SoleHolder DEF Holding
  <2> HIDE DEF c
  <2> QED BY <1>1, <2>1, <2>3, <2>4, ChangedClaim
<1> QED BY <1>2, <1>3, EndingMoves

LEMMA BindClaims ==
  ASSUME Shapes, Claims, NEW o \in Turn, Bind(o)
  PROVE  Claims'
<1> DEFINE m == turn[o].msg
<1>1. /\ Moves(o) /\ Keeps(o) /\ UNCHANGED <<claim, sent>>
      /\ turn[o].pc = "binding" /\ turn'[o].pc = "answered"
  BY BindMoves
<1>2. m \in Message BY <1>1 DEF Shapes, WellShaped
<1>3. turn[o].pc \in Holding BY <1>1 DEF Holding
<1>4. claim' = [claim EXCEPT ![m] = claim[m]] BY <1>1, <1>2 DEF Shapes
<1>5. claim[m] \in [intent : Intent \cup {None}, done : BOOLEAN]
  BY <1>2 DEF Shapes
<1>6. turn'[o].msg = m /\ Intends(o)' = Intends(o) BY <1>1 DEF Keeps
<1>7. \A i \in sent[m] : i.op = "submit" => claim[m].intent = i
  BY <1>2 DEF Claims
<1>8. /\ \A p \in Turn \ {o} : turn[p].pc \in Holding => turn[p].msg # m
      /\ claim[m].intent = Intends(o) /\ ~claim[m].done
  BY <1>3, SoleHolder
<1>9. turn'[o].pc \in Holding =>
        /\ turn'[o].msg = m
        /\ claim[m].intent = Intends(o)' /\ ~claim[m].done
  BY <1>6, <1>8
<1> DEFINE c == claim[m]
<1> HIDE DEF c
<1> QED BY <1>1, <1>2, <1>4, <1>7, <1>8, <1>9, ChangedClaim DEF c

LEMMA CallClaims ==
  ASSUME Shapes, Claims, NEW o \in Turn, Call(o)
  PROVE  /\ Claims'
         /\ ~claim[turn[o].msg].done
         /\ (\E i \in sent[turn[o].msg] : i.op = "submit") => UNCHANGED sent
<1> DEFINE m == turn[o].msg
<1>1. /\ Moves(o) /\ Keeps(o) /\ m \in Message
      /\ turn[o].pc = "calling" /\ turn'[o].pc \in {"answered", "binding"}
      /\ sent' = [sent EXCEPT ![m] = @ \cup {Intends(o)}]
      /\ UNCHANGED claim
  BY CallMoves
<1>2. turn[o].pc \in Holding /\ turn'[o].pc \in Holding BY <1>1 DEF Holding
<1>3. /\ claim[m].intent = Intends(o) /\ ~claim[m].done
      /\ \A p \in Turn \ {o} : turn[p].pc \in Holding => turn[p].msg # m
  BY <1>2, SoleHolder
<1>4. \A p \in Turn \ {o} : turn'[p] = turn[p] /\ Intends(p)' = Intends(p)
  BY <1>1, OthersStand
<1>5. turn'[o].msg = m /\ Intends(o)' = Intends(o) BY <1>1 DEF Keeps
<1>6. ASSUME NEW p \in Turn, turn'[p].pc \in Holding
      PROVE  /\ claim'[turn'[p].msg].intent = Intends(p)'
             /\ ~claim'[turn'[p].msg].done
  BY <1>1, <1>2, <1>3, <1>4, <1>5, <1>6 DEF Claims
<1>7. ASSUME NEW p \in Turn, NEW q \in Turn,
             turn'[p].pc \in Holding, turn'[q].pc \in Holding,
             turn'[p].msg = turn'[q].msg
      PROVE  p = q
  BY <1>2, <1>4, <1>5, <1>7 DEF Claims
<1>8. ASSUME NEW n \in Message, NEW i \in sent'[n], i.op = "submit"
      PROVE  claim'[n].intent = i
  <2>1. i \in sent[n] \/ (n = m /\ i = Intends(o)) BY <1>1, <1>8 DEF Shapes
  <2> QED BY <1>1, <1>3, <1>8, <2>1 DEF Claims
<1>9. Claims' BY <1>6, <1>7, <1>8 DEF Claims, Holding
<1>10. ASSUME NEW i \in sent[m], i.op = "submit"
       PROVE  UNCHANGED sent
  <2>1. i = Intends(o) BY <1>1, <1>3, <1>10 DEF Claims
  <2> QED BY <1>1, <1>10, <2>1 DEF Shapes
<1> QED BY <1>3, <1>9, <1>10

-----------------------------------------------------------------------------
(* The initial states.                                                     *)
LEMMA InitShapes == Init => Shapes
<1> SUFFICES ASSUME Init PROVE Shapes OBVIOUS
<1>1. PastAnswer \in Answer
  BY ChatAssumption DEF PastAnswer, Answer, Amount
<1>2. client \in [Message -> [answer : Contents, done : BOOLEAN]]
  BY <1>1 DEF Init, NoResponse, Contents
<1>3. claim \in [Message -> [intent : Intent \cup {None}, done : BOOLEAN]]
  BY DEF Init, NoClaim
<1>4. /\ DOMAIN turn = Turn /\ turn = [o \in Turn |-> turn[o]]
      /\ \A o \in Turn : turn[o] = IdleTurn
  BY DEF Init
<1>5. sent \in [Message -> SUBSET Intent] BY DEF Init
<1>6. summary.through \in Nat /\ refresh.through \in Nat
  BY DEF Init, L!NoSummary
<1> QED BY <1>2, <1>3, <1>4, <1>5, <1>6, IdleShaped DEF Shapes

LEMMA InitLog == Init => LogInv /\ WholeAnswerIsStored
<1> SUFFICES ASSUME Init PROVE LogInv /\ WholeAnswerIsStored OBVIOUS
<1>1. /\ Messages \in Nat /\ Answered \in Nat /\ Answered <= Messages
      /\ PastAnswer \in Contents /\ None \in Contents
  BY ChatAssumption DEF PastAnswer, Answer, Amount, Contents
<1>2. /\ DOMAIN log = 1..(2 * Answered) /\ log = PastLog
      /\ \A s \in 1..(2 * Answered) : log[s] = PastLog[s]
  BY DEF Init, PastLog
<1>3. \A s \in 1..(2 * Answered) :
        /\ s % 2 = 1 => (s + 1) \div 2 \in Message
        /\ s % 2 # 1 => s \div 2 \in Message
  BY <1>1 DEF Message
<1>4. \A s \in 1..(2 * Answered) : log[s] \in L!LogRow
  <2> TAKE s \in 1..(2 * Answered)
  <2>1. CASE s % 2 = 1
    <3>1. log[s] = [id |-> UserId((s + 1) \div 2), content |-> None,
                    truncated |-> FALSE]
      BY <1>2, <2>1 DEF PastLog
    <3> QED BY <1>1, <1>3, <2>1, <3>1, IdsWell DEF L!LogRow
  <2>2. CASE s % 2 # 1
    <3>1. log[s] = [id |-> AssistantId(s \div 2), content |-> PastAnswer,
                    truncated |-> FALSE]
      BY <1>2, <2>2 DEF PastLog
    <3> QED BY <1>1, <1>3, <2>2, <3>1, IdsWell DEF L!LogRow
  <2> QED BY <2>1, <2>2
<1>5. log \in Seq(L!LogRow) /\ Len(log) = 2 * Answered
  BY <1>1, <1>2, <1>4 DEF PastLog
<1>6. ASSUME NEW s \in DOMAIN log, NEW u \in DOMAIN log, log[s].id = log[u].id
      PROVE  s = u
  <2>1. \A x \in DOMAIN log :
          log[x].id = IF x % 2 = 1 THEN <<"user", (x + 1) \div 2>>
                                   ELSE <<"assistant", x \div 2>>
    BY <1>2 DEF PastLog, UserId, AssistantId
  <2>2. \/ s % 2 = 1 /\ u % 2 = 1 /\ (s + 1) \div 2 = (u + 1) \div 2
        \/ s % 2 # 1 /\ u % 2 # 1 /\ s \div 2 = u \div 2
    <3> DEFINE name(x) == IF x % 2 = 1 THEN "user" ELSE "assistant"
               number(x) == IF x % 2 = 1 THEN (x + 1) \div 2 ELSE x \div 2
    <3>1. \A x \in DOMAIN log : log[x].id = <<name(x), number(x)>>
      BY <2>1
    <3>2. <<name(s), number(s)>> = <<name(u), number(u)>>
      BY <1>6, <3>1
    <3>3. name(s) = name(u) /\ number(s) = number(u)
      <4> HIDE DEF name, number
      <4> QED BY <3>2
    <3> QED BY <3>3
  <2>3. s \in Nat /\ u \in Nat
    BY <1>1, <1>2
  <2>4. \A x \in Nat : /\ x % 2 = 1 => 2 * ((x + 1) \div 2) = x + 1
                       /\ x % 2 # 1 => 2 * (x \div 2) = x
    OBVIOUS
  <2>5. CASE s % 2 = 1 /\ u % 2 = 1
    <3>1. 2 * ((s + 1) \div 2) = s + 1 /\ 2 * ((u + 1) \div 2) = u + 1
      BY <2>3, <2>4, <2>5
    <3>2. (s + 1) \div 2 = (u + 1) \div 2
      BY <2>2, <2>5
    <3>3. s + 1 = u + 1
      BY <3>1, <3>2
    <3> QED BY <2>3, <3>3
  <2>6. CASE s % 2 # 1 /\ u % 2 # 1
    <3>1. 2 * (s \div 2) = s /\ 2 * (u \div 2) = u
      BY <2>3, <2>4, <2>6
    <3>2. s \div 2 = u \div 2
      BY <2>2, <2>6
    <3> QED BY <3>1, <3>2
  <2> QED BY <2>2, <2>5, <2>6
<1>7. \A o \in Turn : turn[o].pc = "idle"
  BY DEF Init, IdleTurn
<1>8. LogInv BY <1>5, <1>6, <1>7 DEF LogInv, LogOK, Reads
<1>9. ASSUME NEW m \in Message, client[m].done
      PROVE  \E s \in L!Sequences(AssistantId(m)) :
               log[s].content = client[m].answer
  <2>1. m <= Answered /\ client[m].answer = PastAnswer
    BY <1>9 DEF Init, NoResponse
  <2>2. 2 * m \in DOMAIN log /\ (2 * m) % 2 # 1 /\ (2 * m) \div 2 = m
    BY <1>1, <1>2, <2>1 DEF Message
  <2>3. log[2 * m] = [id |-> AssistantId(m), content |-> PastAnswer,
                      truncated |-> FALSE]
    BY <1>2, <2>2 DEF PastLog
  <2>4. 2 * m \in L!Sequences(AssistantId(m))
    BY <2>2, <2>3 DEF L!Sequences
  <2> QED BY <2>1, <2>3, <2>4
<1> QED BY <1>8, <1>9 DEF WholeAnswerIsStored

LEMMA InitIInv == Init => IInv
<1> SUFFICES ASSUME Init PROVE Claims
  BY InitShapes, InitLog DEF IInv
<1>1. \A o \in Turn : turn[o].pc = "idle" BY DEF Init, IdleTurn
<1>2. \A m \in Message : sent[m] = {} BY DEF Init
<1> QED BY <1>1, <1>2 DEF Claims, Holding

-----------------------------------------------------------------------------
(* Every step preserves the invariant.                                     *)
LEMMA KeptShapes ==
  ASSUME Shapes, NEW o \in Turn, Moves(o), UNCHANGED <<summary, refresh>>,
         (client \in [Message -> [answer : Contents, done : BOOLEAN]])',
         (claim \in [Message -> [intent : Intent \cup {None}, done : BOOLEAN]])',
         (sent \in [Message -> SUBSET Intent])'
  PROVE  Shapes'
<1>1. \A p \in Turn \ {o} : turn'[p] = turn[p] BY DEF Moves, Shapes
<1>2. DOMAIN turn' = Turn /\ turn' = [p \in Turn |-> turn'[p]]
  BY DEF Moves, Shapes
<1>3. \A p \in Turn \ {o} : WellShaped(turn'[p]) BY <1>1 DEF Shapes
<1>4. WellShaped(turn'[o]) BY DEF Moves
<1>5. \A p \in Turn : WellShaped(turn[p])'
  BY <1>3, <1>4 DEF WellShaped, Contents, Answer, Amount, Holding, Loads,
     Operation, Message
<1> QED
  BY <1>2, <1>5 DEF Shapes, Message, Contents, Answer, Amount, Intent

LEMMA ClientKeepsShape ==
  ASSUME Shapes, NEW o \in Turn, Publish(o) \/ Store(o), LogOK
  PROVE  client' \in [Message -> [answer : Contents, done : BOOLEAN]]
<1>1. turn[o].msg \in Message /\ turn[o].answer \in Contents
      /\ turn[o].pc \in {"answering", "storing", "aborted"}
      /\ turn[o].answer \in Answer
  BY DEF Shapes, WellShaped, Publish, Store
<1>2. CASE Publish(o)
  <2> DEFINE a == turn[o].answer
             more == [a EXCEPT !.amount = IF @ = "none" THEN "part" ELSE "whole"]
  <2>1. more \in Contents BY <1>1 DEF Contents, Answer, Amount
  <2>2. \/ client' = [client EXCEPT ![turn[o].msg] =
                        [answer |-> more, done |-> FALSE]]
        \/ UNCHANGED client
    BY <1>2 DEF Publish
  <2> HIDE DEF more
  <2> DEFINE r == [answer |-> more, done |-> FALSE]
  <2>3. r \in [answer : Contents, done : BOOLEAN] BY <2>1
  <2>4. client' = [client EXCEPT ![turn[o].msg] = r] \/ client' = client
    BY <2>2
  <2> HIDE DEF r
  <2> QED BY <1>1, <2>3, <2>4 DEF Shapes
<1>3. CASE Store(o)
  <2>1. \/ UNCHANGED client
        \/ client' = [client EXCEPT ![turn[o].msg] =
                        [answer |-> turn[o].answer, done |-> TRUE]]
    BY <1>3 DEF Store
  <2> DEFINE r == [answer |-> turn[o].answer, done |-> TRUE]
  <2>2. r \in [answer : Contents, done : BOOLEAN] BY <1>1
  <2>3. client' = [client EXCEPT ![turn[o].msg] = r] \/ client' = client
    BY <2>1
  <2> HIDE DEF r
  <2> QED BY <1>1, <2>2, <2>3 DEF Shapes
<1> QED BY <1>2, <1>3

LEMMA ClaimKeepsShape ==
  ASSUME Shapes, NEW o \in Turn,
         Claim(o) \/ Refuse(o) \/ Call(o) \/ Complete(o)
  PROVE  /\ claim' \in [Message -> [intent : Intent \cup {None}, done : BOOLEAN]]
         /\ sent' \in [Message -> SUBSET Intent]
<1>1. CASE Claim(o)
  <2>1. Intends(o) \in Intent BY <1>1, IntendsWell DEF Claim
  <2>2. UNCHANGED sent /\ turn[o].msg \in Message BY <1>1, ClaimMoves
  <2> DEFINE r == [claim[turn[o].msg] EXCEPT !.intent = Intends(o)]
  <2>3. r \in [intent : Intent \cup {None}, done : BOOLEAN]
    BY <2>1, <2>2 DEF Shapes
  <2>4. claim' = claim \/ claim' = [claim EXCEPT ![turn[o].msg] = r]
    BY <1>1, ClaimMoves
  <2> HIDE DEF r
  <2> QED BY <2>2, <2>3, <2>4 DEF Shapes
<1>2. CASE Refuse(o)
  <2>1. NoClaim \in [intent : Intent \cup {None}, done : BOOLEAN]
    BY DEF NoClaim
  <2> QED BY <1>2, <2>1, RefuseMoves DEF Shapes
<1>3. CASE Call(o)
  <2>1. Intends(o) \in Intent BY <1>3, IntendsWell DEF Call, Holding
  <2> QED BY <1>3, <2>1, CallMoves DEF Shapes
<1>4. CASE Complete(o)
  <2>1. UNCHANGED sent /\ turn[o].msg \in Message BY <1>4, EndingMoves
  <2> DEFINE r == [claim[turn[o].msg] EXCEPT !.done = TRUE]
  <2>2. r \in [intent : Intent \cup {None}, done : BOOLEAN]
    BY <2>1 DEF Shapes
  <2>3. claim' = claim \/ claim' = [claim EXCEPT ![turn[o].msg] = r]
    BY <1>4, EndingMoves
  <2> HIDE DEF r
  <2> QED BY <2>1, <2>2, <2>3 DEF Shapes
<1> QED BY <1>1, <1>2, <1>3, <1>4

TurnStep(o) ==
  Step(o) \/ Fail(o) \/ Leave(o) \/ Die(o) \/ \E m \in Message : Send(o, m)

LEMMA StepShapes ==
  ASSUME Shapes, LogOK, NEW o \in Turn, TurnStep(o)
  PROVE  Shapes'
<1>1. Moves(o)
  BY OthersMove, ReadingMoves, LoadMoves DEF TurnStep, Step
<1>2. UNCHANGED <<summary, refresh>>
  BY DEF TurnStep, Step, Send, Reconcile, Ingest, Load, Chat, New, Target,
     Claim, Refuse, Call, Bind, Complete, Ask, Focus, Publish, EndStream,
     Store, Fail, Leave, Die, history
<1>3. client' \in [Message -> [answer : Contents, done : BOOLEAN]]
  <2>1. CASE Publish(o) \/ Store(o) BY <2>1, ClientKeepsShape
  <2>2. CASE UNCHANGED client BY <2>2 DEF Shapes
  <2> QED
    BY <2>1, <2>2 DEF TurnStep, Step, Send, Reconcile, Ingest, Load, Chat, New,
       Target, Claim, Refuse, Call, Bind, Complete, Ask, Focus, EndStream,
       Fail, Leave, Die
<1>4. /\ claim' \in [Message -> [intent : Intent \cup {None}, done : BOOLEAN]]
      /\ sent' \in [Message -> SUBSET Intent]
  <2>1. CASE Claim(o) \/ Refuse(o) \/ Call(o) \/ Complete(o)
    BY <2>1, ClaimKeepsShape
  <2>2. CASE UNCHANGED <<claim, sent>> BY <2>2 DEF Shapes
  <2> QED
    BY <2>1, <2>2 DEF TurnStep, Step, Send, Reconcile, Ingest, Load, Chat, New,
       Target, Bind, Ask, Focus, Publish, EndStream, Store, Fail, Leave, Die,
       effects
<1>5. /\ (client \in [Message -> [answer : Contents, done : BOOLEAN]])'
      /\ (claim \in [Message -> [intent : Intent \cup {None},
                                 done : BOOLEAN]])'
      /\ (sent \in [Message -> SUBSET Intent])'
  BY <1>3, <1>4 DEF Message, Contents, Answer, Amount, Intent
<1> QED BY <1>1, <1>2, <1>5, KeptShapes

LEMMA StepLog ==
  ASSUME IInv, NEW o \in Turn, TurnStep(o)
  PROVE  LogInv' /\ WholeAnswerIsStored'
<1>1. Shapes /\ LogInv /\ LogOK /\ WholeAnswerIsStored BY DEF IInv, LogInv
<1>2. CASE Ingest(o)
  <2>1. LogInv' /\ UNCHANGED client BY <1>1, <1>2, IngestReads
  <2>2. turn[o].msg \in Message BY <1>1, <1>2 DEF Shapes, WellShaped, Ingest
  <2>3. Grows BY <1>1, <1>2, <2>2, IngestGrows
  <2> QED BY <1>1, <2>1, <2>3, StoredStays DEF Untold
<1>3. CASE Load(o)
  <2>1. LogInv' /\ UNCHANGED <<log, client>> BY <1>1, <1>3, LoadReads
  <2>2. Grows /\ Untold BY <1>1, <1>3, OthersKeepLog
  <2> QED BY <1>1, <2>1, <2>2, StoredStays
<1>4. CASE Store(o)
  <2>1. LogOK' /\ Grows BY <1>1, <1>4, StoreGrows
  <2>2. Moves(o) /\ turn'[o].pc \notin {"loading", "deciding"}
    BY <1>1, <1>4, OthersMove
  <2> QED BY <1>1, <1>4, <2>1, <2>2, AwayReads, StoreStored
<1>5. CASE ~Ingest(o) /\ ~Load(o) /\ ~Store(o)
  <2>1. LogOK' /\ Grows /\ Untold
    BY <1>1, <1>5, OthersKeepLog DEF TurnStep, Step
  <2>2. Moves(o) /\ turn'[o].pc \notin {"loading", "deciding"}
    BY <1>1, <1>5, OthersMove DEF TurnStep, Step
  <2> QED BY <1>1, <2>1, <2>2, AwayReads, StoredStays
<1> QED BY <1>2, <1>3, <1>4, <1>5

LEMMA StepClaims ==
  ASSUME IInv, NEW o \in Turn, TurnStep(o)
  PROVE  Claims'
<1>1. Shapes /\ LogOK /\ Claims BY DEF IInv, LogInv
<1>2. CASE \/ Claim(o) \/ Refuse(o) \/ Call(o) \/ Bind(o) \/ Complete(o)
           \/ Ask(o) \/ Focus(o)
  BY <1>1, <1>2, ClaimClaims, RefuseClaims, CallClaims, BindClaims,
     CompleteClaims
<1>3. CASE \/ \E m \in Message : Send(o, m)
           \/ Reconcile(o) \/ Ingest(o) \/ Load(o) \/ Chat(o) \/ New(o)
           \/ Target(o) \/ Publish(o) \/ EndStream(o) \/ Store(o) \/ Fail(o)
           \/ Leave(o) \/ Die(o)
  <2>1. Moves(o) /\ turn'[o].pc \notin Holding
    BY <1>1, <1>3, ReadingMoves, LoadMoves, DecidingMoves, FailMoves,
       StreamMoves DEF Holding, Unwinds
  <2>2. UNCHANGED <<claim, sent>>
    BY <1>3 DEF Send, Reconcile, Ingest, Load, Chat, New, Target, Publish,
       EndStream, Store, Fail, Leave, Die, effects
  <2> QED BY <1>1, <2>1, <2>2, QuietClaims
<1> QED BY <1>2, <1>3 DEF TurnStep, Step

LEMMA OutsideIInv ==
  ASSUME IInv, TaskEnds \/ BeginRefresh \/ SaveRefresh \/ UNCHANGED vars
  PROVE  IInv'
<1>1. UNCHANGED <<log, claim, sent, client, turn>>
  BY DEF TaskEnds, BeginRefresh, SaveRefresh, vars, history, effects
<1>2. summary'.through \in Nat /\ refresh'.through \in Nat
  <2>1. summary.through \in Nat /\ refresh.through \in Nat
        /\ Len(log) \in Nat /\ DOMAIN log \subseteq Nat
    BY DEF IInv, Shapes, LogInv, LogOK
  <2>2. CASE TaskEnds \/ UNCHANGED vars
    BY <2>1, <2>2 DEF TaskEnds, vars, history
  <2>3. CASE BeginRefresh
    <3>1. PICK n \in L!Unsummarized :
            refresh' = [pc |-> "saving", version |-> summary.version,
                        through |-> n]
      BY <2>3 DEF BeginRefresh
    <3>2. n \in Nat /\ UNCHANGED summary
      BY <2>1, <2>3, <3>1 DEF L!Unsummarized, BeginRefresh
    <3> QED BY <2>1, <3>1, <3>2
  <2>4. CASE SaveRefresh
    <3>1. summary' = summary \/ summary'.through = refresh.through
      BY <2>4 DEF SaveRefresh, L!SaveSummary
    <3>2. refresh' = [refresh EXCEPT !.pc = "idle"] BY <2>4 DEF SaveRefresh
    <3>3. refresh'.through = refresh.through BY <3>2
    <3> QED BY <2>1, <3>1, <3>3
  <2> QED BY <2>2, <2>3, <2>4
<1>3. Shapes'
  BY <1>1, <1>2 DEF IInv, Shapes, WellShaped, Message, Contents, Answer,
     Amount, Intent, Loads, Operation, Holding
<1>4. LogInv'
  BY <1>1 DEF IInv, LogInv, LogOK, Reads, NewestOf, UserId, L!LogRow, Id,
     AssistantId, Message, Contents, Answer, Amount
<1>5. WholeAnswerIsStored'
  BY <1>1 DEF IInv, WholeAnswerIsStored, L!Sequences, AssistantId, Message
<1>6. Claims'
  BY <1>1 DEF IInv, Claims, Holding, Intends, Message
<1> QED BY <1>3, <1>4, <1>5, <1>6 DEF IInv

LEMMA NextIInv == IInv /\ [Next]_vars => IInv'
<1> SUFFICES ASSUME IInv, [Next]_vars PROVE IInv' OBVIOUS
<1>1. ASSUME NEW o \in Turn, TurnStep(o) PROVE IInv'
  BY <1>1, StepShapes, StepLog, StepClaims DEF IInv, LogInv
<1>2. CASE TaskEnds \/ BeginRefresh \/ SaveRefresh \/ UNCHANGED vars
  BY <1>2, OutsideIInv
<1> QED BY <1>1, <1>2 DEF Next, TurnStep

THEOREM Invariance == Spec => []IInv
<1>1. Init => IInv BY InitIInv
<1>2. IInv /\ [Next]_vars => IInv' BY NextIInv
<1> QED BY <1>1, <1>2, PTL DEF Spec

-----------------------------------------------------------------------------
(* A client that was told that a response is complete holds what is stored,*)
(* whatever other turns of the same message have written meanwhile.        *)
THEOREM AnswersAreStored == Spec => []WholeAnswerIsStored
<1>1. IInv => WholeAnswerIsStored BY DEF IInv
<1> QED BY <1>1, Invariance, PTL

(* Of a finite set of positions, one that is later has no more positions   *)
(* after it.                                                               *)
LEMMA LaterHasFewer ==
  ASSUME NEW S \in SUBSET Nat, IsFiniteSet(S), NEW s \in S, NEW u \in S, u > s
  PROVE  Cardinality({v \in S : v > u}) <= Cardinality({v \in S : v > s})
<1>1. {v \in S : v > u} \subseteq {v \in S : v > s}
  <2>1. \A v \in Nat : v > u => v > s OBVIOUS
  <2> QED BY <2>1
<1>2. IsFiniteSet({v \in S : v > s}) BY FS_Subset
<1>3. /\ Cardinality({v \in S : v > u}) \in Nat
      /\ Cardinality({v \in S : v > s}) \in Nat
  BY <1>1, <1>2, FS_Subset, FS_CardinalityType
<1> QED BY <1>1, <1>2, <1>3, FS_Subset

LEMMA SameCardinality == \A S : L!Cardinality(S) = Cardinality(S)
  BY DEF L!Cardinality, Cardinality

LEMMA ReadsTheLog == IInv => ContextHasNoGap
<1> SUFFICES ASSUME IInv, NEW o \in Turn, turn[o].pc = "deciding"
             PROVE
    LET before == {s \in DOMAIN log :
                     \E n \in L!Sequences(UserId(turn[o].msg)) : s < n}
        uncovered == {s \in before : s > turn[o].through}
    IN  /\ \A c \in Context(o) : \A s \in c.messages :
             /\ s \in before /\ s > c.summary
             /\ \A u \in before : u > s => u \in c.messages
        /\ Len(log) <= Window =>
             [summary |-> turn[o].through,
              messages |-> L!Newest(uncovered, Budget)] \in Context(o)
  BY DEF ContextHasNoGap
<1> DEFINE t == turn[o]
           before == {s \in DOMAIN log :
                        \E n \in L!Sequences(UserId(t.msg)) : s < n}
           uncovered == {s \in before : s > t.through}
           E == L!Eligible(t.past, t.through, t.seq)
<1>1. /\ LogOK /\ t.seq \in DOMAIN log /\ log[t.seq].id = UserId(t.msg)
      /\ t.through \in Nat
      /\ \E k \in t.seq..Len(log) : t.past = NewestOf(k)
  BY DEF IInv, LogInv, Reads, Shapes, WellShaped
<1>2. /\ DOMAIN log = 1..Len(log) /\ Len(log) \in Nat /\ t.seq \in 1..Len(log)
      /\ Window \in Nat /\ Budget \in Nat
  BY <1>1, ChatAssumption DEF LogOK
<1>3. PICK k \in t.seq..Len(log) : t.past = NewestOf(k) BY <1>1
<1>4. k \in Nat /\ t.seq <= k /\ k <= Len(log) BY <1>2, <1>3
<1>5. L!Sequences(UserId(t.msg)) = {t.seq}
  BY <1>1 DEF LogOK, L!Sequences
<1>6. before = {s \in 1..Len(log) : s < t.seq}
  BY <1>2, <1>5
<1>7. E = {s \in 1..k : s + Window > k /\ s > t.through /\ s < t.seq}
  BY <1>3 DEF L!Eligible, NewestOf
<1>8. E \in SUBSET Nat /\ IsFiniteSet(E)
  <2>1. E \subseteq 1..k BY <1>7
  <2>2. IsFiniteSet(1..k) BY <1>4, FS_Interval
  <2> QED BY <1>4, <2>1, <2>2, FS_Subset
<1>9. ASSUME NEW s \in E
      PROVE  /\ s \in before /\ s > t.through /\ s > 0
             /\ \A u \in before : u > s => u \in E
  <2>1. /\ s \in 1..k /\ s + Window > k /\ s > t.through /\ s < t.seq
    BY <1>7
  <2>2. ASSUME NEW u \in before, u > s PROVE u \in E
    <3>1. u \in 1..Len(log) /\ u < t.seq BY <1>6
    <3> QED BY <1>1, <1>2, <1>4, <1>7, <2>1, <2>2, <3>1
  <2> QED BY <1>2, <1>4, <1>6, <2>1, <2>2
<1> HIDE DEF E, before
<1>10. ASSUME NEW n \in 0..Budget, NEW s \in L!Newest(E, n)
       PROVE  /\ s \in E
              /\ \A u \in E : u > s => u \in L!Newest(E, n)
  <2>1. L!Newest(E, n) = {v \in E : Cardinality({w \in E : w > v}) < n}
    BY SameCardinality DEF L!Newest
  <2>2. s \in E /\ Cardinality({v \in E : v > s}) < n BY <2>1
  <2>3. ASSUME NEW u \in E, u > s PROVE u \in L!Newest(E, n)
    <3>1. Cardinality({v \in E : v > u}) <= Cardinality({v \in E : v > s})
      BY <1>8, <2>2, <2>3, LaterHasFewer
    <3>2. /\ IsFiniteSet({v \in E : v > s}) /\ IsFiniteSet({v \in E : v > u})
      BY <1>8, FS_Subset
    <3>3. /\ Cardinality({v \in E : v > u}) \in Nat
          /\ Cardinality({v \in E : v > s}) \in Nat
      BY <3>2, FS_CardinalityType
    <3>4. Cardinality({v \in E : v > u}) < n
      BY <1>2, <2>2, <3>1, <3>3
    <3> QED BY <2>1, <3>4
  <2> QED BY <2>2, <2>3
<1>11. Context(o) = [summary : {0, t.through},
                     messages : {L!Newest(E, n) : n \in 0..Budget}]
  BY DEF Context, E
<1>12. ASSUME NEW c \in Context(o), NEW s \in c.messages
       PROVE  /\ s \in before /\ s > c.summary
              /\ \A u \in before : u > s => u \in c.messages
  <2>1. c.summary \in {0, t.through} BY <1>11
  <2>2. PICK n \in 0..Budget : c.messages = L!Newest(E, n) BY <1>11
  <2>3. s \in E /\ \A u \in E : u > s => u \in c.messages
    BY <1>10, <2>2
  <2>4. /\ s \in before /\ s > t.through /\ s > 0
        /\ \A u \in before : u > s => u \in E
    BY <1>9, <2>3
  <2> QED BY <2>1, <2>3, <2>4
<1>13. ASSUME Len(log) <= Window
       PROVE  [summary |-> t.through,
               messages |-> L!Newest(uncovered, Budget)] \in Context(o)
  <2>1. \A s \in 1..Len(log) : s < t.seq => s \in 1..k /\ s + Window > k
    BY <1>2, <1>4, <1>13
  <2>2. E = uncovered
    BY <1>2, <1>4, <1>6, <1>7, <2>1 DEF before
  <2>3. L!Newest(E, Budget) \in {L!Newest(E, n) : n \in 0..Budget}
    BY <1>2
  <2> HIDE DEF uncovered
  <2> QED BY <1>11, <2>2, <2>3
<1> QED BY <1>12, <1>13 DEF before

(* As messages the model is given the conversation as it was before the    *)
(* message of the turn, without a gap and without what the summary tells   *)
(* too, whenever the turn has read it.                                     *)
THEOREM ContextsHaveNoGap == Spec => []ContextHasNoGap
  BY Invariance, ReadsTheLog, PTL

(* A message whose operation is completed, or that made a submission, makes*)
(* SDAR do nothing else, whatever the model decides when it comes again.   *)
THEOREM OperationsStayFinal == Spec => OperationIsFinal
<1>1. ASSUME IInv, [Next]_vars
      PROVE  [\A m \in Message :
                (claim[m].done \/ \E i \in sent[m] : i.op = "submit")
                  => sent'[m] = sent[m]]_vars
  <2>1. CASE \E o \in Turn : Call(o)
    <3>1. PICK o \in Turn : Call(o) BY <2>1
    <3>2. /\ ~claim[turn[o].msg].done
          /\ (\E i \in sent[turn[o].msg] : i.op = "submit") => UNCHANGED sent
      BY <1>1, <3>1, CallClaims DEF IInv
    <3>3. \A m \in Message \ {turn[o].msg} : sent'[m] = sent[m]
      BY <1>1, <3>1, CallMoves DEF IInv, Shapes
    <3> QED BY <3>2, <3>3
  <2>2. CASE UNCHANGED sent BY <2>2
  <2> QED
    BY ZenonT(60), <1>1, <2>1, <2>2 DEF Next, Step, Send, Reconcile, Ingest, Load, Chat,
       New, Target, Claim, Refuse, Bind, Complete, Ask, Focus, Publish,
       EndStream, Store, Fail, Leave, Die, TaskEnds, BeginRefresh,
       SaveRefresh, effects, vars
<1> QED BY <1>1, Invariance, PTL DEF Spec, OperationIsFinal

-----------------------------------------------------------------------------
(* What rests on an answer of SDAR: the focus, the completed claim of a    *)
(* mutation, and a turn that is about to bind, complete or focus.          *)
ClaimKnown(c, known) ==
  c.done => /\ c.intent # None
            /\ c.intent.op # "submit" => c.intent.task \in known

TurnKnows(t, known) ==
  (t.pc \in {"binding", "focusing"} \/ (t.pc = "answered" /\ t.op # "submit"))
    => t.task \in known

Heard ==
  /\ FocusIsHeard
  /\ \A m \in Message : ClaimKnown(claim[m], heard)
  /\ \A o \in Turn : TurnKnows(turn[o], heard)

LEMMA InitHeard == Init => Heard
  BY DEF Init, Heard, FocusIsHeard, ClaimKnown, TurnKnows, NoClaim, IdleTurn

(* A step of a turn keeps it if what it writes has been heard.             *)
LEMMA KeptHeard ==
  ASSUME Shapes, Heard, NEW o \in Turn, Moves(o), heard \subseteq heard',
         focus' = focus \/ focus' \in heard',
         \A m \in Message :
           claim'[m] = claim[m] \/ ClaimKnown(claim'[m], heard'),
         TurnKnows(turn'[o], heard')
  PROVE  Heard'
<1>1. FocusIsHeard' BY DEF Heard, FocusIsHeard
<1>2. \A m \in Message : ClaimKnown(claim'[m], heard')
  BY DEF Heard, ClaimKnown
<1>3. \A p \in Turn \ {o} : turn'[p] = turn[p] BY OthersStand
<1>4. \A p \in Turn : TurnKnows(turn'[p], heard')
  BY <1>3 DEF Heard, TurnKnows
<1> QED BY <1>1, <1>2, <1>4 DEF Heard, ClaimKnown, TurnKnows, Message

LEMMA ClaimHeard ==
  ASSUME Shapes, Heard, NEW o \in Turn, Claim(o)
  PROVE  Heard'
<1> DEFINE m == turn[o].msg
           c == claim[m]
           i == Intends(o)
<1>1. Moves(o) /\ m \in Message /\ UNCHANGED <<heard, focus>>
  BY ClaimMoves DEF Claim, directory
<1>2. \A n \in Message :
        claim'[n] = claim[n] \/ ClaimKnown(claim'[n], heard')
  <2>1. CASE UNCHANGED claim BY <2>1
  <2>2. CASE /\ ~c.done
             /\ claim' = [claim EXCEPT ![m].intent = i]
    <3>1. ~claim'[m].done /\ \A n \in Message \ {m} : claim'[n] = claim[n]
      BY <1>1, <2>2 DEF Shapes
    <3> QED BY <3>1 DEF ClaimKnown
  <2> QED BY <2>1, <2>2, ClaimMoves
<1>3. CASE turn'[o].pc \in {"answering", "asking", "calling"}
  <2>1. TurnKnows(turn'[o], heard') BY <1>3 DEF TurnKnows
  <2> QED BY <1>1, <1>2, <2>1, KeptHeard
<1>4. CASE turn'[o].pc = "focusing"
  <2>1. /\ turn[o].pc = "claiming" /\ turn[o].pc # "idle"
        /\ turn[o].op \in Mutation \cup {"submit"}
    BY DEF Claim, Shapes, WellShaped
  <2>2. ~Say(o) BY <1>4, <2>1, SayMoves
  <2>3. /\ c.done /\ ~(c.intent # None /\ OtherRequest(c.intent, i))
        /\ i.op # "submit" /\ Goto(o, "focusing")
    <3>1. ~Goto(o, "asking") /\ ~Goto(o, "calling")
      <4>1. ASSUME NEW pc \in {"asking", "calling"}, Goto(o, pc) PROVE FALSE
        <5>1. turn'[o].pc = pc BY <4>1 DEF Goto, Shapes, WellShaped
        <5> QED BY <1>4, <4>1, <5>1
      <4> QED BY <4>1
    <3> QED BY <2>2, <3>1 DEF Claim, Replayed
  <2>4. c.intent = i /\ i.task \in heard
    BY <1>1, <2>3 DEF Heard, ClaimKnown, OtherRequest
  <2>5. i.op = turn[o].op /\ i.task = turn[o].task
    BY <2>3 DEF Intends
  <2>6. turn'[o].task = turn[o].task
    BY <2>3 DEF Goto, Shapes, WellShaped
  <2>7. TurnKnows(turn'[o], heard')
    BY <1>1, <2>4, <2>5, <2>6 DEF TurnKnows
  <2> QED BY <1>1, <1>2, <2>7, KeptHeard
<1> QED BY <1>3, <1>4, ClaimMoves

LEMMA CallHeard ==
  ASSUME Shapes, Heard, NEW o \in Turn, Call(o)
  PROVE  Heard'
<1>1. Moves(o) /\ UNCHANGED <<claim, focus>> /\ WellShaped(turn[o])
  BY CallMoves DEF Call, directory, Shapes
<1>2. CASE /\ Goto(o, "answered") /\ heard' = heard \cup {turn[o].task}
  <2>1. turn'[o].task = turn[o].task
    BY <1>1, <1>2 DEF Goto, Shapes, WellShaped
  <2>2. TurnKnows(turn'[o], heard') BY <1>2, <2>1 DEF TurnKnows
  <2> QED BY <1>1, <1>2, <2>2, KeptHeard
<1>3. ASSUME NEW t \in Task, heard' = heard \cup {t},
             turn' = [turn EXCEPT ![o] = [@ EXCEPT !.pc = "binding", !.task = t]]
      PROVE  Heard'
  <2>1. turn'[o].task = t BY <1>1, <1>3 DEF Shapes, WellShaped
  <2>2. TurnKnows(turn'[o], heard') BY <1>3, <2>1 DEF TurnKnows
  <2> QED BY <1>1, <1>3, <2>2, KeptHeard
<1> QED BY <1>2, <1>3 DEF Call

LEMMA BindHeard ==
  ASSUME Shapes, Heard, NEW o \in Turn, Bind(o)
  PROVE  Heard'
<1>1. /\ Moves(o) /\ UNCHANGED <<claim, heard>> /\ turn[o].pc = "binding"
      /\ turn[o].task \in heard
  <2>1. Moves(o) /\ turn[o].pc = "binding" BY BindMoves
  <2>2. UNCHANGED <<claim, heard>> BY DEF Bind, effects
  <2>3. TurnKnows(turn[o], heard) BY DEF Heard
  <2> QED BY <2>1, <2>2, <2>3 DEF TurnKnows
<1>2. focus' = focus \/ focus' = turn[o].task
  BY DEF Bind, D!BindTask, directory
<1>3. turn'[o].task = turn[o].task
  BY DEF Bind, Goto, Shapes, WellShaped
<1>4. TurnKnows(turn'[o], heard') BY <1>1, <1>3 DEF TurnKnows
<1> QED BY <1>1, <1>2, <1>4, KeptHeard

LEMMA CompleteHeard ==
  ASSUME Shapes, Claims, Heard, NEW o \in Turn, Complete(o)
  PROVE  Heard'
<1> DEFINE m == turn[o].msg
<1>1. /\ Moves(o) /\ UNCHANGED <<heard, focus>> /\ turn[o].pc = "answered"
      /\ m \in Message /\ turn[o].pc # "idle"
      /\ claim' = [claim EXCEPT ![m].done = TRUE]
  BY EndingMoves DEF Complete, directory
<1>2. claim[m].intent = Intends(o) /\ Intends(o) \in Intent
      /\ Intends(o).op = turn[o].op
  BY <1>1, IntendsWell DEF Claims, Holding
<1>3. turn[o].op # "submit" => turn[o].task \in heard
  BY <1>1 DEF Heard, TurnKnows
<1>4. /\ claim'[m].intent = claim[m].intent
      /\ \A n \in Message \ {m} : claim'[n] = claim[n]
  BY <1>1 DEF Shapes
<1>5. ClaimKnown(claim'[m], heard')
  <2>1. Intends(o) # None BY <1>2, ChatAssumption
  <2>2. turn[o].op # "submit" => Intends(o).task = turn[o].task
    BY DEF Intends
  <2> QED BY <1>1, <1>2, <1>3, <1>4, <2>1, <2>2 DEF ClaimKnown
<1>6. \A n \in Message :
        claim'[n] = claim[n] \/ ClaimKnown(claim'[n], heard')
  BY <1>4, <1>5
<1>7. CASE turn[o].op = "submit" /\ Say(o)
  <2>1. turn'[o].pc = "answering" BY <1>1, <1>7, SayMoves
  <2>2. TurnKnows(turn'[o], heard') BY <2>1 DEF TurnKnows
  <2> QED BY <1>1, <1>6, <2>2, KeptHeard
<1>8. CASE turn[o].op # "submit" /\ Goto(o, "focusing")
  <2>1. turn'[o].task = turn[o].task BY <1>8 DEF Goto, Shapes, WellShaped
  <2>2. TurnKnows(turn'[o], heard') BY <1>1, <1>3, <1>8, <2>1 DEF TurnKnows
  <2> QED BY <1>1, <1>6, <2>2, KeptHeard
<1> QED BY <1>7, <1>8 DEF Complete

LEMMA AskHeard ==
  ASSUME Shapes, Heard, NEW o \in Turn, Ask(o)
  PROVE  Heard'
<1>1. /\ Moves(o) /\ UNCHANGED <<claim, focus>> /\ turn[o].pc = "asking"
  BY EndingMoves DEF Ask, directory
<1>2. CASE Goto(o, "focusing") /\ heard' = heard \cup {turn[o].task}
  <2>1. turn'[o].task = turn[o].task BY <1>2 DEF Goto, Shapes, WellShaped
  <2>2. TurnKnows(turn'[o], heard') BY <1>2, <2>1 DEF TurnKnows
  <2> QED BY <1>1, <1>2, <2>2, KeptHeard
<1>3. CASE Say(o) /\ UNCHANGED heard
  <2>1. turn'[o].pc = "answering" BY <1>1, <1>3, SayMoves
  <2>2. TurnKnows(turn'[o], heard') BY <2>1 DEF TurnKnows
  <2> QED BY <1>1, <1>3, <2>2, KeptHeard
<1> QED BY <1>2, <1>3 DEF Ask

LEMMA FocusHeard ==
  ASSUME Shapes, Heard, NEW o \in Turn, Focus(o)
  PROVE  Heard'
<1>1. /\ Moves(o) /\ UNCHANGED <<claim, heard>> /\ turn[o].pc = "focusing"
      /\ turn[o].task \in heard /\ focus' = turn[o].task
  <2>1. Moves(o) BY EndingMoves
  <2>2. /\ turn[o].pc = "focusing" /\ focus' = turn[o].task
        /\ UNCHANGED <<claim, heard>>
    BY DEF Focus, effects, D!FocusTask
  <2>3. TurnKnows(turn[o], heard) BY DEF Heard
  <2> QED BY <2>1, <2>2, <2>3 DEF TurnKnows
<1>2. turn'[o].pc = "answering" BY <1>1, SayMoves DEF Focus
<1>3. TurnKnows(turn'[o], heard') BY <1>2 DEF TurnKnows
<1> QED BY <1>1, <1>3, KeptHeard

LEMMA RefuseHeard ==
  ASSUME Shapes, Heard, NEW o \in Turn, Refuse(o)
  PROVE  Heard'
<1>1. /\ Moves(o) /\ UNCHANGED <<heard, focus>> /\ turn'[o].pc = "answering"
      /\ turn[o].msg \in Message
      /\ UNCHANGED claim \/ claim' = [claim EXCEPT ![turn[o].msg] = NoClaim]
  BY RefuseMoves DEF Refuse, directory
<1>2. ClaimKnown(NoClaim, heard') BY DEF ClaimKnown, NoClaim
<1>3. \A m \in Message :
        claim'[m] = claim[m] \/ ClaimKnown(claim'[m], heard')
  BY <1>1, <1>2 DEF Shapes
<1>4. TurnKnows(turn'[o], heard') BY <1>1 DEF TurnKnows
<1> QED BY <1>1, <1>3, <1>4, KeptHeard

LEMMA QuietHeard ==
  ASSUME Shapes, LogOK, Heard, NEW o \in Turn,
         \/ \E m \in Message : Send(o, m)
         \/ Reconcile(o) \/ Ingest(o) \/ Load(o) \/ Chat(o) \/ New(o)
         \/ Target(o) \/ Publish(o) \/ EndStream(o) \/ Store(o) \/ Fail(o)
         \/ Leave(o) \/ Die(o)
  PROVE  Heard'
<1>1. Moves(o) /\ turn'[o].pc \notin Holding \cup {"focusing"}
  BY ReadingMoves, LoadMoves, DecidingMoves, FailMoves, StreamMoves
     DEF Holding, Unwinds
<1>2. UNCHANGED <<claim, heard, focus>>
  BY DEF Send, Reconcile, Ingest, Load, Chat, New, Target, Publish, EndStream,
     Store, Fail, Leave, Die, effects, directory, D!TouchTask
<1>3. TurnKnows(turn'[o], heard') BY <1>1 DEF TurnKnows, Holding
<1> QED BY <1>1, <1>2, <1>3, KeptHeard

LEMMA NextHeard == IInv /\ Heard /\ [Next]_vars => Heard'
<1> SUFFICES ASSUME IInv, Heard, [Next]_vars PROVE Heard' OBVIOUS
<1>1. Shapes /\ LogOK /\ Claims BY DEF IInv, LogInv
<1>2. ASSUME NEW o \in Turn, TurnStep(o) PROVE Heard'
  BY <1>1, <1>2, ClaimHeard, RefuseHeard, CallHeard, BindHeard, CompleteHeard,
     AskHeard, FocusHeard, QuietHeard DEF TurnStep, Step
<1>3. CASE TaskEnds \/ BeginRefresh \/ SaveRefresh \/ UNCHANGED vars
  <2>1. UNCHANGED <<focus, claim, heard, turn>>
    BY <1>3 DEF TaskEnds, D!EndTask, BeginRefresh, SaveRefresh, vars,
       directory, effects
  <2> QED
    BY <2>1 DEF Heard, FocusIsHeard, ClaimKnown, TurnKnows, Message
<1> QED BY <1>2, <1>3 DEF Next, TurnStep

(* Focus is only on a Task that SDAR has answered a turn about, even when  *)
(* a mutation is replayed and the turn that focuses asks SDAR nothing.     *)
THEOREM FocusIsAnswered == Spec => []FocusIsHeard
<1>1. Init => IInv /\ Heard BY InitIInv, InitHeard
<1>2. (IInv /\ Heard) /\ [Next]_vars => (IInv /\ Heard)'
  BY NextIInv, NextHeard
<1>3. IInv /\ Heard => FocusIsHeard BY DEF Heard
<1> QED BY <1>1, <1>2, <1>3, PTL DEF Spec
=============================================================================
