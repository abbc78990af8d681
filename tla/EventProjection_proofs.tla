----------------------- MODULE EventProjection_proofs -----------------------
(***************************************************************************)
(* Proofs about EventProjection for any Tasks, statuses, messages,         *)
(* artifacts and number of observations.                                   *)
(*                                                                         *)
(* The invariants are about the line: what was sent and what is pending    *)
(* behind it. Sending moves an event along the line and leaves it as it    *)
(* is, so only the steps that create events change what is said of it.     *)
(***************************************************************************)
EXTENDS EventProjection, SequenceTheorems, FiniteSetTheorems,
        WellFoundedInduction, TLAPS

-----------------------------------------------------------------------------
(* The factory numbers the drafts that it accepts in their order: Nth is    *)
(* the k-th member of a finite set of positions.                           *)
LEMMA Least ==
  ASSUME NEW S \in SUBSET Nat, S # {}
  PROVE  \E i \in S : \A j \in S : i <= j
<1> DEFINE R == {x \in Nat \X Nat : x[1] < x[2]}
<1>0. R = OpToRel(<, Nat)
  BY DEF OpToRel
<1>1. IsWellFoundedOn(R, Nat)
  BY <1>0, NatLessThanWellFounded
<1>2. \E x \in S : \A y \in S : ~(<<y, x>> \in R)
  BY <1>1, WFMin, Zenon
<1>3. \A x \in Nat, y \in Nat : ~(<<y, x>> \in R) => x <= y
  OBVIOUS
<1> HIDE DEF R
<1> QED BY <1>2, <1>3

UpTo(S, i) == {j \in S : j <= i}

LEMMA UpToFacts ==
  ASSUME NEW n \in Nat, NEW S \in SUBSET (1..n)
  PROVE  /\ IsFiniteSet(S) /\ Cardinality(S) \in Nat
         /\ \A i : /\ IsFiniteSet(UpTo(S, i))
                   /\ Cardinality(UpTo(S, i)) \in 0..Cardinality(S)
<1>1. IsFiniteSet(1..n)
  BY FS_Interval
<1>2. IsFiniteSet(S) /\ Cardinality(S) \in Nat
  BY <1>1, FS_Subset, FS_CardinalityType
<1>3. ASSUME NEW i
      PROVE  /\ IsFiniteSet(UpTo(S, i))
             /\ Cardinality(UpTo(S, i)) \in 0..Cardinality(S)
  <2>1. UpTo(S, i) \subseteq S
    BY DEF UpTo
  <2>2. /\ IsFiniteSet(UpTo(S, i))
        /\ Cardinality(UpTo(S, i)) <= Cardinality(S)
    BY <2>1, <1>2, FS_Subset
  <2>3. Cardinality(UpTo(S, i)) \in Nat
    BY <2>2, FS_CardinalityType
  <2> QED BY <2>2, <2>3, <1>2
<1> QED BY <1>2, <1>3

(* A later member has more members up to it.                               *)
LEMMA UpToGrows ==
  ASSUME NEW n \in Nat, NEW S \in SUBSET (1..n), NEW i \in S, NEW j \in S, i < j
  PROVE  Cardinality(UpTo(S, i)) < Cardinality(UpTo(S, j))
<1>1. UpTo(S, i) \subseteq UpTo(S, j) /\ UpTo(S, i) # UpTo(S, j)
  <2>1. \A k \in S : k <= i => k <= j
    OBVIOUS
  <2>2. j \in UpTo(S, j) /\ j \notin UpTo(S, i)
    BY DEF UpTo
  <2> QED BY <2>1, <2>2 DEF UpTo
<1>2. IsFiniteSet(UpTo(S, j))
  BY UpToFacts
<1>3. /\ Cardinality(UpTo(S, i)) <= Cardinality(UpTo(S, j))
      /\ Cardinality(UpTo(S, i)) = Cardinality(UpTo(S, j))
           => UpTo(S, i) = UpTo(S, j)
  BY <1>1, <1>2, FS_Subset
<1>4. Cardinality(UpTo(S, i)) \in Nat /\ Cardinality(UpTo(S, j)) \in Nat
  BY UpToFacts
<1> QED BY <1>1, <1>3, <1>4

LEMMA SomeIsNth ==
  ASSUME NEW n \in Nat, NEW S \in SUBSET (1..n), NEW k \in 1..Cardinality(S)
  PROVE  \E i \in S : Cardinality(UpTo(S, i)) = k
<1> DEFINE Enough == {i \in Nat : Cardinality(UpTo(S, i)) >= k}
<1>0. /\ IsFiniteSet(S) /\ Cardinality(S) \in Nat
      /\ \A i : /\ IsFiniteSet(UpTo(S, i))
                /\ Cardinality(UpTo(S, i)) \in 0..Cardinality(S)
  BY UpToFacts
<1>1. UpTo(S, n) = S
  <2>1. \A j \in S : j <= n
    OBVIOUS
  <2> QED BY <2>1 DEF UpTo
<1>2. n \in Enough
  BY <1>0, <1>1
<1>3. PICK i \in Enough : \A j \in Enough : i <= j
  <2>1. Enough \in SUBSET Nat /\ Enough # {}
    BY <1>2
  <2> HIDE DEF Enough
  <2> QED BY <2>1, Least
<1>4. i \in Nat /\ Cardinality(UpTo(S, i)) >= k
  BY <1>3
<1>5. i # 0
  <2>1. UpTo(S, 0) = {}
    <3>1. \A j \in S : ~(j <= 0)
      OBVIOUS
    <3> QED BY <3>1 DEF UpTo
  <2>2. Cardinality(UpTo(S, 0)) = 0
    BY <2>1, FS_EmptySet
  <2> QED BY <1>4, <2>2
<1>6. i - 1 \in Nat /\ ~(i - 1 \in Enough)
  BY <1>3, <1>4, <1>5
<1>7. Cardinality(UpTo(S, i - 1)) < k
  BY <1>6, <1>0
<1>8. i \in S /\ UpTo(S, i) = UpTo(S, i - 1) \cup {i}
  <2>1. ASSUME i \notin S PROVE FALSE
    <3>1. \A j \in S : j <= i <=> j <= i - 1
      BY <2>1, <1>4
    <3>2. UpTo(S, i) = UpTo(S, i - 1)
      BY <3>1 DEF UpTo
    <3> QED BY <3>2, <1>4, <1>7, <1>0
  <2>2. \A j \in S : j <= i <=> j <= i - 1 \/ j = i
    BY <1>4
  <2> QED BY <2>1, <2>2 DEF UpTo
<1>9. i \notin UpTo(S, i - 1)
  BY <1>4 DEF UpTo
<1>10. Cardinality(UpTo(S, i)) = Cardinality(UpTo(S, i - 1)) + 1
  BY <1>8, <1>9, <1>0, FS_AddElement
<1> QED BY <1>4, <1>7, <1>8, <1>10, <1>0

LEMMA NthFacts ==
  ASSUME NEW n \in Nat, NEW S \in SUBSET (1..n)
  PROVE  /\ \A k \in 1..Cardinality(S) : Nth(S, k) \in S
         /\ \A k, l \in 1..Cardinality(S) : k < l => Nth(S, k) < Nth(S, l)
         /\ \A i \in S : \E k \in 1..Cardinality(S) : Nth(S, k) = i
<1>0. Cardinality(S) \in Nat
  BY UpToFacts
<1>1. ASSUME NEW k \in 1..Cardinality(S)
      PROVE  Nth(S, k) \in S /\ Cardinality(UpTo(S, Nth(S, k))) = k
  <2>1. \E i \in S : Cardinality({j \in S : j <= i}) = k
    BY SomeIsNth DEF UpTo
  <2> QED BY <2>1 DEF Nth, UpTo
<1>2. ASSUME NEW k \in 1..Cardinality(S), NEW l \in 1..Cardinality(S), k < l
      PROVE  Nth(S, k) < Nth(S, l)
  <2> DEFINE a == Nth(S, k) b == Nth(S, l)
  <2>1. a \in S /\ b \in S /\ Cardinality(UpTo(S, a)) = k
        /\ Cardinality(UpTo(S, b)) = l
    BY <1>1
  <2>2. a < b
    <3> HIDE DEF a, b
    <3>1. k \in Nat /\ l \in Nat
      BY <1>0
    <3>2. b < a => l < k
      BY <2>1, UpToGrows
    <3>3. a \in Nat /\ b \in Nat
      BY <2>1
    <3> QED BY <2>1, <3>1, <3>2, <3>3, <1>2
  <2> QED BY <2>2
<1>3. ASSUME NEW i \in S
      PROVE  \E k \in 1..Cardinality(S) : Nth(S, k) = i
  <2> DEFINE k == Cardinality(UpTo(S, i)) a == Nth(S, k)
  <2>1. k \in 1..Cardinality(S)
    <3>1. k \in 0..Cardinality(S) /\ IsFiniteSet(UpTo(S, i))
      BY UpToFacts
    <3>2. UpTo(S, i) # {}
      BY DEF UpTo
    <3>3. k # 0
      BY <3>1, <3>2, FS_EmptySet
    <3> QED BY <3>1, <3>3, <1>0
  <2>2. a \in S /\ Cardinality(UpTo(S, a)) = k
    BY <1>1, <2>1
  <2>3. ~(a < i) /\ ~(i < a)
    <3> HIDE DEF a
    <3>1. k \in Nat
      BY <2>1, <1>0
    <3> QED BY <2>2, <3>1, UpToGrows
  <2>4. a = i
    <3> HIDE DEF a
    <3> QED BY <2>2, <2>3
  <2> QED BY <2>1, <2>4
<1> QED BY <1>1, <1>2, <1>3
-----------------------------------------------------------------------------
(* What drafts and events are made of.                                     *)
Action == {"patch_goal", "cancel_goal", "pause", "resume", "provide_input",
           "confirm_plan", "reject_plan", "revise_plan"}
Statuses == Status \cup {Working}
States == {s.state : s \in Status}

Body == {None} \cup Task \cup Statuses \cup (SUBSET Action) \cup Message
        \cup Artifact \cup States

Key == {None} \cup ({"bound", "snapshot"} \X Task) \cup ({"status"} \X Statuses)
       \cup ({"actions"} \X SUBSET Action) \cup ({"message"} \X Message)
       \cup ({"artifact"} \X {a.id : a \in Artifact})
       \cup ({"input"} \X {s.phase : s \in Status}) \cup {<<"gap">>}

EventType ==
  {"run.started", "run.finished", "run.error", "task.bound", "task.snapshot",
   "task.status_changed", "allowed_actions.changed", "message.text",
   "artifact.text", "input.required", "capability.gap", "observation.ended"}

StatusEvent == {"task.snapshot", "task.status_changed"}

Sound(e) ==
  /\ e.type \in StatusEvent => e.body \in Statuses
  /\ e.type = "allowed_actions.changed" => e.body \in SUBSET Action

DraftOK == {d \in [type : EventType, key : Key, body : Body] : Sound(d)}
Event ==
  {e \in [type : EventType, body : Body, sequence : Nat \cup {None}] : Sound(e)}
Numbered == {e \in Event : e.sequence \in Nat}

(* Every event comes from an accepted draft of its own, in their order, and *)
(* every accepted draft makes one.                                         *)
ComesFrom(events, drafts, origin) ==
  /\ origin \in [DOMAIN events -> Made(drafts)]
  /\ \A n \in DOMAIN events : /\ events[n].type = drafts[origin[n]].type
                              /\ events[n].body = drafts[origin[n]].body
  /\ \A m, n \in DOMAIN events : m < n => origin[m] < origin[n]
  /\ \A i \in Made(drafts) : \E n \in DOMAIN events : origin[n] = i

Origins(drafts) == [DOMAIN Created(drafts).events -> Made(drafts)]

LEMMA CreatedFacts ==
  ASSUME NEW drafts \in Seq(DraftOK), factory.sequence \in Nat
  PROVE  /\ Created(drafts).events \in Seq(Numbered)
         /\ Created(drafts).sequence \in Nat
         /\ Created(drafts).keys =
              factory.keys \cup ({drafts[i].key : i \in Made(drafts)} \ {None})
         /\ \E origin \in Origins(drafts) :
              ComesFrom(Created(drafts).events, drafts, origin)
<1> DEFINE S == Made(drafts)
           c == Cardinality(S)
           events == Created(drafts).events
           origin == [n \in 1..c |-> Nth(S, n)]
<1>1. Len(drafts) \in Nat /\ DOMAIN drafts = 1..Len(drafts)
      /\ S \in SUBSET (1..Len(drafts))
  BY DEF Made
<1>2. /\ c \in Nat
      /\ \A k \in 1..c : Nth(S, k) \in S
      /\ \A k, l \in 1..c : k < l => Nth(S, k) < Nth(S, l)
      /\ \A i \in S : \E k \in 1..c : Nth(S, k) = i
  <2> HIDE DEF S
  <2> QED BY <1>1, UpToFacts, NthFacts
<1>3. events = [n \in 1..c |->
                  [type |-> drafts[Nth(S, n)].type,
                   body |-> drafts[Nth(S, n)].body,
                   sequence |-> factory.sequence + (n - 1)]]
  BY DEF Created
<1>4. \A n \in 1..c : /\ drafts[Nth(S, n)].type \in EventType
                      /\ drafts[Nth(S, n)].body \in Body
                      /\ factory.sequence + (n - 1) \in Nat
                      /\ Sound(drafts[Nth(S, n)])
  <2> SUFFICES ASSUME NEW n \in 1..c
               PROVE  /\ drafts[Nth(S, n)] \in DraftOK
                      /\ factory.sequence + (n - 1) \in Nat
    BY DEF DraftOK
  <2>1. Nth(S, n) \in 1..Len(drafts)
    BY <1>1, <1>2
  <2>2. factory.sequence + (n - 1) \in Nat
    <3> HIDE DEF c
    <3> QED BY <1>2
  <2> HIDE DEF S, c
  <2> QED BY <2>1, <2>2, <1>1
<1>5. events \in Seq(Numbered)
  <2> HIDE DEF S, c, events
  <2>1. ASSUME NEW n \in 1..c PROVE events[n] \in Numbered
    <3> DEFINE e == [type |-> drafts[Nth(S, n)].type,
                     body |-> drafts[Nth(S, n)].body,
                     sequence |-> factory.sequence + (n - 1)]
    <3>1. events[n] = e
      BY <1>3
    <3>2. /\ e.type = drafts[Nth(S, n)].type
          /\ e.body = drafts[Nth(S, n)].body
      OBVIOUS
    <3>3. e \in [type : EventType, body : Body, sequence : Nat] /\ e.sequence \in Nat
      BY <1>4
    <3> HIDE DEF e
    <3>4. Sound(e)
      BY <1>4, <3>2 DEF Sound
    <3> QED BY <3>1, <3>3, <3>4 DEF Numbered, Event
  <2>2. events \in [1..c -> Numbered]
    BY <2>1, <1>3
  <2> QED BY <2>2, <1>2
<1>6. DOMAIN events = 1..c
  BY <1>3
<1>7. ComesFrom(events, drafts, origin)
  <2> HIDE DEF c, events
  <2>1. origin \in [DOMAIN events -> Made(drafts)]
    BY <1>2, <1>6
  <2>2. \A n \in 1..c : /\ events[n].type = drafts[origin[n]].type
                        /\ events[n].body = drafts[origin[n]].body
    <3> HIDE DEF S
    <3> QED BY <1>3
  <2> HIDE DEF S
  <2>3. \A m, n \in 1..c : m < n => origin[m] < origin[n]
    BY <1>2
  <2>4. \A i \in S : \E n \in 1..c : origin[n] = i
    BY <1>2
  <2> QED BY <2>1, <2>2, <2>3, <2>4, <1>6 DEF ComesFrom, S
<1>8. origin \in Origins(drafts)
  BY <1>7 DEF ComesFrom, Origins
<1>9. Created(drafts).sequence \in Nat
  BY <1>2 DEF Created
<1>10. Created(drafts).keys =
         factory.keys \cup ({drafts[i].key : i \in Made(drafts)} \ {None})
  BY DEF Created
<1> QED BY <1>5, <1>7, <1>8, <1>9, <1>10
-----------------------------------------------------------------------------
(* The drafts of an observation: those of its status, if it has one to     *)
(* show, and then texts and signals.                                       *)
Rest ==
  {Draft("message.text", <<"message", m>>, m) : m \in Message}
  \cup {Draft("artifact.text", <<"artifact", a.id>>, a) : a \in Artifact}
  \cup {Draft("input.required", <<"input", s.phase>>, s) : s \in Status}
  \cup {Draft("capability.gap", <<"gap">>, s) : s \in Status}

LEMMA DraftIsSound ==
  ASSUME NEW type \in EventType, NEW key \in Key, NEW body \in Body,
         type \in StatusEvent => body \in Statuses,
         type = "allowed_actions.changed" => body \in SUBSET Action
  PROVE  Draft(type, key, body) \in DraftOK
<1> DEFINE d == Draft(type, key, body)
<1>1. /\ d \in [type : EventType, key : Key, body : Body]
      /\ d.type = type /\ d.body = body
  BY DEF Draft
<1> HIDE DEF d
<1>2. Sound(d)
  BY <1>1 DEF Sound
<1>3. d \in DraftOK
  BY <1>1, <1>2 DEF DraftOK
<1> QED BY <1>3 DEF d

LEMMA RestIsSound == Rest \subseteq DraftOK
<1>1. ASSUME NEW m \in Message
      PROVE  Draft("message.text", <<"message", m>>, m) \in DraftOK
  <2>1. <<"message", m>> \in Key /\ m \in Body
    BY DEF Key, Body
  <2> QED BY <2>1, DraftIsSound DEF StatusEvent, EventType
<1>2. ASSUME NEW a \in Artifact
      PROVE  Draft("artifact.text", <<"artifact", a.id>>, a) \in DraftOK
  <2>1. <<"artifact", a.id>> \in Key /\ a \in Body
    BY DEF Key, Body
  <2> QED BY <2>1, DraftIsSound DEF StatusEvent, EventType
<1>3. ASSUME NEW s \in Status
      PROVE  /\ Draft("input.required", <<"input", s.phase>>, s) \in DraftOK
             /\ Draft("capability.gap", <<"gap">>, s) \in DraftOK
  <2>1. <<"input", s.phase>> \in Key /\ <<"gap">> \in Key /\ s \in Body
    BY DEF Key, Body, Statuses
  <2> QED BY <2>1, DraftIsSound DEF StatusEvent, EventType
<1> QED BY <1>1, <1>2, <1>3 DEF Rest

LEMMA ActionsAreActions ==
  ASSUME NEW s \in Statuses PROVE AllowedActions(s) \in SUBSET Action
BY DEF AllowedActions, Action

LEMMA ActionsDraftIsSound ==
  ASSUME NEW s \in Statuses PROVE ActionsDraft(s) \in DraftOK
<1>1. AllowedActions(s) \in SUBSET Action
  BY ActionsAreActions
<1>2. <<"actions", AllowedActions(s)>> \in Key
  BY <1>1 DEF Key
<1>3. AllowedActions(s) \in Body
  BY <1>1 DEF Body
<1> QED BY <1>1, <1>2, <1>3, DraftIsSound
  DEF ActionsDraft, StatusEvent, EventType

LEMMA StatusDraftsAreSound ==
  ASSUME NEW t \in Task, NEW s \in Statuses
  PROVE  StatusDrafts(t, s) \in Seq(DraftOK)
<1> DEFINE b == Draft("task.bound", <<"bound", t>>, t)
           n == Draft("task.snapshot", <<"snapshot", t>>, s)
           c == Draft("task.status_changed", <<"status", s>>, s)
<1>1. b \in DraftOK /\ n \in DraftOK /\ c \in DraftOK
  <2>1. /\ <<"bound", t>> \in Key /\ <<"snapshot", t>> \in Key
        /\ <<"status", s>> \in Key /\ t \in Body /\ s \in Body
    BY DEF Key, Body
  <2>2. b \in DraftOK
    BY <2>1, DraftIsSound DEF StatusEvent, EventType
  <2>3. n \in DraftOK /\ c \in DraftOK
    BY <2>1, DraftIsSound DEF StatusEvent, EventType
  <2> QED BY <2>2, <2>3
<1>2. ActionsDraft(s) \in DraftOK
  BY ActionsDraftIsSound
<1>3. StatusDrafts(t, s) = IF mapper.snapshot THEN <<c, ActionsDraft(s)>>
                           ELSE <<b, n, ActionsDraft(s)>>
  BY DEF StatusDrafts
<1> HIDE DEF b, n, c
<1> QED BY <1>1, <1>2, <1>3

LEMMA RestDrafts ==
  /\ \A ms \in Seq(Message) : MessageDrafts(ms) \in Seq(Rest)
  /\ \A as \in Seq(Artifact) : ArtifactDrafts(as) \in Seq(Rest)
  /\ \A s \in Status :
       /\ SignalDrafts(s) \in Seq(Rest)
       /\ s.state = "INPUT_REQUIRED" =>
            /\ 1 \in DOMAIN SignalDrafts(s)
            /\ SignalDrafts(s)[1] =
                 Draft("input.required", <<"input", s.phase>>, s)
<1>1. ASSUME NEW ms \in Seq(Message) PROVE MessageDrafts(ms) \in Seq(Rest)
  <2> DEFINE d(i) == Draft("message.text", <<"message", ms[i]>>, ms[i])
  <2>1. Len(ms) \in Nat /\ DOMAIN ms = 1..Len(ms)
    OBVIOUS
  <2>2. \A i \in 1..Len(ms) : d(i) \in Rest
    <3>1. \A i \in 1..Len(ms) : ms[i] \in Message
      OBVIOUS
    <3> QED BY <3>1 DEF Rest
  <2>3. MessageDrafts(ms) = [i \in 1..Len(ms) |-> d(i)]
    BY <2>1 DEF MessageDrafts
  <2> HIDE DEF d
  <2> QED BY <2>1, <2>2, <2>3, IsASeq
<1>2. ASSUME NEW as \in Seq(Artifact) PROVE ArtifactDrafts(as) \in Seq(Rest)
  <2> DEFINE d(i) == Draft("artifact.text", <<"artifact", as[i].id>>, as[i])
  <2>1. Len(as) \in Nat /\ DOMAIN as = 1..Len(as)
    OBVIOUS
  <2>2. \A i \in 1..Len(as) : d(i) \in Rest
    <3>1. \A i \in 1..Len(as) : as[i] \in Artifact
      OBVIOUS
    <3> QED BY <3>1 DEF Rest
  <2>3. ArtifactDrafts(as) = [i \in 1..Len(as) |-> d(i)]
    BY <2>1 DEF ArtifactDrafts
  <2> HIDE DEF d
  <2> QED BY <2>1, <2>2, <2>3, IsASeq
<1>3. ASSUME NEW s \in Status
      PROVE  /\ SignalDrafts(s) \in Seq(Rest)
             /\ s.state = "INPUT_REQUIRED" =>
                  /\ 1 \in DOMAIN SignalDrafts(s)
                  /\ SignalDrafts(s)[1] =
                       Draft("input.required", <<"input", s.phase>>, s)
  <2> DEFINE q == Draft("input.required", <<"input", s.phase>>, s)
             g == Draft("capability.gap", <<"gap">>, s)
  <2>1. q \in Rest /\ g \in Rest
    BY DEF Rest
  <2>2. SignalDrafts(s) = (IF s.state = "INPUT_REQUIRED" THEN <<q>> ELSE <<>>)
             \o (IF s.phase = "capability_gap" THEN <<g>> ELSE <<>>)
    BY DEF SignalDrafts
  <2> HIDE DEF q, g
  <2>3. <<q>> \in Seq(Rest) /\ <<g>> \in Seq(Rest)
    BY <2>1
  <2> QED BY <2>1, <2>2, <2>3 DEF q
<1> QED BY <1>1, <1>2, <1>3

(* An observation is headed by drafts of a status if it has one, or if it  *)
(* is the first that the mapper sees of its Task.                          *)
Headed(o) == o.kind = "status" \/ (o.kind = "artifact" /\ ~mapper.snapshot)
Shows(o) == IF o.kind = "status" THEN o.status ELSE Working

LEMMA ObservationFacts ==
  ASSUME NEW o \in Observation
  PROVE  /\ o.kind \in {"status", "artifact", "message"}
         /\ o.kind # "message" => o.task \in Task
         /\ o.kind = "status" => o.status \in Status
         /\ o.kind # "message" => o.artifacts \in Seq(Artifact)
         /\ o.kind # "artifact" => o.messages \in Seq(Message)
<1> DEFINE Ms == {<<>>} \cup {<<m>> : m \in Message}
           As == {<<>>} \cup {<<a>> : a \in Artifact}
<1>1. Ms \subseteq Seq(Message) /\ As \subseteq Seq(Artifact)
  <2>1. \A m \in Message : <<m>> \in Seq(Message)
    OBVIOUS
  <2>2. \A a \in Artifact : <<a>> \in Seq(Artifact)
    OBVIOUS
  <2>3. <<>> \in Seq(Message) /\ <<>> \in Seq(Artifact)
    OBVIOUS
  <2>4. Ms \subseteq Seq(Message)
    BY <2>1, <2>3, Zenon
  <2>5. As \subseteq Seq(Artifact)
    BY <2>2, <2>3, Zenon
  <2> QED BY <2>4, <2>5
<1>2. o \in [kind : {"status"}, task : Task, status : Status,
             messages : Ms, artifacts : As]
        \cup [kind : {"artifact"}, task : Task, artifacts : As]
        \cup [kind : {"message"}, messages : Ms]
  BY DEF Observation
<1> HIDE DEF Ms, As
<1> QED BY <1>1, <1>2

(* What remains of the drafts behind the head.                             *)
IsTail(o, R) ==
  /\ Headed(o) => Drafts(o) = StatusDrafts(o.task, Shows(o)) \o R
  /\ ~Headed(o) => Drafts(o) = R
  /\ (o.kind = "status" /\ o.status.state = "INPUT_REQUIRED") =>
       \E r \in DOMAIN R :
         R[r] = Draft("input.required", <<"input", o.status.phase>>, o.status)

LEMMA DraftsHaveTail ==
  ASSUME NEW o \in Observation
  PROVE  \E R \in Seq(Rest) : IsTail(o, R)
<1> USE ObservationFacts
<1>0. Seq(Rest) \subseteq Seq(DraftOK)
  BY RestIsSound, SeqMonotonic
<1>1. CASE o.kind = "status"
  <2> DEFINE H == StatusDrafts(o.task, o.status)
             M == MessageDrafts(o.messages)
             G == SignalDrafts(o.status)
             A == ArtifactDrafts(o.artifacts)
             R == (M \o G) \o A
  <2>1. H \in Seq(DraftOK)
    BY <1>1, StatusDraftsAreSound DEF Statuses
  <2>2. M \in Seq(Rest) /\ G \in Seq(Rest) /\ A \in Seq(Rest)
    BY <1>1, RestDrafts
  <2>3. Drafts(o) = ((H \o M) \o G) \o A
    BY <1>1 DEF Drafts
  <2>4. o.status.state = "INPUT_REQUIRED" =>
          /\ 1 \in DOMAIN G
          /\ G[1] = Draft("input.required", <<"input", o.status.phase>>, o.status)
    BY <1>1, RestDrafts
  <2> HIDE DEF H, M, G, A
  <2>5. Drafts(o) = H \o R
    <3>1. (H \o M) \o G = H \o (M \o G)
      BY SMTT(40), <2>1, <2>2, <1>0, ConcatAssociative
    <3>2. M \o G \in Seq(Rest)
      BY <2>2, ConcatProperties
    <3>3. (H \o (M \o G)) \o A = H \o ((M \o G) \o A)
      BY SMTT(40), <2>1, <2>2, <3>2, <1>0, ConcatAssociative
    <3> QED BY <2>3, <3>1, <3>3
  <2>6. R \in Seq(Rest)
    BY <2>2, ConcatProperties
  <2>7. 1 \in DOMAIN G => Len(M) + 1 \in DOMAIN R /\ R[Len(M) + 1] = G[1]
    <3> SUFFICES ASSUME 1 \in DOMAIN G
                 PROVE  Len(M) + 1 \in DOMAIN R /\ R[Len(M) + 1] = G[1]
      OBVIOUS
    <3>1. /\ Len(M) \in Nat /\ Len(G) \in Nat /\ Len(A) \in Nat
          /\ 1 <= Len(G)
      BY <2>2
    <3>2. /\ M \o G \in Seq(Rest)
          /\ Len(M \o G) = Len(M) + Len(G)
          /\ (M \o G)[Len(M) + 1] = G[1]
      BY <2>2, <3>1, ConcatProperties
    <3>3. /\ Len(R) = Len(M \o G) + Len(A)
          /\ R[Len(M) + 1] = (M \o G)[Len(M) + 1]
      BY <2>2, <3>1, <3>2, ConcatProperties
    <3>4. Len(M) + 1 \in 1..Len(R)
      BY <3>1, <3>2, <3>3
    <3> HIDE DEF R
    <3> QED BY <3>2, <3>3, <3>4, <2>6
  <2>8. Headed(o) /\ Shows(o) = o.status
    BY <1>1 DEF Headed, Shows
  <2>9. IsTail(o, R)
    <3> HIDE DEF R
    <3> QED BY <2>4, <2>5, <2>7, <2>8 DEF IsTail, H
  <2> QED BY <2>6, <2>9
<1>2. CASE o.kind = "artifact"
  <2> DEFINE A == ArtifactDrafts(o.artifacts)
             H == StatusDrafts(o.task, Working)
  <2>1. A \in Seq(Rest)
    BY <1>2, RestDrafts
  <2>2. Drafts(o) = (IF mapper.snapshot THEN <<>> ELSE H) \o A
    BY <1>2 DEF Drafts
  <2> HIDE DEF A, H
  <2>3. mapper.snapshot => Drafts(o) = A
    BY <2>1, <2>2, ConcatEmptySeq
  <2>4. IsTail(o, A)
    BY <2>2, <2>3, <1>2 DEF IsTail, Headed, Shows, H
  <2> QED BY <2>1, <2>4
<1>3. CASE o.kind = "message"
  <2>1. MessageDrafts(o.messages) \in Seq(Rest)
    BY <1>3, RestDrafts
  <2>2. Drafts(o) = MessageDrafts(o.messages)
    BY <1>3 DEF Drafts
  <2>3. IsTail(o, Drafts(o))
    BY <1>3 DEF IsTail, Headed
  <2> QED BY <2>1, <2>2, <2>3
<1> QED BY <1>1, <1>2, <1>3

LEMMA DraftsAreSound ==
  ASSUME NEW o \in Observation
  PROVE  Drafts(o) \in Seq(DraftOK)
<1>1. PICK R \in Seq(Rest) : IsTail(o, R)
  BY DraftsHaveTail
<1>2. R \in Seq(DraftOK)
  BY RestIsSound, SeqMonotonic
<1>3. CASE Headed(o)
  <2>1. StatusDrafts(o.task, Shows(o)) \in Seq(DraftOK)
    BY <1>3, ObservationFacts, StatusDraftsAreSound
    DEF Headed, Shows, Statuses
  <2> QED BY <2>1, <1>1, <1>2, <1>3, ConcatProperties DEF IsTail
<1>4. CASE ~Headed(o)
  BY <1>1, <1>2, <1>4 DEF IsTail
<1> QED BY <1>3, <1>4

EndDraft ==
  {Draft("message.text", None, None), Draft("run.finished", None, None)}
  \cup {Draft("observation.ended", None, s) : s \in States}

LEMMA EndDraftsAre ==
  ASSUME source.fallback \in Nat, source.latest \in States \cup {None}
  PROVE  EndDrafts \in Seq(EndDraft)
<1> DEFINE text == Draft("message.text", None, None)
           fin == Draft("run.finished", None, None)
           ended == Draft("observation.ended", None, source.latest)
           A == [i \in 1..source.fallback |-> text]
           B == CASE source.latest = "INPUT_REQUIRED" -> <<>>
                  [] source.latest = None -> <<fin>>
                  [] OTHER -> <<ended>>
<1>1. EndDrafts = A \o B
  BY DEF EndDrafts
<1>2. /\ text \in EndDraft /\ fin \in EndDraft
      /\ source.latest # None => ended \in EndDraft
  BY DEF EndDraft
<1> HIDE DEF text, fin, ended
<1>3. A \in Seq(EndDraft)
  BY <1>2
<1>4. B \in Seq(EndDraft)
  <2>1. CASE source.latest = None /\ source.latest # "INPUT_REQUIRED"
    <3>1. B = <<fin>>
      BY <2>1
    <3> QED BY <3>1, <1>2
  <2>2. CASE source.latest # None /\ source.latest # "INPUT_REQUIRED"
    <3>1. B = <<ended>>
      BY <2>2
    <3> QED BY <3>1, <2>2, <1>2
  <2>3. CASE source.latest = "INPUT_REQUIRED"
    <3>1. B = <<>> \/ B = <<fin>>
      BY <2>3
    <3> QED BY <3>1, <1>2
  <2> QED BY <2>1, <2>2, <2>3
<1> HIDE DEF A, B
<1> QED BY <1>1, <1>3, <1>4, ConcatProperties

LEMMA EndDraftIsSound == EndDraft \subseteq DraftOK
<1>1. None \in Key /\ None \in Body /\ States \subseteq Body
  BY DEF Key, Body
<1>2. /\ Draft("message.text", None, None) \in DraftOK
      /\ Draft("run.finished", None, None) \in DraftOK
  BY <1>1, DraftIsSound DEF StatusEvent, EventType
<1>3. \A s \in States : Draft("observation.ended", None, s) \in DraftOK
  BY <1>1, DraftIsSound DEF StatusEvent, EventType
<1> QED BY <1>2, <1>3 DEF EndDraft

Opening == Draft("run.started", None, None)

LEMMA OpeningIsSound == Opening \in DraftOK
<1>1. None \in Key /\ None \in Body
  BY DEF Key, Body
<1> QED BY <1>1, DraftIsSound DEF StatusEvent, EventType, Opening

-----------------------------------------------------------------------------
(* The types; before the run starts there is nothing, and until it is over *)
(* every event that was sent has a number.                                 *)
PC == {"new", "running", "ending", "failed", "failing", "done"}

Client == [sent : Seq(Event), status : Statuses \cup {None},
           actions : SUBSET Action, aborted : BOOLEAN]

Empty ==
  /\ source.pending = <<>> /\ client.sent = <<>>
  /\ factory.keys = {} /\ ~mapper.snapshot /\ last = None /\ ~finished

Shapes ==
  /\ factory \in [sequence : Nat, keys : SUBSET Key]
  /\ mapper \in [task : Task \cup {None}, snapshot : BOOLEAN]
  /\ mapper.snapshot <=> mapper.task # None
  /\ source \in [pc : PC, pending : Seq(Numbered), fallback : 0..MaxSteps,
                 latest : States \cup {None}, steps : 0..MaxSteps]
  /\ source.fallback <= source.steps
  /\ source.pc = "new" => Empty
  /\ source.pc = "failed" => source.pending = <<>>
  /\ finished \in BOOLEAN
  /\ client \in Client
  /\ source.pc # "done" => client.sent \in Seq(Numbered)
  /\ last \in Status \cup {None}

LEMMA InitShapes == Init => Shapes
<1> SUFFICES ASSUME Init PROVE Shapes
  OBVIOUS
<1>1. MaxSteps \in Nat
  BY EventProjectionAssumption
<1>2. <<>> \in Seq(Numbered) /\ <<>> \in Seq(Event)
  OBVIOUS
<1>3. client \in Client
  BY <1>2 DEF Init, Client
<1>4. source \in [pc : PC, pending : Seq(Numbered), fallback : 0..MaxSteps,
                  latest : States \cup {None}, steps : 0..MaxSteps]
  BY <1>1, <1>2 DEF Init, PC
<1>5. factory \in [sequence : Nat, keys : SUBSET Key]
  BY DEF Init
<1>6. mapper \in [task : Task \cup {None}, snapshot : BOOLEAN]
      /\ (mapper.snapshot <=> mapper.task # None)
  BY DEF Init
<1>7. /\ source.fallback <= source.steps
      /\ source.pc = "new" /\ source.pending = <<>>
      /\ last \in Status \cup {None}
  <2>1. source.fallback = 0 /\ source.steps = 0
    BY DEF Init
  <2> QED BY <2>1 DEF Init
<1>10. finished \in BOOLEAN
  BY DEF Init
<1>8. client.sent = <<>>
  BY DEF Init
<1>9. Empty
  BY <1>8 DEF Init, Empty
<1> QED
  BY <1>2, <1>3, <1>4, <1>5, <1>6, <1>7, <1>8, <1>9, <1>10 DEF Shapes

(* Numbering drafts keeps the factory and what is pending well formed.     *)
LEMMA NumberKeepsShape ==
  ASSUME Shapes, NEW d \in Seq(DraftOK)
  PROVE  /\ Created(d).events \in Seq(Numbered)
         /\ source.pending \o Created(d).events \in Seq(Numbered)
         /\ Number(Created(d)) =>
              factory' \in [sequence : Nat, keys : SUBSET Key]
<1>1. factory.sequence \in Nat /\ factory.keys \in SUBSET Key
      /\ source.pending \in Seq(Numbered)
  BY DEF Shapes
<1>2. /\ Created(d).events \in Seq(Numbered)
      /\ Created(d).sequence \in Nat
      /\ Created(d).keys =
           factory.keys \cup ({d[i].key : i \in Made(d)} \ {None})
  BY <1>1, CreatedFacts
<1>3. \A i \in Made(d) : d[i].key \in Key
  <2>1. \A i \in DOMAIN d : d[i] \in DraftOK
    OBVIOUS
  <2> QED BY <2>1 DEF Made, DraftOK
<1>4. Created(d).keys \in SUBSET Key
  BY <1>1, <1>2, <1>3
<1>5. Number(Created(d)) => factory' \in [sequence : Nat, keys : SUBSET Key]
  BY <1>2, <1>4 DEF Number
<1>6. source.pending \o Created(d).events \in Seq(Numbered)
  BY <1>1, <1>2, ConcatProperties
<1> QED BY <1>2, <1>5, <1>6

(* The types hold across the three kinds of change to the source: a step   *)
(* that moves it on, one that throws, and one that leaves it.              *)
LEMMA StartShapes ==
  ASSUME Shapes, Start PROVE Shapes'
<1> DEFINE f == Created(<<Opening>>)
<1>1. <<Opening>> \in Seq(DraftOK)
  BY OpeningIsSound
<1>2. /\ source' = [source EXCEPT !.pc = "running", !.pending = f.events]
      /\ Number(f)
      /\ UNCHANGED <<mapper, finished, client, stored, last>>
      /\ source.pc = "new"
  BY DEF Start, Opening
<1>3. f.events \in Seq(Numbered)
      /\ factory' \in [sequence : Nat, keys : SUBSET Key]
  BY <1>1, <1>2, NumberKeepsShape
<1> HIDE DEF f
<1> QED BY <1>2, <1>3 DEF Shapes, PC

LEMMA ObserveShapes ==
  ASSUME Shapes, NEW o \in Observation, Observe(o) PROVE Shapes'
<1> DEFINE f == Created(Drafts(o))
<1>1. Drafts(o) \in Seq(DraftOK)
  BY DraftsAreSound
<1>2. /\ o.kind # "message" => o.task \in Task
      /\ o.kind = "status" => o.status \in Status /\ o.status.state \in States
  BY ObservationFacts DEF States
<1>3. MaxSteps \in Nat /\ None \notin Task
  BY EventProjectionAssumption
<1>4. CASE SameTask(o) /\ Number(f)
  <2>1. source.pending \o f.events \in Seq(Numbered)
        /\ factory' \in [sequence : Nat, keys : SUBSET Key]
    BY <1>1, <1>4, NumberKeepsShape
  <2>2. /\ source' = [source EXCEPT
             !.pending = source.pending \o f.events, !.steps = source.steps + 1,
             !.latest = IF o.kind = "status" THEN o.status.state
                        ELSE source.latest]
        /\ mapper' = IF o.kind = "message" THEN mapper
                     ELSE [task |-> o.task, snapshot |-> TRUE]
        /\ last' = IF o.kind = "status" THEN o.status ELSE last
        /\ source.pc = "running" /\ source.steps < MaxSteps
        /\ UNCHANGED <<finished, client, stored>>
    BY <1>4 DEF Observe, Running, Throws, SameTask
  <2> HIDE DEF f
  <2>3. mapper' \in [task : Task \cup {None}, snapshot : BOOLEAN]
        /\ (mapper'.snapshot <=> mapper'.task # None)
    BY <2>2, <1>2, <1>3 DEF Shapes
  <2>4. source' \in [pc : PC, pending : Seq(Numbered), fallback : 0..MaxSteps,
                     latest : States \cup {None}, steps : 0..MaxSteps]
        /\ source'.fallback <= source'.steps /\ source'.pc = "running"
    <3> DEFINE l == IF o.kind = "status" THEN o.status.state ELSE source.latest
               p == source.pending \o f.events
    <3>1. l \in States \cup {None} /\ p \in Seq(Numbered)
      BY <2>1, <1>2 DEF Shapes
    <3>2. source' = [source EXCEPT !.pending = p, !.steps = source.steps + 1,
                                   !.latest = l]
      BY <2>2
    <3>3. source.steps + 1 \in 0..MaxSteps /\ source.fallback <= source.steps + 1
      BY <2>2, <1>3 DEF Shapes
    <3>4. source \in [pc : PC, pending : Seq(Numbered), fallback : 0..MaxSteps,
                      latest : States \cup {None}, steps : 0..MaxSteps]
      BY DEF Shapes
    <3> HIDE DEF l, p
    <3> QED BY <3>1, <3>2, <3>3, <3>4, <2>2
  <2>5. last' \in Status \cup {None}
    BY <2>2, <1>2 DEF Shapes
  <2> QED BY <2>1, <2>2, <2>3, <2>4, <2>5 DEF Shapes
<1>5. CASE ~(SameTask(o) /\ Number(f))
  <2>1. /\ source' = [source EXCEPT !.pc = "failed", !.pending = <<>>]
        /\ source.pc = "running"
        /\ UNCHANGED <<factory, mapper, finished, client, stored, last>>
    BY <1>5 DEF Observe, Throws, Running
  <2>2. <<>> \in Seq(Numbered)
    OBVIOUS
  <2> QED BY <2>1, <2>2 DEF Shapes, PC
<1> QED BY <1>4, <1>5

LEMMA EndShapes ==
  ASSUME Shapes, End PROVE Shapes'
<1> DEFINE f == Created(EndDrafts)
<1>1. EndDrafts \in Seq(DraftOK)
  <2>1. source.fallback \in Nat /\ source.latest \in States \cup {None}
    BY EventProjectionAssumption DEF Shapes, EventProjectionAssumption
  <2> QED BY <2>1, EndDraftsAre, EndDraftIsSound, SeqMonotonic
<1>2. /\ source' = [source EXCEPT !.pc = "ending", !.pending = f.events]
      /\ Number(f) /\ source.pc = "running"
      /\ UNCHANGED <<mapper, finished, client, stored, last>>
  BY DEF End, Running
<1>3. f.events \in Seq(Numbered)
      /\ factory' \in [sequence : Nat, keys : SUBSET Key]
  BY <1>1, <1>2, NumberKeepsShape
<1> HIDE DEF f
<1> QED BY <1>2, <1>3 DEF Shapes, PC

LEMMA ApplyFacts ==
  ASSUME Shapes, NEW e \in Event
  PROVE  /\ Apply(client, e) \in Client
         /\ Apply(client, e).sent = Append(client.sent, e)
         /\ Apply(client, e).status = IF e.type \in StatusEvent
                                      THEN e.body ELSE client.status
         /\ Apply(client, e).actions =
              CASE e.type = "task.snapshot" -> {}
                [] e.type = "allowed_actions.changed" -> e.body
                [] OTHER -> client.actions
         /\ Apply(client, e).aborted = client.aborted
<1> DEFINE st == IF e.type \in {"task.snapshot", "task.status_changed"}
                 THEN e.body ELSE client.status
           ac == CASE e.type = "task.snapshot" -> {}
                   [] e.type = "allowed_actions.changed" -> e.body
                   [] OTHER -> client.actions
           sn == Append(client.sent, e)
<1>1. /\ e.type \in StatusEvent => e.body \in Statuses
      /\ e.type = "allowed_actions.changed" => e.body \in SUBSET Action
  BY DEF Event, Sound
<1>2. st \in Statuses \cup {None} /\ ac \in SUBSET Action
  BY <1>1 DEF Shapes, Client, StatusEvent
<1>3. sn \in Seq(Event)
  BY AppendProperties DEF Shapes, Client
<1>4. Apply(client, e) =
        [client EXCEPT !.sent = sn, !.status = st, !.actions = ac]
  BY DEF Apply
<1>5. client \in Client
  BY DEF Shapes
<1> HIDE DEF st, ac, sn
<1>6. /\ Apply(client, e).sent = sn /\ Apply(client, e).status = st
      /\ Apply(client, e).actions = ac
      /\ Apply(client, e).aborted = client.aborted
      /\ Apply(client, e) \in Client
  BY <1>2, <1>3, <1>4, <1>5 DEF Client
<1> QED BY <1>6 DEF sn, st, ac, StatusEvent

LEMMA SendShapes ==
  ASSUME Shapes, Send PROVE Shapes'
<1> DEFINE e == Head(source.pending)
<1>1. /\ e \in Numbered /\ Tail(source.pending) \in Seq(Numbered)
      /\ source.pc \in {"running", "ending", "failing"}
  <2>1. source.pending \in Seq(Numbered) /\ source.pending # <<>>
        /\ source.pc \in {"running", "ending", "failing"}
    BY DEF Send, Shapes
  <2> QED BY <2>1, HeadTailProperties
<1>2. /\ e.type \in StatusEvent => e.body \in Statuses
      /\ e.type = "allowed_actions.changed" => e.body \in SUBSET Action
      /\ e \in Event
  BY <1>1 DEF Numbered, Event, Sound
<1> HIDE DEF e
<1>3. Apply(client, e) \in Client
      /\ Apply(client, e).sent = Append(client.sent, e)
  BY <1>2, ApplyFacts
<1>4. CASE /\ client' = IF Shown THEN Apply(client, e) ELSE client
           /\ finished' = (finished \/ e.type \in TerminalEvent)
           /\ source' = [source EXCEPT !.pending = Tail(source.pending)]
  <2>1. UNCHANGED <<factory, mapper, last>>
    BY DEF Send
  <2>2. finished' \in BOOLEAN
    BY <1>4
  <2>3. client' \in Client
    BY <1>3, <1>4 DEF Shapes
  <2>4. client'.sent \in Seq(Numbered)
    <3>1. client.sent \in Seq(Numbered)
      BY <1>1 DEF Shapes
    <3>2. Append(client.sent, e) \in Seq(Numbered)
      BY <1>1, <3>1, AppendProperties
    <3> QED BY <1>3, <1>4, <3>1, <3>2
  <2> QED BY <1>1, <1>4, <2>1, <2>2, <2>3, <2>4 DEF Shapes
<1>5. CASE ~/\ client' = IF Shown THEN Apply(client, e) ELSE client
            /\ finished' = (finished \/ e.type \in TerminalEvent)
            /\ source' = [source EXCEPT !.pending = Tail(source.pending)]
  <2>1. /\ source' = [source EXCEPT !.pc = "failed", !.pending = <<>>]
        /\ source.pc = "running"
        /\ UNCHANGED <<factory, mapper, finished, client, last>>
    BY <1>5 DEF Send, Throws, e
  <2>2. <<>> \in Seq(Numbered)
    OBVIOUS
  <2> QED BY <2>1, <2>2 DEF Shapes, PC
<1> QED BY <1>4, <1>5

LEMMA RecoverShapes ==
  ASSUME Shapes, Recover PROVE Shapes'
<1> DEFINE Ev(type, n) == [type |-> type, body |-> None, sequence |-> n]
           p == IF client.sent = <<>>
                THEN <<Ev("run.started", 0), Ev("run.error", 1)>>
                ELSE <<Ev("run.error", Resumed)>>
<1>1. client.sent \in Seq(Numbered)
  BY DEF Shapes, Recover
<1>2. client.sent # <<>> => Resumed \in Nat
  <2>1. client.sent # <<>> => client.sent[Len(client.sent)] \in Numbered
    BY <1>1
  <2> QED BY <2>1 DEF Resumed, Numbered
<1>3. \A n \in Nat : Ev("run.started", n) \in Numbered
                     /\ Ev("run.error", n) \in Numbered
  <2>1. ASSUME NEW n \in Nat, NEW type \in {"run.started", "run.error"}
        PROVE  Ev(type, n) \in Numbered
    <3> DEFINE v == Ev(type, n)
    <3>1. v \in [type : EventType, body : Body, sequence : Nat \cup {None}]
          /\ v.type = type /\ v.sequence = n
      BY DEF EventType, Body
    <3> HIDE DEF v
    <3>2. Sound(v)
      BY <3>1, <2>1 DEF Sound, StatusEvent
    <3>3. v \in Numbered
      BY <3>1, <3>2 DEF Numbered, Event
    <3> QED BY <3>3 DEF v
  <2> QED BY <2>1
<1>4. source' = [source EXCEPT !.pc = "failing", !.pending = p]
      /\ UNCHANGED <<factory, mapper, finished, client, last>>
  BY DEF Recover
<1> HIDE DEF Ev
<1>5. p \in Seq(Numbered)
  <2>1. 0 \in Nat /\ 1 \in Nat
    OBVIOUS
  <2> QED BY <2>1, <1>2, <1>3
<1> HIDE DEF p
<1> QED BY <1>1, <1>4, <1>5 DEF Shapes, PC

LEMMA ErrorIsEvent ==
  [type |-> "run.error", body |-> None, sequence |-> None] \in Event
<1> DEFINE v == [type |-> "run.error", body |-> None, sequence |-> None]
<1>1. v \in [type : EventType, body : Body, sequence : Nat \cup {None}]
      /\ v.type = "run.error"
  BY DEF EventType, Body
<1> HIDE DEF v
<1>2. Sound(v)
  BY <1>1 DEF Sound, StatusEvent
<1>3. v \in Event
  BY <1>1, <1>2 DEF Event
<1> QED BY <1>3 DEF v

LEMMA ShapesStep ==
  ASSUME Shapes, [Next]_vars PROVE Shapes'
<1>0. <<>> \in Seq(Numbered) /\ MaxSteps \in Nat
  BY EventProjectionAssumption
<1>1. CASE Start
  BY <1>1, StartShapes
<1>2. CASE LocalFragment
  <2>1. /\ source' = [source EXCEPT !.fallback = source.fallback + 1,
                                    !.steps = source.steps + 1]
        /\ source.pc = "running" /\ source.steps < MaxSteps
        /\ UNCHANGED <<factory, mapper, finished, client, last>>
    BY <1>2 DEF LocalFragment, Running
  <2>2. source' \in [pc : PC, pending : Seq(Numbered), fallback : 0..MaxSteps,
                     latest : States \cup {None}, steps : 0..MaxSteps]
        /\ source'.fallback <= source'.steps /\ source'.pc = "running"
    <3>1. /\ source.fallback + 1 \in 0..MaxSteps
          /\ source.steps + 1 \in 0..MaxSteps
          /\ source.fallback + 1 <= source.steps + 1
      BY <2>1, <1>0 DEF Shapes
    <3>2. source \in [pc : PC, pending : Seq(Numbered), fallback : 0..MaxSteps,
                      latest : States \cup {None}, steps : 0..MaxSteps]
      BY DEF Shapes
    <3> QED BY <2>1, <3>1, <3>2
  <2> QED BY <2>1, <2>2 DEF Shapes
<1>3. CASE End
  BY <1>3, EndShapes
<1>4. CASE Send
  BY <1>4, SendShapes
<1>5. CASE Fail
  BY <1>5, <1>0 DEF Fail, Throws, Shapes, PC
<1>6. CASE Recover
  BY <1>6, RecoverShapes
<1>7. CASE Return
  <2>1. /\ source' = [source EXCEPT !.pc = "done"]
        /\ UNCHANGED <<factory, mapper, finished, last>>
        /\ client' \in Client
    BY ZenonT(60), <1>7, ErrorIsEvent, ApplyFacts DEF Return, Shapes
  <2> QED BY <2>1 DEF Shapes, PC
<1>8. CASE Disconnect
  <2>1. client' = [client EXCEPT !.aborted = TRUE] /\ client \in Client
        /\ UNCHANGED <<factory, mapper, source, finished, last>>
    BY <1>8 DEF Disconnect, Shapes
  <2>2. client' \in Client /\ client'.sent = client.sent
    BY <2>1 DEF Client
  <2>3. Empty => Empty'
    BY <2>1, <2>2 DEF Empty
  <2> QED BY <2>1, <2>2, <2>3 DEF Shapes
<1>9. CASE Close
  BY <1>9 DEF Close, Shapes, PC
<1>10. ASSUME NEW o \in Observation, Observe(o) PROVE Shapes'
  BY <1>10, ObserveShapes
<1>11. CASE UNCHANGED vars
  BY <1>11 DEF vars, Shapes, Empty
<1> QED BY <1>1, <1>2, <1>3, <1>4, <1>5, <1>6, <1>7, <1>8, <1>9, <1>10, <1>11
        DEF Next

-----------------------------------------------------------------------------
(* The end: as long as the run is not over, an event that ends it is the   *)
(* last that was sent, and the projection knows. What is stored was stored *)
(* by the route's last step.                                               *)
Ends ==
  /\ source.pc # "done" =>
       /\ finished => Sent(TerminalEvent)
       /\ \A i \in DOMAIN client.sent :
            client.sent[i].type \in TerminalEvent =>
              finished /\ i = Len(client.sent)
  /\ NothingAfterTheEnd
  /\ stored # None => source.pc = "done"
  /\ StoredIsHonest

LEMMA AppendFacts ==
  ASSUME NEW S, NEW s \in Seq(S), NEW e \in S
  PROVE  /\ DOMAIN s = 1..Len(s) /\ Len(s) \in Nat
         /\ DOMAIN Append(s, e) = 1..(Len(s) + 1)
         /\ Len(Append(s, e)) = Len(s) + 1
         /\ \A i \in DOMAIN s : Append(s, e)[i] = s[i]
         /\ Append(s, e)[Len(s) + 1] = e
OBVIOUS

LEMMA InitEnds == Init => Ends
<1> SUFFICES ASSUME Init PROVE Ends
  OBVIOUS
<1>1. client.sent = <<>> /\ stored = None /\ ~finished
  BY DEF Init
<1> QED BY <1>1 DEF Ends, NothingAfterTheEnd, StoredIsHonest

(* Steps that leave what was sent, unless they are the last.               *)
LEMMA EndsStay ==
  ASSUME Shapes, Ends, source.pc # "done",
         client'.sent = client.sent, finished' = finished,
         stored' = stored
  PROVE  Ends'
<1>1. stored = None
  BY DEF Ends
<1>2. Sent(TerminalEvent)' <=> Sent(TerminalEvent)
  BY DEF Sent
<1> QED BY <1>1, <1>2 DEF Ends, NothingAfterTheEnd, StoredIsHonest

LEMMA SendEnds ==
  ASSUME Shapes, Ends, Send PROVE Ends'
<1> DEFINE e == Head(source.pending)
<1>0. source.pc \in {"running", "ending", "failing"} /\ source.pc # "done"
      /\ source.pending \in Seq(Numbered) /\ source.pending # <<>>
      /\ stored' = stored
  BY DEF Send, Shapes
<1>1. e \in Numbered /\ e \in Event
  BY <1>0, HeadTailProperties DEF Numbered
<1> HIDE DEF e
<1>2. CASE client' = client /\ finished' = finished
  BY <1>0, <1>2, EndsStay
<1>3. CASE /\ ~finished /\ client' = Apply(client, e)
           /\ finished' = (e.type \in TerminalEvent)
  <2> DEFINE s == client.sent
  <2>1. s \in Seq(Event) /\ client'.sent = Append(s, e)
    BY <1>1, <1>3, ApplyFacts DEF Shapes, Client
  <2>2. \A i \in DOMAIN s : s[i].type \notin TerminalEvent
    BY <1>0, <1>3 DEF Ends
  <2> HIDE DEF s
  <2>3. /\ DOMAIN s = 1..Len(s) /\ Len(s) \in Nat
        /\ DOMAIN client'.sent = 1..(Len(s) + 1)
        /\ Len(client'.sent) = Len(s) + 1
        /\ \A i \in DOMAIN s : client'.sent[i] = s[i]
        /\ client'.sent[Len(s) + 1] = e
    BY <2>1, <1>1, AppendFacts
  <2>4. \A i \in DOMAIN client'.sent :
          client'.sent[i].type \in TerminalEvent =>
            e.type \in TerminalEvent /\ i = Len(client'.sent)
    <3>1. \A i \in 1..(Len(s) + 1) : i \in DOMAIN s \/ i = Len(s) + 1
      BY <2>3
    <3> QED BY <2>2, <2>3, <3>1
  <2>5. e.type \in TerminalEvent => Sent(TerminalEvent)'
    <3>1. Len(s) + 1 \in DOMAIN client'.sent
      BY <2>3
    <3> QED BY <3>1, <2>3 DEF Sent
  <2>6. NothingAfterTheEnd'
    <3>1. \A i, j \in DOMAIN client'.sent : i < j => i # Len(client'.sent)
      BY <2>3
    <3> QED BY <2>4, <3>1 DEF NothingAfterTheEnd
  <2>7. stored' = None
    BY <1>0 DEF Ends
  <2> QED BY <1>3, <2>4, <2>5, <2>6, <2>7 DEF Ends, StoredIsHonest
<1>4. CASE finished /\ client' = client /\ finished' = TRUE
  BY <1>0, <1>4, EndsStay
<1>5. \/ client' = client /\ finished' = finished
      \/ ~finished /\ client' = Apply(client, e)
         /\ finished' = (e.type \in TerminalEvent)
      \/ finished /\ client' = client /\ finished' = TRUE
  <2>1. finished \in BOOLEAN
    BY DEF Shapes
  <2>2. \/ /\ client' = IF ~finished THEN Apply(client, e) ELSE client
           /\ finished' = (finished \/ e.type \in TerminalEvent)
        \/ client' = client /\ finished' = finished
    BY DEF Send, Shown, e
  <2>3. CASE finished
    BY <2>2, <2>3
  <2>4. CASE ~finished
    BY <2>2, <2>4
  <2> QED BY <2>3, <2>4
<1> QED BY <1>2, <1>3, <1>4, <1>5

LEMMA ReturnEnds ==
  ASSUME Shapes, Ends, Return PROVE Ends'
<1>0. /\ source.pc # "done" /\ ~client.aborted /\ finished' = finished
      /\ source'.pc = "done"
  BY DEF Return, Shapes
<1>1. CASE Store(FALSE) /\ client' = client
  <2>1. Texts' = Texts /\ \A S : Sent(S)' <=> Sent(S)
    BY <1>1 DEF Texts, Sent
  <2>2. StoredIsHonest'
    <3>1. ~Truncated(FALSE) =>
            /\ ~Sent({"run.error"}) /\ Sent(TerminalEvent)
      BY DEF Truncated
    <3>2. Sent(TerminalEvent) /\ ~Sent({"run.error"}) =>
            Sent({"input.required", "observation.ended", "run.finished"})
      BY DEF Sent, TerminalEvent
    <3>3. stored' # None =>
            stored' = [texts |-> Texts, truncated |-> Truncated(FALSE)]
      BY <1>1 DEF Store
    <3>4. ~client'.aborted
      BY <1>0, <1>1
    <3>5. SUFFICES ASSUME stored' # None
                   PROVE  /\ stored'.texts = Texts
                          /\ ~stored'.truncated =>
                               /\ ~Sent({"run.error"})
                               /\ Sent({"input.required", "observation.ended",
                                        "run.finished"})
      BY <2>1, <3>4 DEF StoredIsHonest
    <3> DEFINE t == Truncated(FALSE)
               r == [texts |-> Texts, truncated |-> t]
    <3>6. r.texts = Texts /\ r.truncated = t
      <4> HIDE DEF t
      <4> QED OBVIOUS
    <3>7. stored' = r
      BY <3>3, <3>5
    <3>8. ~t => ~Sent({"run.error"}) /\ Sent(TerminalEvent)
      BY <3>1
    <3> HIDE DEF t, r
    <3> QED BY <3>2, <3>6, <3>7, <3>8
  <2> QED BY <1>0, <1>1, <2>2 DEF Ends, NothingAfterTheEnd
<1>2. CASE /\ Store(TRUE)
           /\ client' = Apply(client, [type |-> "run.error", body |-> None,
                                       sequence |-> None])
  <2> DEFINE e == [type |-> "run.error", body |-> None, sequence |-> None]
             s == client.sent
  <2>1. e \in Event /\ e.type = "run.error"
    BY ErrorIsEvent
  <2> HIDE DEF e
  <2>2. s \in Seq(Event) /\ client'.sent = Append(s, e)
    BY <1>2, <2>1, ApplyFacts DEF Shapes, Client, e
  <2>3. \A i \in DOMAIN s : s[i].type \in TerminalEvent => i = Len(s)
    BY <1>0 DEF Ends
  <2> HIDE DEF s
  <2>4. /\ DOMAIN s = 1..Len(s) /\ Len(s) \in Nat
        /\ DOMAIN client'.sent = 1..(Len(s) + 1)
        /\ Len(client'.sent) = Len(s) + 1
        /\ \A i \in DOMAIN s : client'.sent[i] = s[i]
        /\ client'.sent[Len(s) + 1] = e
    BY <2>2, <2>1, AppendFacts
  <2>5. NothingAfterTheEnd'
    <3> SUFFICES ASSUME NEW i \in DOMAIN client'.sent,
                        NEW j \in DOMAIN client'.sent,
                        i < j, client'.sent[i].type \in TerminalEvent
                 PROVE  client'.sent[j].type = "run.error"
                        /\ j = Len(client'.sent)
      BY DEF NothingAfterTheEnd
    <3>1. i \in DOMAIN s
      BY <2>4
    <3>2. i = Len(s)
      BY <3>1, <2>3, <2>4
    <3>3. j = Len(s) + 1
      BY <3>2, <2>4
    <3> QED BY <3>3, <2>4, <2>1
  <2>6. Texts' = Texts
    <3>1. "run.error" \notin TextEvent
      BY DEF TextEvent
    <3>2. {j \in DOMAIN client'.sent : client'.sent[j].type \in TextEvent}
            = {j \in DOMAIN s : s[j].type \in TextEvent}
      <4>1. \A j \in 1..(Len(s) + 1) : j \in DOMAIN s \/ j = Len(s) + 1
        BY <2>4
      <4>2. \A j \in DOMAIN s : j \in 1..(Len(s) + 1)
        BY <2>4
      <4> QED BY <2>1, <2>4, <3>1, <4>1, <4>2
    <3> QED BY <3>2, <2>4 DEF Texts, s
  <2>7. stored' # None => stored' = [texts |-> Texts, truncated |-> TRUE]
    BY <1>2 DEF Store, Truncated
  <2>8. StoredIsHonest'
    BY <2>6, <2>7 DEF StoredIsHonest
  <2> QED BY <1>0, <2>5, <2>8 DEF Ends
<1> QED BY <1>1, <1>2 DEF Return

LEMMA EndsStep ==
  ASSUME Shapes, Ends, [Next]_vars PROVE Ends'
<1> USE EndsStay
<1>1. CASE Start
  BY <1>1 DEF Start, Shapes
<1>2. CASE LocalFragment
  BY <1>2 DEF LocalFragment, Running, Shapes
<1>3. CASE End
  BY <1>3 DEF End, Running, Shapes
<1>4. CASE Send
  BY <1>4, SendEnds
<1>5. CASE Fail
  BY <1>5 DEF Fail, Throws, Shapes
<1>6. CASE Recover
  BY <1>6 DEF Recover, Shapes
<1>7. CASE Return
  BY <1>7, ReturnEnds
<1>8. CASE Disconnect
  <2>1. client'.sent = client.sent
    BY <1>8 DEF Disconnect, Shapes, Client
  <2> QED BY <1>8, <2>1 DEF Disconnect, Shapes
<1>9. CASE Close
  <2>1. /\ client.aborted /\ client' = client /\ finished' = finished
        /\ source.pc # "done" /\ source'.pc = "done" /\ Store(FALSE)
    BY <1>9 DEF Close, Shapes
  <2>2. stored' # None => stored' = [texts |-> Texts, truncated |-> TRUE]
    BY <2>1 DEF Store, Truncated
  <2>3. Texts' = Texts
    BY <2>1 DEF Texts
  <2>4. StoredIsHonest'
    BY <2>2, <2>3 DEF StoredIsHonest
  <2> QED BY <2>1, <2>4 DEF Ends, NothingAfterTheEnd
<1>10. ASSUME NEW o \in Observation, Observe(o) PROVE Ends'
  <2>1. source.pc = "running" /\ UNCHANGED <<finished, client, stored>>
    BY <1>10 DEF Observe, Running
  <2> QED BY <2>1 DEF Shapes
<1>11. CASE UNCHANGED vars
  BY <1>11 DEF vars, Ends, NothingAfterTheEnd, StoredIsHonest, Texts, Sent
<1> QED BY <1>1, <1>2, <1>3, <1>4, <1>5, <1>6, <1>7, <1>8, <1>9, <1>10, <1>11
        DEF Next

-----------------------------------------------------------------------------
(* The line is what was sent and what is pending behind it. It grows by    *)
(* the events that drafts make, and sending leaves it as it is.            *)
Line == client.sent \o source.pending

(* Positions of a concatenation.                                           *)
LEMMA JoinFacts ==
  ASSUME NEW S, NEW s \in Seq(S), NEW t \in Seq(S)
  PROVE  /\ s \o t \in Seq(S)
         /\ DOMAIN s = 1..Len(s) /\ DOMAIN t = 1..Len(t)
         /\ DOMAIN (s \o t) = 1..(Len(s) + Len(t))
         /\ Len(s) \in Nat /\ Len(t) \in Nat
         /\ \A i \in DOMAIN s : i \in DOMAIN (s \o t) /\ (s \o t)[i] = s[i]
         /\ \A i \in DOMAIN t : /\ Len(s) + i \in DOMAIN (s \o t)
                                /\ (s \o t)[Len(s) + i] = t[i]
         /\ \A i \in DOMAIN (s \o t) :
              i \in DOMAIN s \/ \E k \in DOMAIN t : i = Len(s) + k
<1>1. /\ s \o t \in Seq(S) /\ Len(s \o t) = Len(s) + Len(t)
      /\ \A i \in 1..(Len(s) + Len(t)) :
           (s \o t)[i] = IF i <= Len(s) THEN s[i] ELSE t[i - Len(s)]
  BY ConcatProperties
<1>2. /\ DOMAIN s = 1..Len(s) /\ DOMAIN t = 1..Len(t)
      /\ DOMAIN (s \o t) = 1..(Len(s) + Len(t))
      /\ Len(s) \in Nat /\ Len(t) \in Nat
  BY <1>1
<1> DEFINE u == s \o t
<1> HIDE DEF u
<1>3. \A i \in 1..Len(s) :
        i \in 1..(Len(s) + Len(t)) /\ i <= Len(s)
  BY <1>2
<1>4. \A i \in 1..Len(t) :
        /\ Len(s) + i \in 1..(Len(s) + Len(t)) /\ ~(Len(s) + i <= Len(s))
        /\ (Len(s) + i) - Len(s) = i
  BY <1>2
<1>5. \A i \in 1..(Len(s) + Len(t)) :
        i \in 1..Len(s) \/ (i - Len(s) \in 1..Len(t) /\ i = Len(s) + (i - Len(s)))
  BY <1>2
<1> QED BY <1>1, <1>2, <1>3, <1>4, <1>5

LEMMA LineFacts ==
  ASSUME Shapes
  PROVE  /\ Line \in Seq(Event)
         /\ DOMAIN client.sent = 1..Len(client.sent) /\ Len(client.sent) \in Nat
         /\ DOMAIN client.sent \subseteq DOMAIN Line
         /\ \A i \in DOMAIN client.sent : Line[i] = client.sent[i]
         /\ source.pending = <<>> => Line = client.sent
<1>1. client.sent \in Seq(Event) /\ source.pending \in Seq(Event)
  <2>1. Seq(Numbered) \subseteq Seq(Event)
    BY SeqMonotonic DEF Numbered
  <2> QED BY <2>1 DEF Shapes, Client
<1>2. /\ Line \in Seq(Event)
      /\ DOMAIN client.sent = 1..Len(client.sent) /\ Len(client.sent) \in Nat
      /\ \A i \in DOMAIN client.sent :
           i \in DOMAIN Line /\ Line[i] = client.sent[i]
  <2> DEFINE s == client.sent p == source.pending
  <2>1. s \in Seq(Event) /\ p \in Seq(Event) /\ Line = s \o p
    BY <1>1 DEF Line
  <2> HIDE DEF s, p
  <2>2. /\ s \o p \in Seq(Event)
        /\ DOMAIN s = 1..Len(s) /\ Len(s) \in Nat
        /\ \A i \in DOMAIN s : i \in DOMAIN (s \o p) /\ (s \o p)[i] = s[i]
    BY <2>1, JoinFacts
  <2> QED BY <2>1, <2>2 DEF s
<1>3. source.pending = <<>> => Line = client.sent
  BY <1>1, ConcatEmptySeq DEF Line
<1> QED BY <1>1, <1>2, <1>3

LEMMA LineGrows ==
  ASSUME Shapes, NEW d \in Seq(DraftOK), client'.sent = client.sent,
         source'.pending = source.pending \o Created(d).events
  PROVE  /\ Line' = Line \o Created(d).events
         /\ Created(d).events \in Seq(Event)
<1>1. client.sent \in Seq(Event) /\ source.pending \in Seq(Event)
      /\ Created(d).events \in Seq(Event)
  <2>1. Seq(Numbered) \subseteq Seq(Event)
    BY SeqMonotonic DEF Numbered
  <2> QED BY <2>1, NumberKeepsShape DEF Shapes, Client
<1>2. Line' = client.sent \o (source.pending \o Created(d).events)
  BY DEF Line
<1> DEFINE s == client.sent p == source.pending e == Created(d).events
<1>3. s \in Seq(Event) /\ p \in Seq(Event) /\ e \in Seq(Event)
      /\ Line' = s \o (p \o e) /\ Line = s \o p
  BY <1>1, <1>2 DEF Line
<1> HIDE DEF s, p, e
<1>4. (s \o p) \o e = s \o (p \o e)
  BY SMTT(40), <1>3, ConcatAssociative
<1> QED BY <1>3, <1>4 DEF e

LEMMA LineMoves ==
  ASSUME Shapes, source.pending # <<>>,
         client'.sent = Append(client.sent, Head(source.pending)),
         source'.pending = Tail(source.pending)
  PROVE  Line' = Line
<1> DEFINE s == client.sent p == source.pending h == <<Head(p)>>
<1>1. s \in Seq(Event) /\ p \in Seq(Event) /\ p # <<>>
  <2>1. Seq(Numbered) \subseteq Seq(Event)
    BY SeqMonotonic DEF Numbered
  <2> QED BY <2>1 DEF Shapes, Client
<1>2. Line' = Append(s, Head(p)) \o Tail(p) /\ Line = s \o p
  BY DEF Line
<1> HIDE DEF s, p
<1>3. Head(p) \in Event /\ Tail(p) \in Seq(Event) /\ h \in Seq(Event)
  BY <1>1, HeadTailProperties
<1>4. Append(s, Head(p)) = s \o h
  BY <1>1, <1>3, AppendIsConcat
<1>5. h \o Tail(p) = p
  BY <1>1
<1>6. (s \o h) \o Tail(p) = s \o (h \o Tail(p))
  BY <1>1, <1>3, ConcatAssociative
<1> QED BY <1>2, <1>4, <1>5, <1>6

-----------------------------------------------------------------------------
(* Every text on the line has its dedupe key in the factory, and a key is  *)
(* the key of one text only.                                               *)
Contentful(e) == e.type \in TextEvent /\ e.body # None

TextKey(e) == IF e.type = "message.text" THEN <<"message", e.body>>
              ELSE <<"artifact", e.body.id>>

OnceIn(L, keys) ==
  /\ \A i \in DOMAIN L : Contentful(L[i]) => TextKey(L[i]) \in keys
  /\ \A i, j \in DOMAIN L :
       (Contentful(L[i]) /\ Contentful(L[j]) /\ TextKey(L[i]) = TextKey(L[j]))
         => i = j

Once ==
  /\ ShownOnce
  /\ (source.pc \in {"new", "running", "ending"} /\ ~finished) =>
       OnceIn(Line, factory.keys)
  /\ source.pc \in {"failed", "failing"} =>
       \A i \in DOMAIN source.pending : source.pending[i].type \notin TextEvent

(* A draft of a text is made under the key of that text.                   *)
Honest(d) == Contentful(d) => d.key = TextKey(d) /\ d.key # None

LEMMA RestIsHonest == \A d \in Rest \cup EndDraft : Honest(d)
<1>1. ASSUME NEW m \in Message
      PROVE  Honest(Draft("message.text", <<"message", m>>, m))
  <2>1. <<"message", m>> # None
    BY EventProjectionAssumption DEF EventProjectionAssumption
  <2> QED BY <2>1 DEF Honest, Contentful, TextKey, Draft
<1>2. ASSUME NEW a \in Artifact
      PROVE  Honest(Draft("artifact.text", <<"artifact", a.id>>, a))
  <2>1. <<"artifact", a.id>> # None
    BY EventProjectionAssumption DEF EventProjectionAssumption
  <2> QED BY <2>1 DEF Honest, Contentful, TextKey, Draft
<1>3. \A s \in Status :
        /\ Honest(Draft("input.required", <<"input", s.phase>>, s))
        /\ Honest(Draft("capability.gap", <<"gap">>, s))
  BY DEF Honest, Contentful, TextEvent, Draft
<1>4. /\ Honest(Draft("message.text", None, None))
      /\ Honest(Draft("run.finished", None, None))
      /\ \A s \in States : Honest(Draft("observation.ended", None, s))
  BY DEF Honest, Contentful, TextEvent, Draft
<1> QED BY <1>1, <1>2, <1>3, <1>4 DEF Rest, EndDraft

LEMMA DraftsAreHonest ==
  ASSUME NEW o \in Observation
  PROVE  \A i \in DOMAIN Drafts(o) : Honest(Drafts(o)[i])
<1>1. PICK R \in Seq(Rest) : IsTail(o, R)
  BY DraftsHaveTail
<1>2. \A i \in DOMAIN R : Honest(R[i])
  BY RestIsHonest
<1>3. CASE Headed(o)
  <2> DEFINE H == StatusDrafts(o.task, Shows(o))
  <2>1. H \in Seq(DraftOK) /\ R \in Seq(DraftOK)
    <3>1. R \in Seq(DraftOK)
      BY RestIsSound, SeqMonotonic
    <3>2. o.task \in Task /\ Shows(o) \in Statuses
      BY <1>3, ObservationFacts DEF Headed, Shows, Statuses
    <3> QED BY <3>1, <3>2, StatusDraftsAreSound
  <2>2. \A i \in DOMAIN H : Honest(H[i])
    BY DEF StatusDrafts, ActionsDraft, Draft, Honest, Contentful, TextEvent
  <2> HIDE DEF H
  <2>3. \A i \in DOMAIN (H \o R) : Honest((H \o R)[i])
    <3>1. /\ \A i \in DOMAIN H : (H \o R)[i] = H[i]
          /\ \A i \in DOMAIN R : (H \o R)[Len(H) + i] = R[i]
          /\ \A i \in DOMAIN (H \o R) :
               i \in DOMAIN H \/ \E k \in DOMAIN R : i = Len(H) + k
      BY <2>1, JoinFacts
    <3> QED BY <3>1, <1>2, <2>2
  <2> QED BY <1>1, <1>3, <2>3 DEF IsTail, H
<1>4. CASE ~Headed(o)
  BY <1>1, <1>2, <1>4 DEF IsTail
<1> QED BY <1>3, <1>4

LEMMA OnceGrows ==
  ASSUME Shapes, NEW d \in Seq(DraftOK), \A i \in DOMAIN d : Honest(d[i]),
         NEW L \in Seq(Event), OnceIn(L, factory.keys)
  PROVE  OnceIn(L \o Created(d).events, Created(d).keys)
<1> DEFINE E == Created(d).events K == Created(d).keys
<1>1. /\ E \in Seq(Numbered)
      /\ K = factory.keys \cup ({d[i].key : i \in Made(d)} \ {None})
      /\ \E origin \in Origins(d) : ComesFrom(E, d, origin)
  BY CreatedFacts DEF Shapes
<1>2. E \in Seq(Event)
  BY <1>1, SeqMonotonic DEF Numbered
<1>3. PICK origin \in Origins(d) : ComesFrom(E, d, origin)
  BY <1>1
<1> HIDE DEF E, K
<1>4. /\ Made(d) \subseteq DOMAIN d /\ DOMAIN d = 1..Len(d) /\ Len(d) \in Nat
      /\ \A n \in DOMAIN E : origin[n] \in Made(d)
      /\ \A m, n \in DOMAIN E : m < n => origin[m] < origin[n]
  BY <1>3 DEF Made, ComesFrom
(* The key of a text among the events is that of its draft.                *)
<1>5. ASSUME NEW n \in DOMAIN E, Contentful(E[n])
      PROVE  /\ TextKey(E[n]) = d[origin[n]].key /\ d[origin[n]].key # None
  <2>1. E[n].type = d[origin[n]].type /\ E[n].body = d[origin[n]].body
    BY <1>3 DEF ComesFrom
  <2>2. Honest(d[origin[n]]) /\ Contentful(d[origin[n]])
    BY <1>4, <1>5, <2>1 DEF Contentful
  <2> QED BY <2>1, <2>2 DEF Honest, TextKey
<1>6. ASSUME NEW n \in DOMAIN E, Contentful(E[n])
      PROVE  TextKey(E[n]) \in K /\ TextKey(E[n]) \notin factory.keys
  <2>1. Fresh(d, origin[n])
    BY <1>4 DEF Made
  <2> QED BY <1>1, <1>4, <1>5, <1>6, <2>1 DEF Fresh
<1>7. ASSUME NEW m \in DOMAIN E, NEW n \in DOMAIN E, m < n,
             Contentful(E[m]), Contentful(E[n])
      PROVE  TextKey(E[m]) # TextKey(E[n])
  <2>1. Fresh(d, origin[n]) /\ origin[m] < origin[n]
        /\ origin[m] \in Nat \ {0} /\ origin[n] \in Nat
    BY <1>4, <1>7 DEF Made
  <2>2. origin[m] \in 1..(origin[n] - 1)
    BY <2>1
  <2>3. d[origin[n]].key # None
    BY <1>5, <1>7
  <2>4. d[origin[m]].key # d[origin[n]].key
    BY <2>1, <2>2, <2>3 DEF Fresh
  <2> QED BY <1>5, <1>7, <2>4
<1>8. /\ DOMAIN L = 1..Len(L) /\ DOMAIN E = 1..Len(E)
      /\ Len(L) \in Nat /\ Len(E) \in Nat
      /\ \A i \in DOMAIN L : (L \o E)[i] = L[i]
      /\ \A i \in DOMAIN E : (L \o E)[Len(L) + i] = E[i]
      /\ \A i \in DOMAIN (L \o E) :
           i \in DOMAIN L \/ \E k \in DOMAIN E : i = Len(L) + k
  BY <1>2, JoinFacts
<1>9. ASSUME NEW i \in DOMAIN (L \o E), Contentful((L \o E)[i])
      PROVE  TextKey((L \o E)[i]) \in K
  <2>1. CASE i \in DOMAIN L
    BY <1>1, <1>8, <1>9, <2>1 DEF OnceIn
  <2>2. ASSUME NEW k \in DOMAIN E, i = Len(L) + k
        PROVE  TextKey((L \o E)[i]) \in K
    BY <1>6, <1>8, <1>9, <2>2
  <2> QED BY <1>8, <2>1, <2>2
<1>10. ASSUME NEW i \in DOMAIN (L \o E), NEW j \in DOMAIN (L \o E),
              Contentful((L \o E)[i]), Contentful((L \o E)[j]),
              TextKey((L \o E)[i]) = TextKey((L \o E)[j])
       PROVE  i = j
  <2>1. CASE i \in DOMAIN L /\ j \in DOMAIN L
    BY <1>8, <1>10, <2>1 DEF OnceIn
  <2>2. ASSUME i \in DOMAIN L, NEW k \in DOMAIN E, j = Len(L) + k
        PROVE  FALSE
    <3>1. TextKey(L[i]) \in factory.keys
      BY <1>8, <1>10, <2>2 DEF OnceIn
    <3>2. TextKey(E[k]) \notin factory.keys
      BY <1>6, <1>8, <1>10, <2>2
    <3> QED BY <3>1, <3>2, <1>8, <1>10, <2>2
  <2>3. ASSUME j \in DOMAIN L, NEW k \in DOMAIN E, i = Len(L) + k
        PROVE  FALSE
    <3>1. TextKey(L[j]) \in factory.keys
      BY <1>8, <1>10, <2>3 DEF OnceIn
    <3>2. TextKey(E[k]) \notin factory.keys
      BY <1>6, <1>8, <1>10, <2>3
    <3> QED BY <3>1, <3>2, <1>8, <1>10, <2>3
  <2>4. ASSUME NEW k \in DOMAIN E, i = Len(L) + k,
               NEW l \in DOMAIN E, j = Len(L) + l
        PROVE  i = j
    <3>1. /\ Contentful(E[k]) /\ Contentful(E[l])
          /\ TextKey(E[k]) = TextKey(E[l])
      BY <1>8, <1>10, <2>4
    <3>2. ~(k < l) /\ ~(l < k)
      BY <3>1, <1>7
    <3>3. k = l
      BY <3>2, <1>8
    <3> QED BY <3>3, <2>4
  <2> QED BY <1>8, <2>1, <2>2, <2>3, <2>4
<1>11. OnceIn(L \o E, K)
  BY <1>9, <1>10 DEF OnceIn
<1> QED BY <1>11 DEF E, K

LEMMA OnceIsShown ==
  ASSUME Shapes, OnceIn(Line, factory.keys) PROVE ShownOnce
<1>1. \A i \in DOMAIN client.sent :
        i \in DOMAIN Line /\ Line[i] = client.sent[i]
  BY LineFacts
<1> QED BY ZenonT(60), <1>1 DEF OnceIn, ShownOnce, Contentful, TextKey

LEMMA InitOnce == Init => Once
<1> SUFFICES ASSUME Init PROVE Once
  OBVIOUS
<1>1. client.sent = <<>> /\ source.pending = <<>> /\ source.pc = "new"
  BY DEF Init
<1>2. Line = <<>>
  BY <1>1 DEF Line
<1> QED BY <1>1, <1>2 DEF Once, ShownOnce, OnceIn

(* The steps that make events of drafts.                                   *)
LEMMA OnceMade ==
  ASSUME Shapes, Shapes', Once, NEW d \in Seq(DraftOK),
         \A i \in DOMAIN d : Honest(d[i]),
         source.pc \in {"new", "running", "ending"}, Number(Created(d)),
         client'.sent = client.sent, finished' = finished,
         source'.pending = source.pending \o Created(d).events,
         source'.pc \in {"running", "ending"}
  PROVE  Once'
<1>1. Line' = Line \o Created(d).events /\ Line \in Seq(Event)
  BY LineGrows, LineFacts
<1>2. factory'.keys = Created(d).keys
  BY DEF Number
<1>3. ~finished => OnceIn(Line', factory'.keys)
  BY <1>1, <1>2, OnceGrows DEF Once
<1>4. ShownOnce'
  BY DEF Once, ShownOnce
<1> QED BY <1>3, <1>4 DEF Once

(* The steps that leave the line, or of the pending events only the text.  *)
LEMMA OnceStays ==
  ASSUME Shapes, Once, client'.sent = client.sent, finished' = finished,
         factory' = factory,
         \/ source'.pending = source.pending /\ source'.pc = source.pc
         \/ source'.pc \in {"failed", "failing", "done"}
            /\ \A i \in DOMAIN source'.pending :
                 source'.pending[i].type \notin TextEvent
  PROVE  Once'
<1>1. ShownOnce'
  BY DEF Once, ShownOnce
<1>2. CASE source'.pending = source.pending /\ source'.pc = source.pc
  <2>1. Line' = Line
    BY <1>2 DEF Line
  <2> QED BY <1>1, <1>2, <2>1 DEF Once, OnceIn
<1>3. CASE ~(source'.pending = source.pending /\ source'.pc = source.pc)
  BY <1>1, <1>3 DEF Once
<1> QED BY <1>2, <1>3

LEMMA ShownStays ==
  ASSUME Shapes, ShownOnce, NEW e \in Event, e.type \notin TextEvent,
         client'.sent = Append(client.sent, e)
  PROVE  ShownOnce'
<1> DEFINE s == client.sent
<1>1. s \in Seq(Event) /\ client'.sent = Append(s, e)
  BY DEF Shapes, Client
<1>2. \A i, j \in DOMAIN s :
        /\ s[i].type \in TextEvent /\ s[j].type = s[i].type
        /\ s[i].body = s[j].body /\ s[i].body # None
        => i = j
  BY DEF ShownOnce
<1> HIDE DEF s
<1>3. /\ DOMAIN s = 1..Len(s) /\ Len(s) \in Nat
      /\ DOMAIN client'.sent = 1..(Len(s) + 1)
      /\ \A i \in DOMAIN s : client'.sent[i] = s[i]
      /\ client'.sent[Len(s) + 1] = e
  BY <1>1, AppendFacts
<1>4. \A i \in DOMAIN client'.sent : i \in DOMAIN s \/ client'.sent[i] = e
  BY <1>3
<1> QED BY <1>2, <1>3, <1>4 DEF ShownOnce

LEMMA SendOnce ==
  ASSUME Shapes, Shapes', Once, Send PROVE Once'
<1> DEFINE e == Head(source.pending)
<1>0. source.pc \in {"running", "ending", "failing"} /\ source.pc # "done"
      /\ source.pending \in Seq(Numbered) /\ source.pending # <<>>
      /\ factory' = factory
  BY DEF Send, Shapes
<1>1. e \in Event
  BY <1>0, HeadTailProperties DEF Numbered
<1>2. CASE /\ client' = IF Shown THEN Apply(client, e) ELSE client
           /\ finished' = (finished \/ e.type \in TerminalEvent)
           /\ source' = [source EXCEPT !.pending = Tail(source.pending)]
  <2>1. source'.pending = Tail(source.pending) /\ source'.pc = source.pc
    BY <1>2 DEF Shapes
  <2>2. Len(Tail(source.pending)) = Len(source.pending) - 1
        /\ \A i \in 1..Len(Tail(source.pending)) :
             Tail(source.pending)[i] = source.pending[i + 1]
    BY <1>0, HeadTailProperties
  <2>3. source.pc = "failing" =>
          /\ e.type \notin TextEvent
          /\ \A i \in DOMAIN source'.pending :
               source'.pending[i].type \notin TextEvent
    <3> SUFFICES ASSUME source.pc = "failing"
                 PROVE  /\ e.type \notin TextEvent
                        /\ \A i \in DOMAIN source'.pending :
                             source'.pending[i].type \notin TextEvent
      OBVIOUS
    <3>1. \A i \in DOMAIN source.pending :
            source.pending[i].type \notin TextEvent
      BY DEF Once
    <3>2. DOMAIN source.pending = 1..Len(source.pending)
          /\ Len(source.pending) \in Nat \ {0} /\ e = source.pending[1]
      BY <1>0
    <3>3. DOMAIN source'.pending = 1..(Len(source.pending) - 1)
      BY <1>0, <2>1, <2>2
    <3>4. \A i \in 1..(Len(source.pending) - 1) :
            i + 1 \in 1..Len(source.pending)
      BY <3>2
    <3> QED BY <2>1, <2>2, <3>1, <3>2, <3>3, <3>4
  <2> HIDE DEF e
  <2>4. CASE finished
    <3>1. finished' /\ client' = client
      BY <1>2, <2>4 DEF Shown
    <3> QED BY <1>0, <2>1, <2>3, <2>4, <3>1 DEF Once, ShownOnce
  <2>5. CASE ~finished
    <3>1. client'.sent = Append(client.sent, e)
      BY <1>1, <1>2, <2>5, ApplyFacts DEF Shown
    <3>2. Line' = Line
      BY <1>0, <2>1, <3>1, LineMoves DEF e
    <3>3. CASE source.pc \in {"running", "ending"}
      <4>1. OnceIn(Line', factory'.keys)
        BY <1>0, <2>5, <3>2, <3>3 DEF Once
      <4>2. ShownOnce'
        <5>1. \A i \in DOMAIN client'.sent :
                i \in DOMAIN Line' /\ Line'[i] = client'.sent[i]
          <6>1. client'.sent \in Seq(Event) /\ source'.pending \in Seq(Event)
            <7>1. Seq(Numbered) \subseteq Seq(Event)
              BY SeqMonotonic DEF Numbered
            <7> QED BY <7>1 DEF Shapes, Client
          <6> DEFINE t == client'.sent p == source'.pending
          <6>2. Line' = t \o p
            BY DEF Line
          <6> HIDE DEF t, p
          <6>3. \A i \in DOMAIN t : i \in DOMAIN (t \o p) /\ (t \o p)[i] = t[i]
            <7>1. t \in Seq(Event) /\ p \in Seq(Event)
              BY <6>1 DEF t, p
            <7> QED BY <7>1, JoinFacts
          <6> QED BY <6>2, <6>3 DEF t
        <5> QED BY ZenonT(60), <5>1, <4>1 DEF OnceIn, ShownOnce, Contentful, TextKey
      <4> QED BY <4>1, <4>2, <3>3, <2>1 DEF Once
    <3>4. CASE source.pc = "failing"
      <4>1. ShownOnce'
        BY <1>1, <2>3, <3>1, <3>4, ShownStays DEF Once
      <4> QED BY <4>1, <2>1, <2>3, <3>4 DEF Once
    <3> QED BY <1>0, <3>3, <3>4
  <2> QED BY <2>4, <2>5
<1>3. CASE ~/\ client' = IF Shown THEN Apply(client, e) ELSE client
            /\ finished' = (finished \/ e.type \in TerminalEvent)
            /\ source' = [source EXCEPT !.pending = Tail(source.pending)]
  <2>1. /\ source' = [source EXCEPT !.pc = "failed", !.pending = <<>>]
        /\ UNCHANGED <<finished, client>>
    BY <1>3 DEF Send, Throws, e
  <2>2. source'.pc = "failed" /\ source'.pending = <<>>
    BY <2>1 DEF Shapes
  <2> QED BY <1>0, <2>1, <2>2, OnceStays
<1> QED BY <1>2, <1>3

LEMMA OnceStep ==
  ASSUME Shapes, Shapes', Once, [Next]_vars PROVE Once'
<1>0. <<>> \in Seq(Numbered) /\ source.pending \in Seq(Numbered)
  BY DEF Shapes
<1>1. CASE Start
  <2> DEFINE d == <<Opening>>
  <2>1. d \in Seq(DraftOK) /\ \A i \in DOMAIN d : Honest(d[i])
    <3>1. Honest(Opening)
      BY DEF Opening, Draft, Honest, Contentful, TextEvent
    <3> QED BY <3>1, OpeningIsSound
  <2>2. /\ source' = [source EXCEPT !.pc = "running",
                                    !.pending = Created(d).events]
        /\ Number(Created(d)) /\ client' = client /\ finished' = finished
        /\ source.pc = "new" /\ source.pending = <<>>
    BY <1>1 DEF Start, Opening, Shapes, Empty
  <2>3. source.pending \o Created(d).events = Created(d).events
    BY <2>1, <2>2, NumberKeepsShape, ConcatEmptySeq
  <2> HIDE DEF d
  <2>4. source'.pending = Created(d).events /\ source'.pc = "running"
    BY <2>2 DEF Shapes
  <2> QED BY <2>1, <2>2, <2>3, <2>4, OnceMade
<1>2. CASE LocalFragment
  <2>1. source'.pending = source.pending /\ source'.pc = source.pc
        /\ UNCHANGED <<factory, client, finished>>
    BY <1>2 DEF LocalFragment, Shapes
  <2> QED BY <2>1, OnceStays
<1>3. CASE End
  <2> DEFINE d == EndDrafts
  <2>1. d \in Seq(DraftOK) /\ \A i \in DOMAIN d : Honest(d[i])
    <3>1. source.fallback \in Nat /\ source.latest \in States \cup {None}
      BY EventProjectionAssumption DEF Shapes, EventProjectionAssumption
    <3>2. d \in Seq(EndDraft)
      BY <3>1, EndDraftsAre
    <3>3. \A i \in DOMAIN d : d[i] \in EndDraft
      BY <3>2
    <3> QED BY <3>2, <3>3, EndDraftIsSound, SeqMonotonic, RestIsHonest
  <2>2. /\ source' = [source EXCEPT !.pc = "ending",
                                    !.pending = Created(d).events]
        /\ Number(Created(d)) /\ client' = client /\ finished' = finished
        /\ source.pc = "running" /\ source.pending = <<>>
    BY <1>3 DEF End, Running
  <2>3. source.pending \o Created(d).events = Created(d).events
    BY <2>1, <2>2, NumberKeepsShape, ConcatEmptySeq
  <2> HIDE DEF d
  <2>4. source'.pending = Created(d).events /\ source'.pc = "ending"
    BY <2>2 DEF Shapes
  <2> QED BY <2>1, <2>2, <2>3, <2>4, OnceMade
<1>4. CASE Send
  BY <1>4, SendOnce
<1>5. CASE Fail
  <2>1. source'.pending = <<>> /\ source'.pc = "failed"
        /\ UNCHANGED <<factory, client, finished>>
    BY <1>5 DEF Fail, Throws, Shapes
  <2> QED BY <2>1, OnceStays
<1>6. CASE Recover
  <2>1. /\ source'.pc = "failing"
        /\ \A i \in DOMAIN source'.pending :
             source'.pending[i].type \in {"run.started", "run.error"}
        /\ UNCHANGED <<factory, client, finished>>
    BY <1>6 DEF Recover, Shapes
  <2>2. \A i \in DOMAIN source'.pending :
          source'.pending[i].type \notin TextEvent
    BY <2>1 DEF TextEvent
  <2> QED BY <2>1, <2>2, OnceStays
<1>7. CASE Return
  <2> DEFINE e == [type |-> "run.error", body |-> None, sequence |-> None]
  <2>1. e \in Event /\ e.type \notin TextEvent
    BY ErrorIsEvent DEF TextEvent
  <2>2. source'.pc = "done" /\ (client' = client \/ client' = Apply(client, e))
    BY <1>7 DEF Return, Shapes
  <2> HIDE DEF e
  <2>3. ShownOnce'
    <3>1. CASE client' = client
      BY <3>1 DEF Once, ShownOnce
    <3>2. CASE client' = Apply(client, e)
      BY <3>2, <2>1, ApplyFacts, ShownStays DEF Once
    <3> QED BY <2>2, <3>1, <3>2
  <2> QED BY <2>2, <2>3 DEF Once
<1>8. CASE Disconnect
  <2>1. client'.sent = client.sent /\ UNCHANGED <<factory, source, finished>>
    BY <1>8 DEF Disconnect, Shapes, Client
  <2> QED BY <2>1, OnceStays
<1>9. CASE Close
  <2>1. source'.pc = "done" /\ client' = client
    BY <1>9 DEF Close, Shapes
  <2> QED BY <2>1 DEF Once, ShownOnce
<1>10. ASSUME NEW o \in Observation, Observe(o) PROVE Once'
  <2> DEFINE d == Drafts(o)
  <2>1. d \in Seq(DraftOK) /\ \A i \in DOMAIN d : Honest(d[i])
    BY DraftsAreSound, DraftsAreHonest
  <2>2. /\ source.pc = "running" /\ client' = client /\ finished' = finished
        /\ \/ /\ Number(Created(d)) /\ source'.pc = "running"
              /\ source'.pending = source.pending \o Created(d).events
           \/ /\ source'.pc = "failed" /\ source'.pending = <<>>
              /\ factory' = factory
    BY <1>10 DEF Observe, Running, Throws, Shapes
  <2> HIDE DEF d
  <2>3. CASE source'.pc = "failed" /\ source'.pending = <<>>
             /\ factory' = factory
    <3>1. \A i \in DOMAIN source'.pending :
            source'.pending[i].type \notin TextEvent
      BY <2>3
    <3> QED BY <2>2, <2>3, <3>1, OnceStays
  <2>4. CASE Number(Created(d)) /\ source'.pc = "running"
             /\ source'.pending = source.pending \o Created(d).events
    BY <2>1, <2>2, <2>4, OnceMade
  <2> QED BY <2>2, <2>3, <2>4
<1>11. CASE UNCHANGED vars
  BY <1>11, OnceStays DEF vars
<1> QED BY <1>1, <1>2, <1>3, <1>4, <1>5, <1>6, <1>7, <1>8, <1>9, <1>10, <1>11
        DEF Next

-----------------------------------------------------------------------------
(* The view: the client shows the body of the last event of a kind.        *)
Kinds(kind) == IF kind = "status" THEN StatusEvent
               ELSE {"task.snapshot", "allowed_actions.changed"}

Value(kind, e) ==
  IF kind = "actions" /\ e.type = "task.snapshot" THEN {} ELSE e.body

Marked(kind, L, v) ==
  \E i \in DOMAIN L :
    /\ L[i].type \in Kinds(kind) /\ v = Value(kind, L[i])
    /\ \A j \in DOMAIN L : j > i => L[j].type \notin Kinds(kind)

LastOf(kind, L, v, default) ==
  \/ v = default /\ \A i \in DOMAIN L : L[i].type \notin Kinds(kind)
  \/ Marked(kind, L, v)

Ongoing == {"patch_goal", "cancel_goal", "pause"}
Over == last # None /\ last.state \in Terminal

EndIsPending ==
  \E i \in DOMAIN source.pending : source.pending[i].type \in TerminalEvent

(* What the dedupe keys of the factory say of the line.                    *)
KeysHold ==
  /\ \A k \in factory.keys : k[1] # "input"
  /\ ~mapper.snapshot =>
       \A k \in factory.keys : k[1] \notin {"snapshot", "status", "actions"}
  /\ \A A \in SUBSET Action : <<"actions", A>> \in factory.keys =>
       A = Ongoing \/ (A = {} /\ Over)
  /\ \A s \in Status : <<"status", s>> \in factory.keys =>
       /\ <<"actions", AllowedActions(s)>> \in factory.keys
       /\ s.state \in Terminal => s = last
       /\ \E i \in DOMAIN Line : /\ Line[i].type = "task.status_changed"
                                 /\ Line[i].body = s

(* The status that the client will show when the line has been sent.       *)
ShowsNext(v) ==
  /\ LastOf("status", Line, v, None)
  /\ LastOf("actions", Line, AllowedActions(v), {})
  /\ IF Over THEN v = last ELSE AllowedActions(v) = Ongoing
  /\ last # None => v = last \/ <<"status", last>> \in factory.keys

View ==
  /\ LastOf("status", client.sent, client.status, None)
  /\ LastOf("actions", client.sent, client.actions, {})
  /\ (source.pc \in {"new", "running"} /\ ~finished /\ ~EndIsPending) =>
       /\ KeysHold
       /\ IF mapper.snapshot THEN \E v \in Statuses : ShowsNext(v)
          ELSE last = None

(* What a view can show.                                                   *)
Views == Statuses \cup {None} \cup (SUBSET Action)

LEMMA LastIsUnique ==
  ASSUME NEW L \in Seq(Event), NEW kind \in {"status", "actions"},
         NEW v \in Views, NEW w \in Views, NEW x \in Views,
         LastOf(kind, L, v, x), LastOf(kind, L, w, x)
  PROVE  v = w
<1> DEFINE Mark(i) == L[i].type \in Kinds(kind)
           Final(i) == \A j \in DOMAIN L : j > i => ~Mark(j)
<1>1. CASE \A i \in DOMAIN L : ~Mark(i)
  BY <1>1 DEF LastOf, Marked
<1>2. CASE \E i \in DOMAIN L : Mark(i)
  <2>1. PICK i \in DOMAIN L : Mark(i) /\ v = Value(kind, L[i]) /\ Final(i)
    BY <1>2 DEF LastOf, Marked
  <2>2. PICK j \in DOMAIN L : Mark(j) /\ w = Value(kind, L[j]) /\ Final(j)
    BY <1>2 DEF LastOf, Marked
  <2>3. i \in Nat /\ j \in Nat
    OBVIOUS
  <2>4. ~(j > i) /\ ~(i > j)
    BY <2>1, <2>2
  <2> HIDE DEF Mark, Final
  <2>5. i = j
    BY <2>3, <2>4
  <2> QED BY <2>1, <2>2, <2>5
<1> QED BY <1>1, <1>2

LEMMA MarkJoins ==
  ASSUME NEW L \in Seq(Event), NEW E \in Seq(Event),
         NEW kind \in {"status", "actions"}, NEW w \in Views,
         Marked(kind, E, w)
  PROVE  Marked(kind, L \o E, w)
<1> DEFINE C == L \o E
<1>1. /\ DOMAIN L = 1..Len(L) /\ DOMAIN E = 1..Len(E)
      /\ DOMAIN C = 1..(Len(L) + Len(E))
      /\ Len(L) \in Nat /\ Len(E) \in Nat
      /\ \A i \in DOMAIN E : Len(L) + i \in DOMAIN C /\ C[Len(L) + i] = E[i]
      /\ \A i \in DOMAIN C :
           i \in DOMAIN L \/ \E k \in DOMAIN E : i = Len(L) + k
  BY JoinFacts
<1> HIDE DEF C
<1>2. PICK i \in DOMAIN E :
        /\ E[i].type \in Kinds(kind) /\ w = Value(kind, E[i])
        /\ \A j \in DOMAIN E : j > i => E[j].type \notin Kinds(kind)
  BY DEF Marked
<1> DEFINE n == Len(L) + i
<1>3. n \in DOMAIN C /\ C[n] = E[i]
  BY <1>1
<1>4. ASSUME NEW j \in DOMAIN C, j > n PROVE C[j].type \notin Kinds(kind)
  <2>1. j \notin DOMAIN L
    BY <1>1, <1>4
  <2>2. PICK k \in DOMAIN E : j = Len(L) + k
    BY <1>1, <2>1
  <2>3. k > i
    BY <1>1, <1>4, <2>2
  <2> QED BY <1>1, <1>2, <2>2, <2>3
<1> HIDE DEF n
<1> QED BY <1>2, <1>3, <1>4 DEF Marked, C

LEMMA LastJoins ==
  ASSUME NEW L \in Seq(Event), NEW E \in Seq(Event),
         NEW kind \in {"status", "actions"},
         NEW v \in Views, NEW w \in Views, NEW x \in Views,
         LastOf(kind, L, v, x), LastOf(kind, E, w, v)
  PROVE  LastOf(kind, L \o E, w, x)
<1> DEFINE C == L \o E
<1>1. /\ DOMAIN L = 1..Len(L) /\ DOMAIN E = 1..Len(E)
      /\ DOMAIN C = 1..(Len(L) + Len(E))
      /\ Len(L) \in Nat /\ Len(E) \in Nat
      /\ \A i \in DOMAIN L : i \in DOMAIN C /\ C[i] = L[i]
      /\ \A i \in DOMAIN E : Len(L) + i \in DOMAIN C /\ C[Len(L) + i] = E[i]
      /\ \A i \in DOMAIN C :
           i \in DOMAIN L \/ \E k \in DOMAIN E : i = Len(L) + k
  BY JoinFacts
<1> HIDE DEF C
<1>2. CASE w = v /\ \A i \in DOMAIN E : E[i].type \notin Kinds(kind)
  <2>1. \A i \in DOMAIN C : C[i].type \in Kinds(kind) => i \in DOMAIN L
    BY <1>1, <1>2
  <2>2. CASE v = x /\ \A i \in DOMAIN L : L[i].type \notin Kinds(kind)
    BY <1>1, <1>2, <2>1, <2>2 DEF LastOf, Marked, C
  <2>3. ASSUME NEW i \in DOMAIN L,
               L[i].type \in Kinds(kind), v = Value(kind, L[i]),
               \A j \in DOMAIN L : j > i => L[j].type \notin Kinds(kind)
        PROVE  LastOf(kind, C, w, x)
    <3>1. \A j \in DOMAIN C : j > i => C[j].type \notin Kinds(kind)
      BY <1>1, <2>1, <2>3
    <3>2. i \in DOMAIN C /\ C[i] = L[i]
      BY <1>1
    <3> QED BY <1>2, <2>3, <3>1, <3>2 DEF LastOf, Marked
  <2> QED BY <2>2, <2>3 DEF LastOf, Marked, C
<1>3. CASE Marked(kind, E, w)
  BY <1>3, MarkJoins DEF LastOf, C
<1> QED BY <1>2, <1>3 DEF LastOf

LEMMA MarkMade ==
  ASSUME Shapes, NEW d \in Seq(DraftOK), NEW kind \in {"status", "actions"},
         NEW p \in Made(d), d[p].type \in Kinds(kind),
         \A q \in DOMAIN d : q > p => d[q].type \notin Kinds(kind)
  PROVE  Marked(kind, Created(d).events, Value(kind, d[p]))
<1> DEFINE E == Created(d).events
<1>1. PICK origin \in Origins(d) : ComesFrom(E, d, origin)
  BY CreatedFacts DEF Shapes
<1>2. E \in Seq(Numbered)
  BY CreatedFacts DEF Shapes
<1> HIDE DEF E
<1>3. PICK n \in DOMAIN E : origin[n] = p
  BY <1>1 DEF ComesFrom
<1>4. E[n].type = d[p].type /\ E[n].body = d[p].body
  BY <1>1, <1>3 DEF ComesFrom
<1>5. \A m \in DOMAIN E : m > n => E[m].type \notin Kinds(kind)
  <2> SUFFICES ASSUME NEW m \in DOMAIN E, m > n
               PROVE  E[m].type \notin Kinds(kind)
    OBVIOUS
  <2>1. n < m
    BY <1>2
  <2>2. origin[n] < origin[m] /\ origin[m] \in DOMAIN d
    BY <1>1, <2>1 DEF ComesFrom, Made
  <2>3. origin[m] > p
    BY <1>3, <2>2
  <2> QED BY <1>1, <2>2, <2>3 DEF ComesFrom
<1>6. Value(kind, E[n]) = Value(kind, d[p])
  BY <1>4 DEF Value
<1> QED BY <1>4, <1>5, <1>6 DEF Marked, E

LEMMA LastOfNone ==
  ASSUME Shapes, NEW d \in Seq(DraftOK), NEW kind \in {"status", "actions"},
         \A i \in Made(d) : d[i].type \notin Kinds(kind)
  PROVE  \A v : LastOf(kind, Created(d).events, v, v)
<1> DEFINE E == Created(d).events
<1>1. PICK origin \in Origins(d) : ComesFrom(E, d, origin)
  BY CreatedFacts DEF Shapes
<1> HIDE DEF E
<1>2. \A n \in DOMAIN E : E[n].type \notin Kinds(kind)
  BY <1>1 DEF ComesFrom
<1> QED BY <1>2 DEF LastOf, Marked, E

-----------------------------------------------------------------------------
(* What an observation adds to the line and to the keys.                   *)
LEMMA RestFacts ==
  \A d \in Rest :
    /\ d.type \notin StatusEvent \cup {"allowed_actions.changed"}
    /\ d.key[1] \in {"message", "artifact", "input", "gap"}
    /\ d.key[1] = "input" => d.type = "input.required"
BY DEF Rest, Draft, StatusEvent

LEMMA HeadPositions ==
  ASSUME NEW o \in Observation, Headed(o)
  PROVE  LET s == Shows(o) d == Drafts(o) IN
         /\ o.task \in Task /\ s \in Statuses
         /\ mapper.snapshot =>
              /\ {1, 2} \subseteq DOMAIN d
              /\ d[1] = Draft("task.status_changed", <<"status", s>>, s)
              /\ d[2] = ActionsDraft(s)
              /\ \A i \in DOMAIN d : i > 2 => d[i] \in Rest
         /\ ~mapper.snapshot =>
              /\ {1, 2, 3} \subseteq DOMAIN d
              /\ d[1] = Draft("task.bound", <<"bound", o.task>>, o.task)
              /\ d[2] = Draft("task.snapshot", <<"snapshot", o.task>>, s)
              /\ d[3] = ActionsDraft(s)
              /\ \A i \in DOMAIN d : i > 3 => d[i] \in Rest
<1> DEFINE s == Shows(o)
           b == Draft("task.bound", <<"bound", o.task>>, o.task)
           n == Draft("task.snapshot", <<"snapshot", o.task>>, s)
           c == Draft("task.status_changed", <<"status", s>>, s)
           a == ActionsDraft(s)
           H == StatusDrafts(o.task, s)
           d == Drafts(o)
<1>1. o.task \in Task /\ s \in Statuses
  BY ObservationFacts DEF Headed, Shows, Statuses
<1>2. PICK R \in Seq(Rest) : IsTail(o, R)
  BY DraftsHaveTail
<1>3. H \in Seq(DraftOK) /\ R \in Seq(DraftOK)
  BY <1>1, StatusDraftsAreSound, RestIsSound, SeqMonotonic
<1>4. d = H \o R
  BY <1>2 DEF IsTail
<1>5. H = IF mapper.snapshot THEN <<c, a>> ELSE <<b, n, a>>
  BY DEF StatusDrafts
<1> HIDE DEF s, b, n, c, a, H, d
<1>6. /\ DOMAIN H = 1..Len(H) /\ DOMAIN R = 1..Len(R)
      /\ Len(H) \in Nat
      /\ \A i \in DOMAIN H : i \in DOMAIN d /\ d[i] = H[i]
      /\ \A i \in DOMAIN d :
           i \in DOMAIN H \/ \E k \in DOMAIN R : i = Len(H) + k /\ d[i] = R[k]
  BY <1>3, <1>4, JoinFacts
<1>7. \A k \in DOMAIN R : R[k] \in Rest
  BY <1>2
<1>8. \A i \in DOMAIN d : i > Len(H) => d[i] \in Rest
  BY <1>6, <1>7
<1>9. CASE mapper.snapshot
  <2>1. H = <<c, a>> /\ Len(H) = 2
    BY <1>5, <1>9
  <2> QED BY <1>1, <1>6, <1>8, <1>9, <2>1 DEF s, c, a, d
<1>10. CASE ~mapper.snapshot
  <2>1. H = <<b, n, a>> /\ Len(H) = 3
    BY <1>5, <1>10
  <2> QED BY <1>1, <1>6, <1>8, <1>10, <2>1 DEF s, b, n, a, d
<1> QED BY <1>9, <1>10

LEMMA PendingGrows ==
  ASSUME Shapes, NEW d \in Seq(DraftOK),
         source'.pending = source.pending \o Created(d).events
  PROVE  /\ EndIsPending => EndIsPending'
         /\ \A i \in Made(d) : d[i].type \in TerminalEvent => EndIsPending'
<1> DEFINE E == Created(d).events p == source.pending
<1>1. PICK origin \in Origins(d) : ComesFrom(E, d, origin)
  BY CreatedFacts DEF Shapes
<1>2. E \in Seq(Numbered) /\ p \in Seq(Numbered) /\ source'.pending = p \o E
  BY CreatedFacts DEF Shapes
<1>3. EndIsPending <=> \E i \in DOMAIN p : p[i].type \in TerminalEvent
  BY DEF EndIsPending
<1> HIDE DEF E, p
<1>4. /\ \A i \in DOMAIN p : i \in DOMAIN (p \o E) /\ (p \o E)[i] = p[i]
      /\ \A i \in DOMAIN E : /\ Len(p) + i \in DOMAIN (p \o E)
                             /\ (p \o E)[Len(p) + i] = E[i]
  BY <1>2, JoinFacts
<1>5. ASSUME NEW i \in Made(d), d[i].type \in TerminalEvent PROVE EndIsPending'
  <2>1. PICK n \in DOMAIN E : origin[n] = i
    BY <1>1 DEF ComesFrom
  <2>2. E[n].type \in TerminalEvent
    BY <1>1, <1>5, <2>1 DEF ComesFrom
  <2> QED BY <1>2, <1>4, <2>2 DEF EndIsPending
<1>6. EndIsPending => EndIsPending'
  BY <1>2, <1>3, <1>4 DEF EndIsPending
<1> QED BY <1>5, <1>6

(* The keys that drafts add.                                               *)
LEMMA KeysGrow ==
  ASSUME Shapes, NEW d \in Seq(DraftOK)
  PROVE  /\ factory.keys \subseteq Created(d).keys
         /\ \A k \in Created(d).keys :
              k \in factory.keys \/ \E i \in Made(d) : k = d[i].key /\ k # None
         /\ \A i \in Made(d) : d[i].key = None \/ d[i].key \in Created(d).keys
         /\ \A i \in Made(d) : d[i].key # None => d[i].key \notin factory.keys
         /\ Made(d) \subseteq DOMAIN d
<1>1. Created(d).keys = factory.keys \cup ({d[i].key : i \in Made(d)} \ {None})
  BY CreatedFacts DEF Shapes
<1>2. \A i \in Made(d) : d[i].key # None => d[i].key \notin factory.keys
  BY DEF Made, Fresh
<1> QED BY <1>1, <1>2 DEF Made

(* A status that asks for input ends the run: its signal is made, since no *)
(* such signal was made before.                                            *)
LEMMA InputEnds ==
  ASSUME Shapes, KeysHold, NEW o \in Observation,
         o.kind = "status", o.status.state = "INPUT_REQUIRED",
         source'.pending = source.pending \o Created(Drafts(o)).events
  PROVE  EndIsPending'
<1> DEFINE d == Drafts(o) k == <<"input", o.status.phase>>
           S == {i \in DOMAIN d : d[i].key = k}
<1>1. PICK R \in Seq(Rest) : IsTail(o, R)
  BY DraftsHaveTail
<1>2. Headed(o)
  BY DEF Headed
<1>3. PICK r \in DOMAIN R : R[r] = Draft("input.required", k, o.status)
  BY <1>1 DEF IsTail
<1>4. d \in Seq(DraftOK) /\ d = StatusDrafts(o.task, Shows(o)) \o R
  BY <1>1, <1>2, DraftsAreSound DEF IsTail
<1>5. StatusDrafts(o.task, Shows(o)) \in Seq(DraftOK) /\ R \in Seq(DraftOK)
  BY <1>2, HeadPositions, StatusDraftsAreSound, RestIsSound, SeqMonotonic
<1>6. \E i \in DOMAIN d : d[i] = R[r]
  <2> DEFINE H == StatusDrafts(o.task, Shows(o))
  <2>1. H \in Seq(DraftOK) /\ R \in Seq(DraftOK) /\ d = H \o R
    BY <1>4, <1>5
  <2> HIDE DEF d, H
  <2>2. Len(H) + r \in DOMAIN d /\ d[Len(H) + r] = R[r]
    BY <1>3, <2>1, JoinFacts
  <2> QED BY <2>2
<1>7. S \in SUBSET Nat /\ S # {}
  <2>1. DOMAIN d = 1..Len(d) /\ Len(d) \in Nat
    BY <1>4
  <2>2. R[r].key = k
    BY <1>3 DEF Draft
  <2> HIDE DEF d, k
  <2> QED BY <1>6, <2>1, <2>2
<1>8. PICK i \in S : \A j \in S : i <= j
  <2> HIDE DEF S
  <2> QED BY <1>7, Least
<1>9. k \notin factory.keys
  BY DEF KeysHold
<1>10. i \in Made(d)
  <2>1. i \in DOMAIN d /\ d[i].key = k /\ i \in Nat
    BY <1>7, <1>8
  <2>2. \A j \in 1..(i - 1) : j \in DOMAIN d /\ j < i
    BY <1>4, <2>1
  <2>3. \A j \in 1..(i - 1) : d[j].key # k
    BY <1>8, <2>1, <2>2
  <2> QED BY <1>9, <2>1, <2>3 DEF Made, Fresh
<1>11. d[i].type = "input.required"
  <2>1. i \in DOMAIN d /\ d[i].key = k /\ k[1] = "input"
    BY <1>8
  <2>2. i \in Nat /\ i >= 1
    BY <1>4, <2>1
  <2>3. \A s : Draft("task.status_changed", <<"status", s>>, s).key[1] = "status"
    BY DEF Draft
  <2>4. \A s : ActionsDraft(s).key[1] = "actions"
    BY DEF Draft, ActionsDraft
  <2>5. \A t : Draft("task.bound", <<"bound", t>>, t).key[1] = "bound"
    BY DEF Draft
  <2>6. \A t, s : Draft("task.snapshot", <<"snapshot", t>>, s).key[1] = "snapshot"
    BY DEF Draft
  <2> DEFINE s == Shows(o)
             b == Draft("task.bound", <<"bound", o.task>>, o.task)
             n == Draft("task.snapshot", <<"snapshot", o.task>>, s)
             c == Draft("task.status_changed", <<"status", s>>, s)
             a == ActionsDraft(s)
  <2>7. /\ mapper.snapshot =>
             d[1] = c /\ d[2] = a /\ \A j \in DOMAIN d : j > 2 => d[j] \in Rest
        /\ ~mapper.snapshot =>
             /\ d[1] = b /\ d[2] = n /\ d[3] = a
             /\ \A j \in DOMAIN d : j > 3 => d[j] \in Rest
    BY <1>2, HeadPositions
  <2>8. /\ b.key[1] = "bound" /\ n.key[1] = "snapshot"
        /\ c.key[1] = "status" /\ a.key[1] = "actions"
    BY <2>3, <2>4, <2>5, <2>6
  <2>9. k[1] = "input"
    OBVIOUS
  <2> HIDE DEF d, k, b, n, c, a
  <2>10. i # 1 /\ i # 2 /\ (~mapper.snapshot => i # 3)
    BY <2>1, <2>7, <2>8
  <2>11. d[i] \in Rest
    BY <2>1, <2>2, <2>7, <2>10
  <2> QED BY <2>1, <2>9, <2>11, RestFacts
<1> QED BY <1>4, <1>10, <1>11, PendingGrows DEF TerminalEvent
-----------------------------------------------------------------------------
(* An observation that is taken, and does not end the run.                 *)
Seen(o) ==
  /\ source.pc = "running" /\ ~finished /\ Follows(o)
  /\ source'.pending = source.pending \o Created(Drafts(o)).events
  /\ client' = client /\ finished' = finished
  /\ factory'.keys = Created(Drafts(o)).keys
  /\ mapper'.snapshot = IF o.kind = "message" THEN mapper.snapshot ELSE TRUE
  /\ last' = IF o.kind = "status" THEN o.status ELSE last
  /\ ~EndIsPending'

LEMMA SeenFacts ==
  ASSUME Shapes, KeysHold, NEW o \in Observation, Seen(o)
  PROVE  /\ Drafts(o) \in Seq(DraftOK)
         /\ Line' = Line \o Created(Drafts(o)).events
         /\ Created(Drafts(o)).events \in Seq(Event)
         /\ o.kind = "status" => o.status.state # "INPUT_REQUIRED"
         /\ \A i \in Made(Drafts(o)) : Drafts(o)[i].type \notin TerminalEvent
<1>1. Drafts(o) \in Seq(DraftOK)
  BY DraftsAreSound
<1>2. client'.sent = client.sent
      /\ source'.pending = source.pending \o Created(Drafts(o)).events
      /\ ~EndIsPending'
  BY DEF Seen
<1>3. Line' = Line \o Created(Drafts(o)).events
      /\ Created(Drafts(o)).events \in Seq(Event)
  BY <1>1, <1>2, LineGrows
<1>4. o.kind = "status" => o.status.state # "INPUT_REQUIRED"
  BY <1>2, InputEnds
<1>5. \A i \in Made(Drafts(o)) : Drafts(o)[i].type \notin TerminalEvent
  BY <1>1, <1>2, PendingGrows
<1> QED BY <1>1, <1>3, <1>4, <1>5

(* The value of a kind moves on with the events that are made.             *)
LEMMA ValueMoves ==
  ASSUME Shapes, KeysHold, NEW o \in Observation, Seen(o),
         NEW kind \in {"status", "actions"},
         NEW v \in Views, NEW w \in Views, NEW x \in Views,
         LastOf(kind, Line, v, x),
         LastOf(kind, Created(Drafts(o)).events, w, v)
  PROVE  LastOf(kind, Line', w, x)
<1>1. Line \in Seq(Event) /\ Created(Drafts(o)).events \in Seq(Event)
      /\ Line' = Line \o Created(Drafts(o)).events
  BY LineFacts, SeenFacts
<1> DEFINE L == Line E == Created(Drafts(o)).events
<1>2. LastOf(kind, L, v, x) /\ LastOf(kind, E, w, v)
      /\ L \in Seq(Event) /\ E \in Seq(Event) /\ Line' = L \o E
  BY <1>1
<1> HIDE DEF L, E
<1>3. LastOf(kind, L \o E, w, x)
  BY <1>2, LastJoins
<1> QED BY <1>2, <1>3

LEMMA ViewsAre ==
  /\ \A s \in Statuses : s \in Views /\ AllowedActions(s) \in Views
  /\ None \in Views /\ {} \in Views
<1>1. \A s \in Statuses : AllowedActions(s) \in SUBSET Action
  BY ActionsAreActions
<1> QED BY <1>1 DEF Views

(* What remains of the drafts shows no status and adds no key of one.      *)
LEMMA RestIsQuiet ==
  ASSUME Shapes, KeysHold, NEW o \in Observation, Seen(o)
  PROVE  \A i \in Made(Drafts(o)) : Drafts(o)[i] \in Rest =>
           /\ Drafts(o)[i].type \notin Kinds("status") \cup Kinds("actions")
           /\ Drafts(o)[i].key[1] \in {"message", "artifact", "gap"}
<1> SUFFICES ASSUME NEW i \in Made(Drafts(o)), Drafts(o)[i] \in Rest
             PROVE  /\ Drafts(o)[i].type \notin Kinds("status") \cup Kinds("actions")
                    /\ Drafts(o)[i].key[1] \in {"message", "artifact", "gap"}
  OBVIOUS
<1> DEFINE d == Drafts(o)[i]
<1>1. d.type \notin TerminalEvent /\ d \in Rest
  BY SeenFacts
<1> HIDE DEF d
<1>2. /\ d.type \notin StatusEvent \cup {"allowed_actions.changed"}
      /\ d.key[1] \in {"message", "artifact", "input", "gap"}
      /\ d.key[1] = "input" => d.type = "input.required"
  BY <1>1, RestFacts
<1>3. d.type \notin Kinds("status") \cup Kinds("actions")
      /\ d.key[1] \in {"message", "artifact", "gap"}
  BY <1>1, <1>2 DEF Kinds, StatusEvent, TerminalEvent
<1> QED BY <1>3 DEF d

(* The goal of the three cases: the keys and the view hold afterwards.     *)
LEMMA HeadlessSeen ==
  ASSUME Shapes, KeysHold, NEW o \in Observation, Seen(o), ~Headed(o)
  PROVE  /\ KeysHold'
         /\ \A v \in Statuses : ShowsNext(v) => ShowsNext(v)'
         /\ mapper'.snapshot <=> mapper.snapshot
         /\ last' = last
<1> DEFINE d == Drafts(o)
<1>1. /\ mapper'.snapshot <=> mapper.snapshot
      /\ last' = last
  BY ObservationFacts DEF Seen, Headed, Shapes
<1>2. \A i \in DOMAIN d : d[i] \in Rest
  <2>1. d \in Seq(Rest)
    BY DraftsHaveTail DEF IsTail
  <2> QED BY <2>1
<1>3. d \in Seq(DraftOK)
  BY SeenFacts
<1>4. \A k \in factory'.keys :
        k \in factory.keys \/ k[1] \in {"message", "artifact", "gap"}
  <2>1. factory'.keys = Created(d).keys
    BY DEF Seen
  <2>2. \A i \in Made(d) : d[i].key[1] \in {"message", "artifact", "gap"}
    BY <1>2, RestIsQuiet DEF Made
  <2> HIDE DEF d
  <2> QED BY <1>3, <2>1, <2>2, KeysGrow
<1>5. factory.keys \subseteq factory'.keys
  BY <1>3, KeysGrow DEF Seen
<1>6. \A v : /\ LastOf("status", Created(d).events, v, v)
             /\ LastOf("actions", Created(d).events, v, v)
  <2>1. \A i \in Made(d) : d[i].type \notin Kinds("status") \cup Kinds("actions")
    BY <1>2, RestIsQuiet DEF Made
  <2> HIDE DEF d
  <2> QED BY <2>1, <1>3, LastOfNone
<1>7. \A i \in DOMAIN Line : i \in DOMAIN Line' /\ Line'[i] = Line[i]
  <2> DEFINE L == Line E == Created(d).events
  <2>1. L \in Seq(Event) /\ E \in Seq(Event) /\ Line' = L \o E
    BY LineFacts, SeenFacts
  <2> HIDE DEF L, E
  <2>2. \A i \in DOMAIN L : i \in DOMAIN (L \o E) /\ (L \o E)[i] = L[i]
    BY <2>1, JoinFacts
  <2> QED BY <2>1, <2>2 DEF L
<1> HIDE DEF d
<1>8. KeysHold'
  <2>1. \A k \in factory'.keys : k[1] # "input"
    BY <1>4 DEF KeysHold
  <2>2. ~mapper'.snapshot =>
          \A k \in factory'.keys : k[1] \notin {"snapshot", "status", "actions"}
    BY <1>1, <1>4 DEF KeysHold
  <2>3. \A A \in SUBSET Action : <<"actions", A>> \in factory'.keys =>
          <<"actions", A>> \in factory.keys
    BY <1>4
  <2>4. \A s \in Status : <<"status", s>> \in factory'.keys =>
          <<"status", s>> \in factory.keys
    BY <1>4
  <2>5. Over' <=> Over
    BY <1>1 DEF Over
  <2>6. \A A \in SUBSET Action : <<"actions", A>> \in factory'.keys =>
          A = Ongoing \/ (A = {} /\ Over')
    BY <2>3, <2>5 DEF KeysHold
  <2>7. ASSUME NEW s \in Status, <<"status", s>> \in factory'.keys
        PROVE  /\ <<"actions", AllowedActions(s)>> \in factory'.keys
               /\ s.state \in Terminal => s = last'
               /\ \E i \in DOMAIN Line' : /\ Line'[i].type = "task.status_changed"
                                          /\ Line'[i].body = s
    <3>1. /\ <<"actions", AllowedActions(s)>> \in factory.keys
          /\ s.state \in Terminal => s = last
          /\ \E i \in DOMAIN Line : /\ Line[i].type = "task.status_changed"
                                    /\ Line[i].body = s
      BY <2>4, <2>7 DEF KeysHold
    <3> QED BY <3>1, <1>1, <1>5, <1>7
  <2> QED BY <2>1, <2>2, <2>6, <2>7 DEF KeysHold
<1>9. ASSUME NEW v \in Statuses, ShowsNext(v) PROVE ShowsNext(v)'
  <2>1. v \in Views /\ AllowedActions(v) \in Views /\ None \in Views /\ {} \in Views
    BY ViewsAre
  <2>2. LastOf("status", Line', v, None)
    <3>1. LastOf("status", Line, v, None)
      BY <1>9 DEF ShowsNext
    <3> QED BY <1>6, <2>1, <3>1, ValueMoves DEF d
  <2>3. LastOf("actions", Line', AllowedActions(v), {})
    <3>1. LastOf("actions", Line, AllowedActions(v), {})
      BY <1>9 DEF ShowsNext
    <3> QED BY <1>6, <2>1, <3>1, ValueMoves DEF d
  <2>4. IF Over' THEN v = last' ELSE AllowedActions(v) = Ongoing
    BY <1>1, <1>9 DEF ShowsNext, Over
  <2>5. last' # None => v = last' \/ <<"status", last'>> \in factory'.keys
    BY <1>1, <1>5, <1>9 DEF ShowsNext
  <2> QED BY <2>2, <2>3, <2>4, <2>5 DEF ShowsNext
<1> QED BY <1>1, <1>8, <1>9

LEMMA MarkMoves ==
  ASSUME Shapes, KeysHold, NEW o \in Observation, Seen(o),
         NEW kind \in {"status", "actions"}, NEW w \in Views,
         Marked(kind, Created(Drafts(o)).events, w)
  PROVE  Marked(kind, Line', w)
<1>1. Line \in Seq(Event) /\ Created(Drafts(o)).events \in Seq(Event)
      /\ Line' = Line \o Created(Drafts(o)).events
  BY LineFacts, SeenFacts
<1> DEFINE L == Line E == Created(Drafts(o)).events
<1>2. Marked(kind, E, w)
      /\ L \in Seq(Event) /\ E \in Seq(Event) /\ Line' = L \o E
  BY <1>1
<1> HIDE DEF L, E
<1>3. Marked(kind, L \o E, w)
  BY <1>2, MarkJoins
<1> QED BY <1>2, <1>3

LEMMA ActionsAre ==
  /\ AllowedActions(Working) = Ongoing
  /\ \A s : s.state \in Terminal => AllowedActions(s) = {}
  /\ \A s : s.state \notin Terminal /\ s.state # "INPUT_REQUIRED" =>
       AllowedActions(s) = Ongoing
<1>1. Working.state = "WORKING"
  BY DEF Working
<1> QED BY <1>1 DEF AllowedActions, Ongoing, Terminal

LEMMA FirstSeen ==
  ASSUME Shapes, KeysHold, NEW o \in Observation, Seen(o), Headed(o),
         ~mapper.snapshot, last = None
  PROVE  /\ KeysHold'
         /\ mapper'.snapshot
         /\ ShowsNext(Shows(o))'
<1> DEFINE d == Drafts(o) s == Shows(o)
           b == Draft("task.bound", <<"bound", o.task>>, o.task)
           n == Draft("task.snapshot", <<"snapshot", o.task>>, s)
           a == ActionsDraft(s)
           E == Created(d).events
<1>1. /\ o.task \in Task /\ s \in Statuses
      /\ {1, 2, 3} \subseteq DOMAIN d
      /\ d[1] = b /\ d[2] = n /\ d[3] = a
      /\ \A i \in DOMAIN d : i > 3 => d[i] \in Rest
  BY HeadPositions
<1>2. /\ b.type = "task.bound" /\ b.key = <<"bound", o.task>>
      /\ n.type = "task.snapshot" /\ n.key = <<"snapshot", o.task>>
      /\ n.body = s
      /\ a.type = "allowed_actions.changed"
      /\ a.key = <<"actions", AllowedActions(s)>>
      /\ a.body = AllowedActions(s)
  BY DEF Draft, ActionsDraft
<1>3. d \in Seq(DraftOK) /\ factory'.keys = Created(d).keys
  BY SeenFacts DEF Seen
<1>4. DOMAIN d = 1..Len(d) /\ Len(d) \in Nat
  BY <1>3
<1>5. \A i \in Made(d) : d[i] \in Rest =>
           /\ d[i].type \notin Kinds("status") \cup Kinds("actions")
           /\ d[i].key[1] \in {"message", "artifact", "gap"}
  BY RestIsQuiet
<1>6. /\ mapper'.snapshot
      /\ last' = IF o.kind = "status" THEN o.status ELSE None
      /\ o.kind \in {"status", "artifact"}
      /\ o.kind = "status" => /\ s = o.status /\ s \in Status
                              /\ s.state # "INPUT_REQUIRED"
      /\ o.kind # "status" => s = Working
  BY ObservationFacts, SeenFacts DEF Seen, Headed, Shows
<1>7. \A k \in factory.keys : k[1] \notin {"snapshot", "status", "actions"}
  BY DEF KeysHold
<1>8. IF Over' THEN s = last' /\ AllowedActions(s) = {}
      ELSE AllowedActions(s) = Ongoing
  BY <1>6, ActionsAre, EventProjectionAssumption DEF Over
<1>9. /\ s \in Views /\ AllowedActions(s) \in Views
      /\ AllowedActions(s) \in SUBSET Action
  BY <1>1, ViewsAre, ActionsAreActions
<1> HIDE DEF d, b, n, a, s
<1>10. 2 \in Made(d) /\ 3 \in Made(d)
  <2>1. Fresh(d, 2)
    <3>1. \A j \in 1..(2 - 1) : j = 1
      OBVIOUS
    <3>2. n.key # b.key /\ n.key \notin factory.keys
      BY <1>2, <1>7
    <3> QED BY <1>1, <3>1, <3>2 DEF Fresh
  <2>2. Fresh(d, 3)
    <3>1. \A j \in 1..(3 - 1) : j = 1 \/ j = 2
      OBVIOUS
    <3>2. a.key # b.key /\ a.key # n.key /\ a.key \notin factory.keys
      BY <1>2, <1>7
    <3> QED BY <1>1, <3>1, <3>2 DEF Fresh
  <2> QED BY <1>1, <2>1, <2>2 DEF Made
<1>11. \A k \in factory'.keys :
         \/ k \in factory.keys
         \/ k[1] \in {"message", "artifact", "gap", "bound", "snapshot"}
         \/ k = <<"actions", AllowedActions(s)>>
  <2>1. \A i \in Made(d) :
          \/ d[i].key[1] \in {"message", "artifact", "gap", "bound", "snapshot"}
          \/ d[i].key = <<"actions", AllowedActions(s)>>
    <3> SUFFICES ASSUME NEW i \in Made(d)
                 PROVE \/ d[i].key[1] \in {"message", "artifact", "gap",
                                           "bound", "snapshot"}
                       \/ d[i].key = <<"actions", AllowedActions(s)>>
      OBVIOUS
    <3>1. i \in DOMAIN d
      BY DEF Made
    <3>2. i = 1 \/ i = 2 \/ i = 3 \/ i > 3
      BY <3>1, <1>4
    <3>3. b.key[1] = "bound" /\ n.key[1] = "snapshot"
      BY <1>2
    <3> QED BY <1>1, <1>2, <1>5, <3>1, <3>2, <3>3
  <2>2. \A k \in Created(d).keys :
          k \in factory.keys \/ \E i \in Made(d) : k = d[i].key
    BY <1>3, KeysGrow
  <2> DEFINE P(k) ==
        \/ k[1] \in {"message", "artifact", "gap", "bound", "snapshot"}
        \/ k = <<"actions", AllowedActions(s)>>
  <2>3. \A i \in Made(d) : P(d[i].key)
    BY <2>1
  <2> HIDE DEF P
  <2>4. \A k \in factory'.keys : k \in factory.keys \/ P(k)
    BY <1>3, <2>2, <2>3
  <2> QED BY <2>4 DEF P
<1>12. Marked("status", Line', s)
  <2>1. \A q \in DOMAIN d : q > 2 => d[q].type \notin Kinds("status")
    <3>1. \A q \in DOMAIN d : q > 2 => q = 3 \/ q > 3
      BY <1>4
    <3>2. a.type \notin Kinds("status")
      BY <1>2 DEF Kinds, StatusEvent
    <3>3. \A q \in DOMAIN d : d[q] \in Rest => d[q].type \notin Kinds("status")
      BY RestFacts DEF Kinds
    <3> QED BY <1>1, <3>1, <3>2, <3>3
  <2>2. d[2].type \in Kinds("status") /\ Value("status", d[2]) = s
    BY <1>1, <1>2 DEF Kinds, StatusEvent, Value
  <2>3. Marked("status", Created(d).events, s)
    BY <1>3, <1>10, <2>1, <2>2, MarkMade
  <2> QED BY <2>3, <1>9, MarkMoves DEF d
<1>13. Marked("actions", Line', AllowedActions(s))
  <2>1. \A q \in DOMAIN d : q > 3 => d[q].type \notin Kinds("actions")
    <3>1. \A q \in DOMAIN d : d[q] \in Rest => d[q].type \notin Kinds("actions")
      BY RestFacts DEF Kinds, StatusEvent
    <3> QED BY <1>1, <3>1
  <2>2. d[3].type \in Kinds("actions")
        /\ Value("actions", d[3]) = AllowedActions(s)
    BY <1>1, <1>2 DEF Kinds, Value
  <2>3. Marked("actions", Created(d).events, AllowedActions(s))
    BY <1>3, <1>10, <2>1, <2>2, MarkMade
  <2> QED BY <2>3, <1>9, MarkMoves DEF d
<1>14. KeysHold'
  <2>1. \A k \in factory'.keys : k[1] # "input"
    <3>1. \A k \in factory.keys : k[1] # "input"
      BY DEF KeysHold
    <3> QED BY <1>11, <3>1
  <2>2. \A t : <<"status", t>> \notin factory'.keys
    <3>1. \A t : <<"status", t>> \notin factory.keys
      BY <1>7
    <3> QED BY <1>11, <3>1
  <2>3. ASSUME NEW A \in SUBSET Action, <<"actions", A>> \in factory'.keys
        PROVE  A = Ongoing \/ (A = {} /\ Over')
    <3>1. <<"actions", A>> \notin factory.keys
      BY <1>7
    <3>2. A = AllowedActions(s)
      BY <1>11, <2>3, <3>1
    <3> QED BY <1>8, <3>2
  <2> QED BY <1>6, <2>1, <2>2, <2>3 DEF KeysHold
<1>15. ShowsNext(s)'
  <2>1. last' # None => s = last'
    BY <1>6
  <2> QED BY <1>8, <1>12, <1>13, <2>1 DEF ShowsNext, LastOf
<1> QED BY <1>6, <1>14, <1>15 DEF s

LEMMA AgainSeen ==
  ASSUME Shapes, KeysHold, NEW o \in Observation, Seen(o), Headed(o),
         mapper.snapshot, NEW v \in Statuses, ShowsNext(v)
  PROVE  /\ KeysHold'
         /\ mapper'.snapshot
         /\ \E w \in Statuses : ShowsNext(w)'
<1> DEFINE d == Drafts(o) s == o.status
           c == Draft("task.status_changed", <<"status", s>>, s)
           a == ActionsDraft(s)
<1>1. /\ o.kind = "status" /\ s \in Status /\ s \in Statuses
      /\ s.state # "INPUT_REQUIRED"
      /\ last' = s /\ s # None /\ last' # None /\ mapper'.snapshot
  <2>1. o.kind = "status"
    BY DEF Headed
  <2> QED BY <2>1, ObservationFacts, SeenFacts, EventProjectionAssumption
          DEF Seen, Statuses
<1>2. /\ {1, 2} \subseteq DOMAIN d
      /\ d[1] = c /\ d[2] = a
      /\ \A i \in DOMAIN d : i > 2 => d[i] \in Rest
  BY <1>1, HeadPositions DEF Shows
<1>3. /\ c.type = "task.status_changed" /\ c.key = <<"status", s>>
      /\ c.body = s
      /\ a.type = "allowed_actions.changed"
      /\ a.key = <<"actions", AllowedActions(s)>>
      /\ a.body = AllowedActions(s)
      /\ c.key # None /\ a.key # None
  BY <1>1, EventProjectionAssumption DEF Draft, ActionsDraft
<1>4. /\ d \in Seq(DraftOK) /\ factory'.keys = Created(d).keys
      /\ DOMAIN d = 1..Len(d) /\ Len(d) \in Nat
  <2>1. d \in Seq(DraftOK)
    BY SeenFacts
  <2> HIDE DEF d
  <2>2. DOMAIN d = 1..Len(d) /\ Len(d) \in Nat
    BY <2>1
  <2> QED BY <2>1, <2>2 DEF Seen, d
<1>5. \A i \in Made(d) : d[i] \in Rest =>
           /\ d[i].type \notin Kinds("status") \cup Kinds("actions")
           /\ d[i].key[1] \in {"message", "artifact", "gap"}
  BY RestIsQuiet
(* Once the Task has ended nothing else is observed.                       *)
<1>6. Over => s = last /\ v = last
  BY <1>1 DEF Seen, Follows, Over, ShowsNext
<1>7. /\ IF Over' THEN AllowedActions(s) = {} ELSE AllowedActions(s) = Ongoing
      /\ Over => Over'
      /\ Over' <=> s.state \in Terminal
      /\ ~Over => AllowedActions(v) = Ongoing
  <2>1. Over' <=> s.state \in Terminal
    BY <1>1 DEF Over
  <2>2. Over => s.state \in Terminal
    BY <1>6 DEF Over
  <2> QED BY <1>1, <2>1, <2>2, ActionsAre DEF ShowsNext
<1>8. /\ s \in Views /\ AllowedActions(s) \in Views
      /\ v \in Views /\ AllowedActions(v) \in Views
      /\ None \in Views /\ {} \in Views
      /\ AllowedActions(s) \in SUBSET Action
  BY <1>1, ViewsAre, ActionsAreActions
<1>9. \A i \in DOMAIN Line : i \in DOMAIN Line' /\ Line'[i] = Line[i]
  <2> DEFINE L == Line E == Created(d).events
  <2>1. L \in Seq(Event) /\ E \in Seq(Event) /\ Line' = L \o E
    BY LineFacts, SeenFacts
  <2> HIDE DEF L, E
  <2>2. \A i \in DOMAIN L : i \in DOMAIN (L \o E) /\ (L \o E)[i] = L[i]
    BY <2>1, JoinFacts
  <2> QED BY <2>1, <2>2 DEF L
<1>10. /\ LastOf("status", Line, v, None)
       /\ LastOf("actions", Line, AllowedActions(v), {})
  BY DEF ShowsNext
<1> HIDE DEF d, c, a, s
<1>11. \A i \in DOMAIN d : i = 1 \/ i = 2 \/ (i > 2 /\ d[i] \in Rest)
  BY <1>2, <1>4
<1>12. \A i \in Made(d) : i \in DOMAIN d
  BY DEF Made
<1>13. c.key \notin factory.keys <=> 1 \in Made(d)
  <2>1. \A j : j \notin 1..(1 - 1)
    OBVIOUS
  <2> QED BY <1>2, <1>3, <2>1 DEF Made, Fresh
<1>14. a.key \notin factory.keys <=> 2 \in Made(d)
  <2>1. \A j \in 1..(2 - 1) : j = 1
    OBVIOUS
  <2>2. a.key # c.key
    BY <1>3
  <2> QED BY <1>2, <1>3, <2>1, <2>2 DEF Made, Fresh
<1>15. /\ factory.keys \subseteq factory'.keys
       /\ a.key \in factory'.keys
       /\ c.key \in factory'.keys
  BY <1>2, <1>3, <1>4, <1>13, <1>14, KeysGrow
<1>16. \A k \in factory'.keys :
         \/ k \in factory.keys
         \/ k[1] \in {"message", "artifact", "gap"}
         \/ k = c.key /\ 1 \in Made(d)
         \/ k = a.key
  <2> DEFINE P(k) == \/ k[1] \in {"message", "artifact", "gap"}
                     \/ k = c.key /\ 1 \in Made(d)
                     \/ k = a.key
  <2>1. \A i \in Made(d) : P(d[i].key)
    BY <1>2, <1>5, <1>11, <1>12
  <2>2. \A k \in Created(d).keys :
          k \in factory.keys \/ \E i \in Made(d) : k = d[i].key
    BY <1>4, KeysGrow
  <2> HIDE DEF P
  <2>3. \A k \in factory'.keys : k \in factory.keys \/ P(k)
    BY <1>4, <2>1, <2>2
  <2> QED BY <2>3 DEF P
<1>17. \A i \in Made(d) : d[i] \in Rest =>
         d[i].type \notin Kinds("status") /\ d[i].type \notin Kinds("actions")
  BY <1>5
<1>18. /\ c.type \in Kinds("status") /\ c.type \notin Kinds("actions")
       /\ a.type \in Kinds("actions") /\ a.type \notin Kinds("status")
       /\ Value("status", c) = s /\ Value("actions", a) = AllowedActions(s)
  BY <1>3 DEF Kinds, StatusEvent, Value
<1>19. \A i \in DOMAIN d : d[i] \in Rest =>
         d[i].type \notin Kinds("status") /\ d[i].type \notin Kinds("actions")
  BY RestFacts DEF Kinds, StatusEvent
(* The status that is shown next, and its actions.                         *)
<1>20. 1 \in Made(d) => Marked("status", Line', s)
  <2> SUFFICES ASSUME 1 \in Made(d) PROVE Marked("status", Line', s)
    OBVIOUS
  <2>1. \A q \in DOMAIN d : q > 1 => d[q].type \notin Kinds("status")
    BY <1>2, <1>11, <1>18, <1>19
  <2>2. Marked("status", Created(d).events, Value("status", d[1]))
    BY <1>2, <1>4, <1>18, <2>1, MarkMade
  <2>3. Marked("status", Created(d).events, s)
    BY <1>2, <1>18, <2>2
  <2> QED BY <1>8, <2>3, MarkMoves DEF d
<1>21. 1 \notin Made(d) => LastOf("status", Line', v, None)
  <2> SUFFICES ASSUME 1 \notin Made(d) PROVE LastOf("status", Line', v, None)
    OBVIOUS
  <2>1. \A i \in Made(d) : d[i].type \notin Kinds("status")
    BY <1>2, <1>11, <1>12, <1>18, <1>19
  <2>2. LastOf("status", Created(d).events, v, v)
    BY <1>4, <2>1, LastOfNone
  <2> QED BY <1>8, <1>10, <2>2, ValueMoves DEF d
<1>22. 2 \in Made(d) => Marked("actions", Line', AllowedActions(s))
  <2> SUFFICES ASSUME 2 \in Made(d)
               PROVE  Marked("actions", Line', AllowedActions(s))
    OBVIOUS
  <2>1. \A q \in DOMAIN d : q > 2 => d[q].type \notin Kinds("actions")
    <3>1. \A q \in DOMAIN d : q > 2 => d[q] \in Rest
      BY <1>2
    <3> QED BY <1>19, <3>1
  <2>2. Marked("actions", Created(d).events, Value("actions", d[2]))
    BY <1>2, <1>4, <1>18, <2>1, MarkMade
  <2>3. Marked("actions", Created(d).events, AllowedActions(s))
    BY <1>2, <1>18, <2>2
  <2> QED BY <1>8, <2>3, MarkMoves DEF d
<1>23. 2 \notin Made(d) => LastOf("actions", Line', AllowedActions(v), {})
  <2> SUFFICES ASSUME 2 \notin Made(d)
               PROVE  LastOf("actions", Line', AllowedActions(v), {})
    OBVIOUS
  <2>1. \A i \in Made(d) : d[i].type \notin Kinds("actions")
    BY <1>2, <1>11, <1>12, <1>18, <1>19
  <2>2. LastOf("actions", Created(d).events, AllowedActions(v), AllowedActions(v))
    BY <1>4, <2>1, LastOfNone
  <2> QED BY <1>8, <1>10, <2>2, ValueMoves DEF d
<1>24. 1 \notin Made(d) => /\ 2 \notin Made(d)
                           /\ s.state \in Terminal => s = last
  <2>1. <<"status", s>> \in factory.keys =>
          /\ <<"actions", AllowedActions(s)>> \in factory.keys
          /\ s.state \in Terminal => s = last
    BY <1>1 DEF KeysHold
  <2> QED BY <1>3, <1>13, <1>14, <2>1
<1>25. a.key \in factory.keys => AllowedActions(v) = AllowedActions(s)
  <2>1. a.key \in factory.keys =>
          AllowedActions(s) = Ongoing \/ (AllowedActions(s) = {} /\ Over)
    BY <1>3, <1>8 DEF KeysHold
  <2> QED BY <1>6, <1>7, <2>1
<1>26. \E w \in Statuses : ShowsNext(w)'
  <2>1. CASE 1 \in Made(d)
    <3>1. LastOf("actions", Line', AllowedActions(s), {})
      BY <1>14, <1>22, <1>23, <1>25 DEF LastOf
    <3>2. LastOf("status", Line', s, None)
      BY <1>20, <2>1 DEF LastOf
    <3>3. ShowsNext(s)'
      BY <1>1, <1>7, <3>1, <3>2 DEF ShowsNext
    <3> QED BY <1>1, <3>3
  <2>2. CASE 1 \notin Made(d)
    <3>1. /\ LastOf("actions", Line', AllowedActions(v), {})
          /\ LastOf("status", Line', v, None)
      BY <1>21, <1>23, <1>24, <2>2
    <3>2. IF Over' THEN v = last' ELSE AllowedActions(v) = Ongoing
      <4>1. Over' => s = last
        BY <1>7, <1>24, <2>2
      <4>2. Over' => Over
        BY <1>1, <1>7, <4>1 DEF Over
      <4> QED BY <1>1, <1>6, <1>7, <4>2
    <3>3. <<"status", last'>> \in factory'.keys
      BY <1>1, <1>3, <1>15
    <3>4. ShowsNext(v)'
      BY <3>1, <3>2, <3>3 DEF ShowsNext
    <3> QED BY <3>4
  <2> QED BY <2>1, <2>2
<1>27. KeysHold'
  <2>1. \A k \in factory'.keys : k[1] # "input"
    <3>1. \A k \in factory.keys : k[1] # "input"
      BY DEF KeysHold
    <3> QED BY <1>3, <1>16, <3>1
  <2>2. ASSUME NEW A \in SUBSET Action, <<"actions", A>> \in factory'.keys
        PROVE  A = Ongoing \/ (A = {} /\ Over')
    <3>1. CASE <<"actions", A>> \in factory.keys
      BY <1>7, <3>1 DEF KeysHold
    <3>2. CASE <<"actions", A>> \notin factory.keys
      <4>1. A = AllowedActions(s)
        BY <1>3, <1>16, <2>2, <3>2
      <4> QED BY <1>7, <4>1
    <3> QED BY <3>1, <3>2
  <2>3. ASSUME NEW t \in Status, <<"status", t>> \in factory'.keys
        PROVE  /\ <<"actions", AllowedActions(t)>> \in factory'.keys
               /\ t.state \in Terminal => t = last'
               /\ \E i \in DOMAIN Line' : /\ Line'[i].type = "task.status_changed"
                                          /\ Line'[i].body = t
    <3>1. CASE <<"status", t>> \in factory.keys
      <4>1. /\ <<"actions", AllowedActions(t)>> \in factory.keys
            /\ t.state \in Terminal => t = last
            /\ \E i \in DOMAIN Line : /\ Line[i].type = "task.status_changed"
                                      /\ Line[i].body = t
        BY <3>1 DEF KeysHold
      <4>2. t.state \in Terminal => t = last'
        <5>1. t # None
          BY EventProjectionAssumption
        <5> QED BY <1>1, <1>6, <4>1, <5>1 DEF Over
      <4> QED BY <1>9, <1>15, <4>1, <4>2
    <3>2. CASE <<"status", t>> \notin factory.keys
      <4>1. t = s /\ 1 \in Made(d)
        BY <1>3, <1>16, <2>3, <3>2
      <4>2. <<"actions", AllowedActions(t)>> \in factory'.keys
        BY <1>3, <1>15, <4>1
      <4>3. \E i \in DOMAIN Line' : /\ Line'[i].type = "task.status_changed"
                                    /\ Line'[i].body = t
        <5> DEFINE L == Line E == Created(d).events
        <5>1. L \in Seq(Event) /\ E \in Seq(Event) /\ Line' = L \o E
          BY LineFacts, SeenFacts DEF d
        <5>2. PICK origin \in Origins(d) : ComesFrom(E, d, origin)
          BY <1>4, CreatedFacts DEF Shapes
        <5> HIDE DEF L, E
        <5>3. PICK n \in DOMAIN E : origin[n] = 1
          BY <4>1, <5>2 DEF ComesFrom
        <5>4. E[n].type = c.type /\ E[n].body = c.body
          BY <1>2, <5>2, <5>3 DEF ComesFrom
        <5>5. Len(L) + n \in DOMAIN (L \o E) /\ (L \o E)[Len(L) + n] = E[n]
          BY <5>1, JoinFacts
        <5> QED BY <1>3, <4>1, <5>1, <5>4, <5>5
      <4> QED BY <1>1, <4>1, <4>2, <4>3
    <3> QED BY <3>1, <3>2
  <2> QED BY <1>1, <2>1, <2>2, <2>3 DEF KeysHold
<1> QED BY <1>1, <1>26, <1>27

-----------------------------------------------------------------------------
(* The view across the steps.                                              *)
Viewing == source.pc \in {"new", "running"} /\ ~finished /\ ~EndIsPending

ClientShows ==
  /\ LastOf("status", client.sent, client.status, None)
  /\ LastOf("actions", client.sent, client.actions, {})

TaskIsShown ==
  /\ KeysHold
  /\ IF mapper.snapshot THEN \E v \in Statuses : ShowsNext(v) ELSE last = None

LEMMA ViewParts == View <=> (ClientShows /\ (Viewing => TaskIsShown))
BY DEF View, Viewing, ClientShows, TaskIsShown

LEMMA EmptyIsShown ==
  ASSUME factory.keys = {}, ~mapper.snapshot, last = None
  PROVE  TaskIsShown
BY DEF TaskIsShown, KeysHold

LEMMA InitView == Init => View
<1> SUFFICES ASSUME Init PROVE View
  OBVIOUS
<1>1. /\ client.sent = <<>> /\ client.status = None /\ client.actions = {}
      /\ factory.keys = {} /\ ~mapper.snapshot /\ last = None
  BY DEF Init
<1>2. TaskIsShown
  BY <1>1, EmptyIsShown
<1>3. ClientShows
  BY <1>1 DEF ClientShows, LastOf
<1> QED BY <1>2, <1>3, ViewParts

LEMMA TaskStaysShown ==
  ASSUME TaskIsShown, Line' = Line, UNCHANGED <<factory, mapper, last>>
  PROVE  TaskIsShown'
<1>1. KeysHold /\ KeysHold' /\ (Over' <=> Over)
  BY DEF TaskIsShown, KeysHold, Over
<1>2. \A v : ShowsNext(v) => ShowsNext(v)'
  BY <1>1 DEF ShowsNext
<1> QED BY <1>1, <1>2 DEF TaskIsShown

LEMMA ClientStaysShown ==
  ASSUME ClientShows, client'.sent = client.sent,
         client'.status = client.status, client'.actions = client.actions
  PROVE  ClientShows'
BY DEF ClientShows

LEMMA ClientMoves ==
  ASSUME Shapes, ClientShows, NEW e \in Event, client' = Apply(client, e)
  PROVE  ClientShows'
<1> DEFINE s == client.sent v == client.status a == client.actions
           st == IF e.type \in StatusEvent THEN e.body ELSE v
           ac == CASE e.type = "task.snapshot" -> {}
                   [] e.type = "allowed_actions.changed" -> e.body
                   [] OTHER -> a
<1>1. client'.sent = Append(s, e) /\ client'.status = st /\ client'.actions = ac
  BY ApplyFacts
<1>2. /\ s \in Seq(Event) /\ v \in Views /\ a \in Views
      /\ None \in Views /\ {} \in Views
  BY ViewsAre DEF Shapes, Client, Views
<1>3. st \in Views /\ ac \in Views
  <2>1. /\ e.type \in StatusEvent => e.body \in Views
        /\ e.type = "allowed_actions.changed" => e.body \in Views
    BY DEF Event, Sound, Views
  <2> QED BY <1>2, <2>1
<1>4. LastOf("status", s, v, None) /\ LastOf("actions", s, a, {})
  BY DEF ClientShows
<1>5. <<e>> \in Seq(Event) /\ DOMAIN <<e>> = {1} /\ <<e>>[1] = e
  OBVIOUS
<1>6. /\ e.type \in StatusEvent <=> e.type \in Kinds("status")
      /\ e.type \in Kinds("status") => st = Value("status", e)
      /\ e.type \notin Kinds("status") => st = v
  BY DEF Kinds, Value
<1>7. /\ e.type \in Kinds("actions") => ac = Value("actions", e)
      /\ e.type \notin Kinds("actions") => ac = a
  BY DEF Kinds, Value
<1> HIDE DEF s, v, a, st, ac
<1>8. LastOf("status", <<e>>, st, v) /\ LastOf("actions", <<e>>, ac, a)
  <2> DEFINE E == <<e>>
  <2>1. DOMAIN E = {1} /\ E[1] = e /\ ~(1 > 1)
    BY <1>5
  <2> HIDE DEF E
  <2>2. \A kind, x, y :
          /\ e.type \in Kinds(kind) /\ x = Value(kind, e) => LastOf(kind, E, x, y)
          /\ e.type \notin Kinds(kind) /\ x = y => LastOf(kind, E, x, y)
    BY <2>1 DEF LastOf, Marked
  <2> QED BY <1>6, <1>7, <2>2 DEF E
<1>9. LastOf("status", s \o <<e>>, st, None)
  BY <1>2, <1>3, <1>4, <1>5, <1>8, LastJoins
<1>10. LastOf("actions", s \o <<e>>, ac, {})
  BY <1>2, <1>3, <1>4, <1>5, <1>8, LastJoins
<1>11. Append(s, e) = s \o <<e>>
  BY <1>2, AppendIsConcat
<1> QED BY <1>1, <1>9, <1>10, <1>11 DEF ClientShows

LEMMA SendView ==
  ASSUME Shapes, View, Send PROVE View'
<1> DEFINE e == Head(source.pending)
<1>0. /\ source.pc \in {"running", "ending", "failing"}
      /\ source.pending \in Seq(Numbered) /\ source.pending # <<>>
      /\ UNCHANGED <<factory, mapper, last>>
      /\ ClientShows /\ (Viewing => TaskIsShown)
  BY ViewParts DEF Send, Shapes
<1>1. e \in Event /\ Tail(source.pending) \in Seq(Numbered)
  BY <1>0, HeadTailProperties DEF Numbered
<1>2. CASE /\ client' = IF Shown THEN Apply(client, e) ELSE client
           /\ finished' = (finished \/ e.type \in TerminalEvent)
           /\ source' = [source EXCEPT !.pending = Tail(source.pending)]
  <2>1. source'.pending = Tail(source.pending) /\ source'.pc = source.pc
    BY <1>2 DEF Shapes
  <2>2. /\ Len(Tail(source.pending)) = Len(source.pending) - 1
        /\ \A i \in 1..Len(Tail(source.pending)) :
             Tail(source.pending)[i] = source.pending[i + 1]
        /\ Len(source.pending) \in Nat \ {0}
    BY <1>0, HeadTailProperties
  <2>3. EndIsPending => e.type \in TerminalEvent \/ EndIsPending'
    <3> SUFFICES ASSUME NEW i \in DOMAIN source.pending,
                        source.pending[i].type \in TerminalEvent
                 PROVE  e.type \in TerminalEvent \/ EndIsPending'
      BY DEF EndIsPending
    <3>1. i \in 1..Len(source.pending) /\ e = source.pending[1]
      BY <1>0
    <3>2. CASE i = 1
      BY <3>1, <3>2
    <3>3. CASE i # 1
      <4>1. i - 1 \in 1..Len(Tail(source.pending)) /\ (i - 1) + 1 = i
        BY <2>2, <3>1, <3>3
      <4>2. DOMAIN source'.pending = 1..Len(Tail(source.pending))
        BY <1>1, <2>1
      <4>3. source'.pending[i - 1] = source.pending[i]
        BY <2>1, <2>2, <4>1
      <4> QED BY <4>1, <4>2, <4>3 DEF EndIsPending
    <3> QED BY <3>2, <3>3
  <2> HIDE DEF e
  <2>4. CASE finished
    <3>1. finished' /\ client' = client
      BY <1>2, <2>4 DEF Shown
    <3>2. ClientShows' /\ ~Viewing'
      BY <1>0, <3>1, ClientStaysShown DEF Viewing
    <3> QED BY <3>2, ViewParts DEF View, Viewing, ClientShows, TaskIsShown
  <2>5. CASE ~finished
    <3>1. client' = Apply(client, e) /\ client'.sent = Append(client.sent, e)
      BY <1>1, <1>2, <2>5, ApplyFacts DEF Shown
    <3>2. Line' = Line
      BY <1>0, <2>1, <3>1, LineMoves DEF e
    <3>3. ClientShows'
      BY <1>0, <1>1, <3>1, ClientMoves
    <3>4. Viewing' => Viewing
      BY <1>2, <2>1, <2>3, <2>5 DEF Viewing
    <3>5. TaskIsShown => TaskIsShown'
      BY <1>0, <3>2, TaskStaysShown
    <3> QED BY <1>0, <3>3, <3>4, <3>5
            DEF View, Viewing, ClientShows, TaskIsShown
  <2> QED BY <2>4, <2>5
<1>3. CASE ~/\ client' = IF Shown THEN Apply(client, e) ELSE client
            /\ finished' = (finished \/ e.type \in TerminalEvent)
            /\ source' = [source EXCEPT !.pending = Tail(source.pending)]
  <2>1. /\ source' = [source EXCEPT !.pc = "failed", !.pending = <<>>]
        /\ UNCHANGED <<finished, client>>
    BY <1>3 DEF Send, Throws, e
  <2>2. source'.pc = "failed"
    BY <2>1 DEF Shapes
  <2>3. ClientShows'
    BY <1>0, <2>1, ClientStaysShown
  <2> QED BY <2>2, <2>3 DEF View, ClientShows
<1> QED BY <1>2, <1>3

LEMMA ObserveView ==
  ASSUME Shapes, View, NEW o \in Observation, Observe(o) PROVE View'
<1>0. /\ ClientShows /\ (Viewing => TaskIsShown)
      /\ client' = client /\ finished' = finished /\ source.pc = "running"
      /\ Follows(o)
  BY ViewParts DEF Observe, Running
<1>1. ClientShows'
  BY <1>0, ClientStaysShown
<1>2. CASE ~Viewing'
  BY <1>1, <1>2 DEF View, Viewing, ClientShows
<1>3. CASE Viewing'
  <2>1. source'.pc # "failed" /\ ~finished /\ ~EndIsPending'
    BY <1>0, <1>3 DEF Viewing
  <2>2. /\ Number(Created(Drafts(o)))
        /\ source' = [source EXCEPT
             !.pending = @ \o Created(Drafts(o)).events, !.steps = @ + 1,
             !.latest = IF o.kind = "status" THEN o.status.state ELSE @]
        /\ mapper' = IF o.kind = "message" THEN mapper
                     ELSE [task |-> o.task, snapshot |-> TRUE]
        /\ last' = IF o.kind = "status" THEN o.status ELSE last
    BY <2>1 DEF Observe, Throws, Shapes
  <2>3. source'.pending = source.pending \o Created(Drafts(o)).events
        /\ factory'.keys = Created(Drafts(o)).keys
        /\ mapper'.snapshot = IF o.kind = "message" THEN mapper.snapshot ELSE TRUE
    BY <2>2 DEF Number, Shapes
  <2>4. Seen(o)
    BY <1>0, <2>1, <2>2, <2>3 DEF Seen
  <2>5. Drafts(o) \in Seq(DraftOK)
    BY DraftsAreSound
  <2>6. ~EndIsPending
    BY <2>1, <2>3, <2>5, PendingGrows
  <2>7. TaskIsShown
    BY <1>0, <2>1, <2>6 DEF Viewing
  <2>8. /\ KeysHold
        /\ mapper.snapshot => \E v \in Statuses : ShowsNext(v)
        /\ ~mapper.snapshot => last = None
    BY <2>7 DEF TaskIsShown
  <2>9. CASE ~Headed(o)
    <3>1. /\ KeysHold'
          /\ \A v \in Statuses : ShowsNext(v) => ShowsNext(v)'
          /\ mapper'.snapshot <=> mapper.snapshot
          /\ last' = last
      BY <2>4, <2>8, <2>9, HeadlessSeen
    <3> QED BY <1>1, <2>8, <3>1 DEF View, ClientShows
  <2>10. CASE Headed(o) /\ ~mapper.snapshot
    <3>1. KeysHold' /\ mapper'.snapshot /\ ShowsNext(Shows(o))'
      BY <2>4, <2>8, <2>10, FirstSeen
    <3>2. Shows(o) \in Statuses
      BY <2>10, HeadPositions
    <3> QED BY <1>1, <3>1, <3>2 DEF View, ClientShows
  <2>11. CASE Headed(o) /\ mapper.snapshot
    <3>1. PICK v \in Statuses : ShowsNext(v)
      BY <2>8, <2>11
    <3>2. KeysHold' /\ mapper'.snapshot /\ \E w \in Statuses : ShowsNext(w)'
      BY <2>4, <2>8, <2>11, <3>1, AgainSeen
    <3> QED BY <1>1, <3>2 DEF View, ClientShows
  <2> QED BY <2>9, <2>10, <2>11
<1> QED BY <1>2, <1>3

LEMMA ViewStep ==
  ASSUME Shapes, View, [Next]_vars PROVE View'
<1>0. ClientShows /\ (Viewing => TaskIsShown)
  BY ViewParts
<1>1. CASE Start
  <2> DEFINE d == <<Opening>>
  <2>1. /\ source.pc = "new" /\ Empty
        /\ Number(Created(d))
        /\ client' = client /\ mapper' = mapper /\ last' = last
    BY <1>1 DEF Start, Opening, Shapes
  <2>2. d \in Seq(DraftOK) /\ \A i \in DOMAIN d : d[i].key = None
    BY OpeningIsSound DEF Opening, Draft
  <2> HIDE DEF d
  <2>3. factory'.keys = {}
    <3>1. factory'.keys = Created(d).keys /\ factory.keys = {}
      BY <2>1 DEF Number, Empty
    <3> QED BY <2>2, <3>1, KeysGrow
  <2>4. KeysHold' /\ ~mapper'.snapshot /\ last' = None
    BY <2>1, <2>3 DEF KeysHold, Empty
  <2>5. ClientShows'
    BY <1>0, <2>1, ClientStaysShown
  <2> QED BY <2>4, <2>5 DEF View, ClientShows
<1>2. CASE LocalFragment
  <2>1. /\ source'.pending = source.pending /\ source'.pc = source.pc
        /\ UNCHANGED <<factory, mapper, finished, client, last>>
    BY <1>2 DEF LocalFragment, Shapes
  <2>2. Line' = Line /\ (Viewing' => Viewing)
    BY <2>1 DEF Line, Viewing, EndIsPending
  <2>3. ClientShows' /\ (TaskIsShown => TaskIsShown')
    BY <1>0, <2>1, <2>2, ClientStaysShown, TaskStaysShown
  <2> QED BY <1>0, <2>2, <2>3 DEF View, Viewing, ClientShows, TaskIsShown
<1>3. CASE Disconnect
  <2>1. /\ client'.sent = client.sent /\ client'.status = client.status
        /\ client'.actions = client.actions
        /\ UNCHANGED <<factory, mapper, source, finished, last>>
    BY <1>3 DEF Disconnect, Shapes, Client
  <2>2. Line' = Line /\ (Viewing' => Viewing)
    BY <2>1 DEF Line, Viewing, EndIsPending
  <2>3. ClientShows' /\ (TaskIsShown => TaskIsShown')
    BY <1>0, <2>1, <2>2, ClientStaysShown, TaskStaysShown
  <2> QED BY <1>0, <2>2, <2>3 DEF View, Viewing, ClientShows, TaskIsShown
<1>4. CASE UNCHANGED vars
  <2>1. UNCHANGED <<factory, mapper, source, finished, client, last>>
    BY <1>4 DEF vars
  <2>2. Line' = Line /\ (Viewing' => Viewing)
    BY <2>1 DEF Line, Viewing, EndIsPending
  <2>3. ClientShows' /\ (TaskIsShown => TaskIsShown')
    BY <1>0, <2>1, <2>2, ClientStaysShown, TaskStaysShown
  <2> QED BY <1>0, <2>2, <2>3 DEF View, Viewing, ClientShows, TaskIsShown
(* The steps that leave the observation behind.                            *)
<1>5. CASE source'.pc \notin {"new", "running"} /\ client' = client
  <2>1. ClientShows'
    BY <1>0, <1>5, ClientStaysShown
  <2> QED BY <1>5, <2>1 DEF View, ClientShows
<1>6. CASE End \/ Fail \/ Recover \/ Close
  <2>1. source'.pc \notin {"new", "running"} /\ client' = client
    <3>1. CASE End
      BY <3>1 DEF End, Shapes
    <3>2. CASE Fail
      BY <3>2 DEF Fail, Throws, Shapes
    <3>3. CASE Recover
      BY <3>3 DEF Recover, Shapes
    <3>4. CASE Close
      BY <3>4 DEF Close, Shapes
    <3> QED BY <1>6, <3>1, <3>2, <3>3, <3>4
  <2> QED BY <1>5, <2>1
<1>7. CASE Return
  <2> DEFINE e == [type |-> "run.error", body |-> None, sequence |-> None]
  <2>1. source'.pc = "done" /\ (client' = client \/ client' = Apply(client, e))
    BY <1>7 DEF Return, Shapes
  <2>2. e \in Event
    BY ErrorIsEvent
  <2> HIDE DEF e
  <2>3. CASE client' = client
    BY <1>5, <2>1, <2>3
  <2>4. CASE client' = Apply(client, e)
    <3>1. ClientShows'
      BY <1>0, <2>2, <2>4, ClientMoves
    <3> QED BY <2>1, <3>1 DEF View, ClientShows
  <2> QED BY <2>1, <2>3, <2>4
<1>8. CASE Send
  BY <1>8, SendView
<1>9. ASSUME NEW o \in Observation, Observe(o) PROVE View'
  BY <1>9, ObserveView
<1> QED BY <1>1, <1>2, <1>3, <1>4, <1>6, <1>7, <1>8, <1>9 DEF Next

LEMMA ViewIsKept ==
  ASSUME Shapes, View PROVE ViewIsCurrent
<1> SUFFICES ASSUME source.pc = "running", source.pending = <<>>, ~finished,
                    last # None
             PROVE  /\ client.status = last \/ Announced(last)
                    /\ client.actions = AllowedActions(client.status)
  BY DEF ViewIsCurrent
<1>1. ~EndIsPending
  BY DEF EndIsPending
<1>2. ClientShows /\ TaskIsShown
  BY <1>1, ViewParts DEF Viewing
<1>3. PICK v \in Statuses : ShowsNext(v)
  BY <1>2 DEF TaskIsShown
<1>4. Line = client.sent /\ Line \in Seq(Event)
  BY LineFacts
<1> DEFINE s == client.sent st == client.status ac == client.actions
<1>5. /\ s \in Seq(Event) /\ st \in Views /\ ac \in Views
      /\ v \in Views /\ AllowedActions(v) \in Views
      /\ None \in Views /\ {} \in Views
  BY <1>4, ViewsAre DEF Shapes, Client, Views
<1>6. /\ LastOf("status", s, st, None) /\ LastOf("status", s, v, None)
      /\ LastOf("actions", s, ac, {})
      /\ LastOf("actions", s, AllowedActions(v), {})
  BY <1>2, <1>3, <1>4 DEF ClientShows, ShowsNext
<1> HIDE DEF s, st, ac
<1>7. st = v
  BY <1>5, <1>6, LastIsUnique
<1>8. ac = AllowedActions(v)
  BY <1>5, <1>6, LastIsUnique
<1>9. v = last \/ Announced(last)
  <2>1. v = last \/ <<"status", last>> \in factory.keys
    BY <1>3 DEF ShowsNext
  <2>2. last \in Status
    BY DEF Shapes
  <2>3. <<"status", last>> \in factory.keys => Announced(last)
    <3> SUFFICES ASSUME <<"status", last>> \in factory.keys
                 PROVE  Announced(last)
      OBVIOUS
    <3>1. PICK i \in DOMAIN Line : /\ Line[i].type = "task.status_changed"
                                   /\ Line[i].body = last
      BY <1>2, <2>2 DEF TaskIsShown, KeysHold
    <3> QED BY <1>4, <3>1 DEF Announced
  <2> QED BY <2>1, <2>3
<1> QED BY <1>7, <1>8, <1>9 DEF st, ac

-----------------------------------------------------------------------------
(* The inductive invariant.                                                *)
IInv == Shapes /\ Ends /\ Once /\ View

LEMMA Inductive == Spec => []IInv
<1>1. Init => IInv
  BY InitShapes, InitEnds, InitOnce, InitView DEF IInv
<1>2. IInv /\ [Next]_vars => IInv'
  <2> SUFFICES ASSUME IInv, [Next]_vars PROVE IInv'
    OBVIOUS
  <2>1. Shapes /\ Ends /\ Once /\ View
    BY DEF IInv
  <2>2. Shapes'
    BY <2>1, ShapesStep
  <2>3. Ends'
    BY <2>1, <2>2, EndsStep
  <2>4. Once'
    BY <2>1, <2>2, OnceStep
  <2>5. View'
    BY <2>1, ViewStep
  <2> QED BY <2>2, <2>3, <2>4, <2>5 DEF IInv
<1> QED BY <1>1, <1>2, PTL DEF Spec

(* The mapper is bound to a Task exactly when it has shown its snapshot,   *)
(* nothing is pending in a run that has not begun or has thrown, and the   *)
(* projection has finished exactly when an event that ends a run was sent. *)
THEOREM TypeCorrect == Spec => []TypeOK
<1>1. IInv => TypeOK
  <2> SUFFICES ASSUME Shapes, Ends PROVE TypeOK
    BY DEF IInv
  <2>1. /\ factory.sequence \in Nat
        /\ mapper \in [task : Task \cup {None}, snapshot : BOOLEAN]
        /\ mapper.snapshot <=> mapper.task # None
    BY DEF Shapes
  <2>2. /\ source.pc \in PC
        /\ source.steps \in 0..MaxSteps /\ source.fallback \in 0..MaxSteps
        /\ source.pc \in {"new", "failed"} => source.pending = <<>>
    BY DEF Shapes, Empty
  <2>3. finished = Sent(TerminalEvent) \/ source.pc = "done"
    <3>1. Sent(TerminalEvent) \in BOOLEAN
      BY DEF Sent
    <3>2. source.pc # "done" => (finished <=> Sent(TerminalEvent))
      BY DEF Ends, Sent
    <3> QED BY <3>1, <3>2 DEF Shapes
  <2>4. last \in Status \cup {None}
        /\ client.status \in Status \cup {None, Working}
    BY DEF Shapes, Client, Statuses
  <2> QED BY <2>1, <2>2, <2>3, <2>4 DEF TypeOK, PC
<1> QED BY <1>1, Inductive, PTL

(* However often the stream, the polls and a recovery repeat them, and      *)
(* wherever the run fails, a client is shown each message and each         *)
(* artifact of the agent once: InteractionEventFactory knows the dedupe    *)
(* key of every text that was sent or is still to be sent.                 *)
THEOREM TextsAreShownOnce == Spec => []ShownOnce
<1>1. IInv => ShownOnce
  BY DEF IInv, Once
<1> QED BY <1>1, Inductive, PTL

(* Whenever the coordinator is about to go on, a client that follows the   *)
(* deltas of A2aInteractionMapper shows the status last observed, or one   *)
(* that was announced before, and the actions of the status it shows:      *)
(* no repetition that the dedupe keys suppress leaves the two apart.       *)
THEOREM ViewStaysCurrent == Spec => []ViewIsCurrent
<1>1. IInv => ViewIsCurrent
  BY ViewIsKept DEF IInv
<1> QED BY <1>1, Inductive, PTL

(* Nothing is sent behind the event that ends a run, but for the error of  *)
(* a run that could not be finished afterwards.                            *)
THEOREM TheEndIsTheEnd == Spec => []NothingAfterTheEnd
<1>1. IInv => NothingAfterTheEnd
  BY DEF IInv, Ends
<1> QED BY <1>1, Inductive, PTL

(* What persistAssistantMessages is given is the text that was sent, and   *)
(* it is not marked truncated only if the client saw the run end well.     *)
THEOREM StoredTextIsHonest == Spec => []StoredIsHonest
<1>1. IInv => StoredIsHonest
  BY DEF IInv, Ends
<1> QED BY <1>1, Inductive, PTL

=============================================================================
