------------------------- MODULE TaskBinding_proofs -------------------------
(***************************************************************************)
(* Proofs about TaskBinding for any number of observers, any life of the   *)
(* Task and any choice of the states that carry a timestamp.               *)
(*                                                                         *)
(* Three layers: where a turn can be and what it then holds (Placement);   *)
(* what a step may do to the row, from which TerminalIsFinal,              *)
(* StampsAdvance and NoLostUpdate follow; what a turn holds back (HeldBack) *)
(* and who may still tell an observation (Publisher), from which           *)
(* PublishedIsPersisted and PublishedOnce follow.                          *)
(***************************************************************************)
EXTENDS TaskBinding, TLAPS

Placed(r, u) ==
  /\ u.pc \in {"creating", "recording", "updating", "rereading"} =>
       u.obs \in Observation
  /\ u.pc \in {"bound", "checking", "over", "recording", "updating",
               "rereading"} => r.exists
  /\ u.pc = "idle" => u.obs = None
  /\ u.pc # "failed" => u.misses <= 2
  /\ u.force => u.obs \in Observation /\ u.obs.kind = "task"

Placement ==
  /\ row.terminal => row.exists
  /\ \A o \in Observer : Placed(row, observer[o])

TInv == TypeOK /\ Placement

USE LifelineAssumption, NoneAssumption
    DEF LifelineAssumption, NoneAssumption

LEMMA LifelineStates ==
  /\ 1 \in DOMAIN Lifeline
  /\ \A n \in DOMAIN Lifeline : n \in Nat /\ n >= 1 /\ Lifeline[n] \in State
OBVIOUS

LEMMA ObservationFacts ==
  ASSUME NEW x \in Observation
  PROVE  StateOf(x) \in State /\ Stamp(x) \in Nat /\ x.n \in Nat /\ x.n >= 1
BY LifelineStates DEF Observation, StateOf, Stamp, State

LEMMA InitTInv == Init => TInv
BY LifelineStates DEF Init, TInv, TypeOK, Placement, Placed, Row, Idle, Turn

-----------------------------------------------------------------------------
(* What an update makes of the row.                                        *)
LEMMA MergeFacts ==
  ASSUME NEW r \in Row, NEW x \in Observation
  PROVE  /\ Merge(r, x) \in Row
         /\ Merge(r, x).exists = r.exists
         /\ r.terminal => Merge(r, x) = r
         /\ Merge(r, x).at >= r.at
         /\ Merge(r, x).terminal \/ Merge(r, x).at >= Stamp(x)
<1>1. StateOf(x) \in State /\ Stamp(x) \in Nat
  BY ObservationFacts
<1>r. r.at \in Nat /\ r.exists \in BOOLEAN
  BY DEF Row
<1>2. CASE Applies(r, x)
  <2> DEFINE at == IF Stamp(x) = 0 THEN r.at ELSE Stamp(x)
  <2>1. Merge(r, x) = [r EXCEPT !.status = StateOf(x), !.seen = x,
                          !.at = at, !.terminal = StateOf(x) \in Terminal]
    BY <1>2 DEF Merge
  <2>2. at \in Nat /\ at >= r.at /\ at >= Stamp(x)
    BY <1>1, <1>r, <1>2 DEF Applies
  <2>3. ~r.terminal
    BY <1>2 DEF Applies
  <2> HIDE DEF at
  <2>4. Merge(r, x) = [exists |-> r.exists, status |-> StateOf(x), at |-> at,
                       seen |-> x, terminal |-> StateOf(x) \in Terminal]
    BY <2>1 DEF Row
  <2>5. Merge(r, x) \in Row
    BY <1>1, <1>r, <2>2, <2>4 DEF Row
  <2>6. Merge(r, x).exists = r.exists /\ Merge(r, x).at = at
    BY <2>4
  <2> QED BY <2>2, <2>3, <2>5, <2>6
<1>3. CASE ~Applies(r, x)
  <2>1. Merge(r, x) = r
    BY <1>3 DEF Merge
  <2>2. r.terminal \/ r.at > Stamp(x)
    BY <1>1, <1>r, <1>3 DEF Applies
  <2> QED BY <1>1, <1>r, <2>1, <2>2
<1> QED BY <1>2, <1>3

(* A turn that has its answer.                                             *)
LEMMA AtAnswer ==
  ASSUME NEW pc \in {"bound", "checking", "over"},
         NEW x \in Observation \cup {None}, NEW f \in BOOLEAN,
         NEW h \in Observation \cup {None}, NEW t \in Observation \cup {None}
  PROVE  [pc |-> pc, obs |-> x, force |-> f, current |-> TRUE,
          unique |-> FALSE, misses |-> 0, held |-> h, told |-> t] \in Turn
BY DEF Turn

LEMMA TellingFacts ==
  ASSUME NEW o \in Observer, NEW r, observer[o] \in Turn
  PROVE  /\ Telling(o, r) \in Observation \cup {None}
         /\ Publishes(o, r) => Telling(o, r) = observer[o].obs
         /\ ~Publishes(o, r) => Telling(o, r) = observer[o].held
BY DEF Telling, Turn

LEMMA ReturnedFacts ==
  ASSUME NEW o \in Observer, NEW r, observer[o] \in Turn
  PROVE  /\ Returned(o, r) \in Turn
         /\ Returned(o, r).pc \in {"bound", "checking", "over"}
         /\ ~Returned(o, r).unique
         /\ Returned(o, r).obs = observer[o].obs
         /\ Returned(o, r).force = observer[o].force
         /\ Returned(o, r).misses = 0
         /\ HoldsBack(observer[o].obs) =>
              /\ Returned(o, r).pc = "checking"
              /\ Returned(o, r).held = Telling(o, r) /\ Returned(o, r).told = None
         /\ ~HoldsBack(observer[o].obs) =>
              Returned(o, r).held = None /\ Returned(o, r).told = Telling(o, r)
<1> DEFINE u == observer[o]
           tell == Telling(o, r)
           back == HoldsBack(u.obs)
           pc == IF back THEN "checking"
                 ELSE IF u.force \/ Boundary(u.obs) THEN "over" ELSE "bound"
           h == IF back THEN tell ELSE None
           t == IF back THEN None ELSE tell
<1>1. tell \in Observation \cup {None}
  BY TellingFacts
<1>2. u \in Turn /\ u.obs \in Observation \cup {None} /\ u.force \in BOOLEAN
  BY DEF Turn
<1>3. Returned(o, r) = [u EXCEPT !.pc = pc, !.current = TRUE,
                          !.unique = FALSE, !.misses = 0, !.held = h, !.told = t]
  BY DEF Returned
<1>4. /\ pc \in {"bound", "checking", "over"}
      /\ h \in Observation \cup {None} /\ t \in Observation \cup {None}
      /\ back => pc = "checking" /\ h = tell /\ t = None
      /\ ~back => h = None /\ t = tell
  BY <1>1
<1> HIDE DEF u, tell, back, pc, h, t
<1>5. Returned(o, r) =
        [pc |-> pc, obs |-> u.obs, force |-> u.force, current |-> TRUE,
         unique |-> FALSE, misses |-> 0, held |-> h, told |-> t]
  BY <1>2, <1>3 DEF Turn
<1>6. [pc |-> pc, obs |-> u.obs, force |-> u.force, current |-> TRUE,
       unique |-> FALSE, misses |-> 0, held |-> h, told |-> t] \in Turn
  BY <1>2, <1>4, AtAnswer
<1> QED BY <1>4, <1>5, <1>6 DEF u, tell, back

-----------------------------------------------------------------------------
(* A step that changes one turn, and the row at most to make it exist.     *)
LEMMA TurnStep ==
  ASSUME TInv, NEW o \in Observer, NEW v \in Turn,
         observer' = [observer EXCEPT ![o] = v],
         row' \in Row, row.exists => row'.exists,
         row'.terminal => row'.exists, Placed(row', v),
         published' \in DOMAIN Lifeline, events' \subseteq Observation,
         shown' \in [Observation -> Nat]
  PROVE  TInv'
<1>1. observer \in [Observer -> Turn]
  BY DEF TInv, TypeOK
<1>2. TypeOK'
  BY <1>1 DEF TypeOK
<1>3. ASSUME NEW p \in Observer PROVE Placed(row', observer'[p])
  <2>1. CASE p = o
    BY <1>1, <2>1
  <2>2. CASE p # o
    BY <1>1, <2>2 DEF TInv, Placement, Placed
  <2> QED BY <2>1, <2>2
<1> QED BY <1>2, <1>3 DEF TInv, Placement

LEMMA TypeFacts ==
  ASSUME TInv
  PROVE  /\ published \in DOMAIN Lifeline /\ row \in Row
         /\ events \subseteq Observation
         /\ observer \in [Observer -> Turn]
         /\ shown \in [Observation -> Nat]
         /\ row.terminal => row.exists
         /\ \A o \in Observer : observer[o] \in Turn /\ Placed(row, observer[o])
BY DEF TInv, TypeOK, Placement

LEMMA TellFacts ==
  ASSUME shown \in [Observation -> Nat], NEW x \in Observation, Tell(x)
  PROVE  shown' \in [Observation -> Nat]
<1> DEFINE n == shown[x] + 1
<1>1. n \in Nat /\ shown' = [shown EXCEPT ![x] = n]
  BY DEF Tell
<1> HIDE DEF n
<1> QED BY <1>1

LEMMA PublishFacts ==
  ASSUME shown \in [Observation -> Nat], NEW o \in Observer, NEW r,
         Publish(o, r), observer[o] \in Turn
  PROVE  shown' \in [Observation -> Nat]
<1>1. CASE shown' = shown
  BY <1>1
<1>2. CASE shown' # shown
  <2>1. Tell(Telling(o, r)) /\ Telling(o, r) \in Observation
    BY <1>2, TellingFacts DEF Publish
  <2> QED BY <2>1, TellFacts
<1> QED BY <1>1, <1>2

(* An observation made now is an observation.                              *)
LEMMA NowObserved ==
  ASSUME TInv, NEW kind \in Kind
  PROVE  [n |-> published, kind |-> kind] \in Observation
BY TypeFacts DEF Observation

LEMMA ReadBindingTInv ==
  ASSUME TInv, NEW o \in Observer, ReadBinding(o) PROVE TInv'
<1> DEFINE u == observer[o]
           v == [u EXCEPT !.pc = "bound", !.current = TRUE]
<1>2. u \in Turn /\ u.misses <= 2 /\ ~u.force /\ row.exists
  BY TypeFacts DEF ReadBinding, Placed, Turn
<1>3. observer' = [observer EXCEPT ![o] = v]
  BY DEF ReadBinding
<1> HIDE DEF u
<1>1. v \in Turn /\ v.pc = "bound" /\ v.misses = u.misses /\ ~v.force
  BY <1>2 DEF Turn
<1>4. Placed(row', v)
  BY <1>1, <1>2 DEF ReadBinding, Placed
<1> HIDE DEF v
<1> QED BY <1>1, <1>3, <1>4, TurnStep, TypeFacts DEF ReadBinding

LEMMA FirstEventTInv ==
  ASSUME TInv, NEW o \in Observer, NEW kind \in Kind, FirstEvent(o, kind)
  PROVE  TInv'
<1> DEFINE x == [n |-> published, kind |-> kind]
           v == [observer[o] EXCEPT !.pc = "creating", !.obs = x]
<1>1. x \in Observation
  BY NowObserved
<1>3. observer' = [observer EXCEPT ![o] = v]
  BY DEF FirstEvent
<1> HIDE DEF x
<1>2. v \in Turn /\ v.pc = "creating" /\ v.misses = observer[o].misses /\ v.obs = x
  BY ZenonT(60), <1>1, TypeFacts DEF Turn
<1>4. Placed(row', v)
  BY <1>1, <1>2, TypeFacts DEF FirstEvent, Placed
<1> HIDE DEF v
<1> QED BY <1>2, <1>3, <1>4, TurnStep, TypeFacts DEF FirstEvent

LEMMA CreateBindingTInv ==
  ASSUME TInv, NEW o \in Observer, CreateBinding(o)
  PROVE  /\ TInv'
         /\ row'.at = row.at
         /\ row.exists => row' = row
<1> DEFINE v == [observer[o] EXCEPT !.pc = "recording", !.current = TRUE]
<1>1. /\ v \in Turn /\ v.pc = "recording" /\ v.misses = observer[o].misses
      /\ v.obs = observer[o].obs /\ v.force = observer[o].force
  BY ZenonT(60), TypeFacts DEF Turn
<1>2. /\ observer[o].misses <= 2 /\ observer[o].obs \in Observation
      /\ observer[o].force => observer[o].obs.kind = "task"
  BY TypeFacts DEF CreateBinding, Placed
<1>3. observer' = [observer EXCEPT ![o] = v]
  BY DEF CreateBinding
<1>4. row' \in Row /\ row'.exists /\ row'.at = row.at /\ (row.exists => row' = row)
  <2>1. CASE row.exists
    BY <2>1, TypeFacts DEF CreateBinding
  <2>2. CASE ~row.exists
    <3> DEFINE st == StateOf(observer[o].obs)
    <3>1. st \in State
      BY <1>2, ObservationFacts
    <3>2. row' = [row EXCEPT !.exists = TRUE, !.status = st]
      BY <2>2 DEF CreateBinding
    <3> HIDE DEF st
    <3> QED BY <2>2, <3>1, <3>2, TypeFacts DEF Row
  <2> QED BY <2>1, <2>2
<1>5. Placed(row', v)
  BY <1>1, <1>2, <1>4 DEF Placed
<1> HIDE DEF v
<1> QED BY <1>1, <1>3, <1>4, <1>5, TurnStep, TypeFacts DEF CreateBinding

LEMMA ObserveTInv ==
  ASSUME TInv, NEW o \in Observer, NEW kind \in Kind, NEW force \in BOOLEAN,
         Observe(o, kind, force)
  PROVE  TInv'
<1> DEFINE x == [n |-> published, kind |-> kind]
           v == [observer[o] EXCEPT !.pc = "recording", !.force = force,
                                    !.told = None, !.obs = x]
<1>1. x \in Observation /\ (force => x.kind = "task")
  BY NowObserved DEF Observe
<1>3. observer' = [observer EXCEPT ![o] = v]
  BY DEF Observe
<1>5. observer[o] \in Turn /\ observer[o].misses <= 2 /\ row.exists /\ row' = row
  BY TypeFacts DEF Observe, Placed
<1> HIDE DEF x
<1>2. /\ v \in Turn /\ v.pc = "recording" /\ v.misses = observer[o].misses
      /\ v.obs = x /\ v.force = force
  BY <1>1, <1>5 DEF Turn
<1>4. Placed(row', v)
  BY <1>1, <1>2, <1>5 DEF Placed
<1> HIDE DEF v
<1> QED BY <1>2, <1>3, <1>4, TurnStep, TypeFacts DEF Observe

LEMMA CheckTInv ==
  ASSUME TInv, NEW o \in Observer, Check(o)
  PROVE  TInv'
<1> DEFINE x == [n |-> published, kind |-> "task"]
           v == [observer[o] EXCEPT !.pc = "recording", !.force = TRUE, !.obs = x]
<1>1. x \in Observation /\ x.kind = "task"
  BY NowObserved
<1>3. observer' = [observer EXCEPT ![o] = v]
  BY DEF Check
<1> HIDE DEF x
<1>2. v \in Turn /\ v.pc = "recording" /\ v.misses = observer[o].misses /\ v.obs = x
  BY ZenonT(60), <1>1, TypeFacts DEF Turn
<1>4. Placed(row', v)
  BY <1>1, <1>2, TypeFacts DEF Check, Placed
<1> HIDE DEF v
<1> QED BY <1>2, <1>3, <1>4, TurnStep, TypeFacts DEF Check

LEMMA RecordEventTInv ==
  ASSUME TInv, NEW o \in Observer, RecordEvent(o) PROVE TInv'
<1> DEFINE u == observer[o]
           b == FirstRecord(o)
           t == IF b THEN u.obs ELSE None
<1>1. /\ u \in Turn /\ u.obs \in Observation /\ u.misses <= 2 /\ row.exists
      /\ u.misses \in 0..3 /\ Placed(row, u)
  BY TypeFacts DEF RecordEvent, Placed, Turn
<1>2. b \in BOOLEAN /\ t \in Observation \cup {None}
  BY <1>1 DEF FirstRecord
<1>3. row' = row /\ published' = published /\ events' \subseteq Observation
      /\ shown' \in [Observation -> Nat]
  BY <1>1, TellFacts, TypeFacts DEF RecordEvent
<1>4. \/ observer' = [observer EXCEPT ![o] =
                        [u EXCEPT !.pc = "bound", !.told = t]]
      \/ observer' = [observer EXCEPT ![o] =
                        [u EXCEPT !.pc = "updating", !.unique = b]]
  BY DEF RecordEvent
<1> HIDE DEF u, b, t
<1>5. [u EXCEPT !.pc = "bound", !.told = t] \in Turn
      /\ Placed(row, [u EXCEPT !.pc = "bound", !.told = t])
  BY <1>1, <1>2 DEF Turn, Placed
<1>6. [u EXCEPT !.pc = "updating", !.unique = b] \in Turn
      /\ Placed(row, [u EXCEPT !.pc = "updating", !.unique = b])
  BY <1>1, <1>2 DEF Turn, Placed
<1> QED BY <1>3, <1>4, <1>5, <1>6, TurnStep, TypeFacts

LEMMA UpdateTInv ==
  ASSUME TInv, NEW o \in Observer, Update(o)
  PROVE  /\ TInv'
         /\ row' = Merge(row, observer[o].obs) /\ observer[o].obs \in Observation
<1> DEFINE u == observer[o]
           r == Merge(row, u.obs)
           cut(p) == [observer[p] EXCEPT !.current = FALSE]
<1>1. u \in Turn /\ u.obs \in Observation /\ row.exists /\ row \in Row
  BY TypeFacts DEF Update, Placed
<1>2. row' = r
  BY DEF Update
<1>3. r \in Row /\ r.exists
  BY <1>1, MergeFacts
<1>4. /\ Returned(o, r) \in Turn
      /\ Returned(o, r).pc \in {"bound", "checking", "over"}
      /\ Returned(o, r).obs = u.obs /\ Returned(o, r).misses = 0
      /\ Returned(o, r).force = u.force
  BY <1>1, ReturnedFacts
<1>5. published' = published /\ events' = events /\ shown' \in [Observation -> Nat]
  BY <1>1, TypeFacts, PublishFacts DEF Update
<1>6. observer' = [p \in Observer |-> IF p = o THEN Returned(o, r) ELSE cut(p)]
  BY DEF Update
<1>7. ASSUME NEW p \in Observer
      PROVE  /\ cut(p) \in Turn /\ cut(p).pc = observer[p].pc
             /\ cut(p).obs = observer[p].obs /\ cut(p).misses = observer[p].misses
             /\ cut(p).force = observer[p].force
  BY ZenonT(60), TypeFacts DEF Turn
<1> HIDE DEF r, cut
<1>8. ASSUME NEW p \in Observer PROVE observer'[p] \in Turn /\ Placed(row', observer'[p])
  <2>1. CASE p = o
    BY <1>2, <1>3, <1>4, <1>6, <2>1, TypeFacts DEF Placed
  <2>2. CASE p # o
    <3>1. observer'[p] = cut(p)
      BY <1>6, <2>2
    <3> QED BY <1>2, <1>3, <1>7, <3>1, TypeFacts DEF Placed
  <2> QED BY <2>1, <2>2
<1>9. observer' \in [Observer -> Turn]
  BY <1>6, <1>8
<1>10. TypeOK'
  BY <1>2, <1>3, <1>5, <1>9, TypeFacts DEF TypeOK
<1> QED BY <1>1, <1>2, <1>3, <1>8, <1>10 DEF TInv, Placement, r

LEMMA MissTInv ==
  ASSUME TInv, NEW o \in Observer, Miss(o) PROVE TInv'
<1> DEFINE v == [observer[o] EXCEPT !.pc = "rereading"]
<1>1. /\ v \in Turn /\ v.pc = "rereading" /\ v.misses = observer[o].misses
      /\ v.obs = observer[o].obs
  BY ZenonT(60), TypeFacts DEF Turn
<1>2. observer' = [observer EXCEPT ![o] = v]
  BY DEF Miss
<1>3. Placed(row', v)
  BY <1>1, TypeFacts DEF Miss, Placed
<1> HIDE DEF v
<1> QED BY <1>1, <1>2, <1>3, TurnStep, TypeFacts DEF Miss

LEMMA RereadTInv ==
  ASSUME TInv, NEW o \in Observer, Reread(o) PROVE TInv'
<1> DEFINE u == observer[o]
<1>1. /\ u \in Turn /\ u.obs \in Observation /\ u.misses <= 2 /\ row.exists
      /\ u.misses \in 0..3 /\ (u.force => u.obs.kind = "task")
  BY TypeFacts DEF Reread, Placed, Turn
<1>2. row' = row /\ published' = published /\ events' = events
  BY DEF Reread
<1>3. shown' \in [Observation -> Nat]
  BY <1>1, TypeFacts, PublishFacts DEF Reread
<1>4. CASE Preserved(row, u.obs)
  <2>1. observer' = [observer EXCEPT ![o] = Returned(o, row)]
    BY <1>4 DEF Reread
  <2>2. Returned(o, row) \in Turn /\ Placed(row, Returned(o, row))
    BY <1>1, ReturnedFacts DEF Placed
  <2> QED BY <1>2, <1>3, <2>1, <2>2, TurnStep, TypeFacts
<1>5. CASE ~Preserved(row, u.obs)
  <2> DEFINE pc == IF Exhausted(o) THEN "failed" ELSE "updating"
             m == u.misses + 1
             w == [u EXCEPT !.pc = pc, !.current = TRUE, !.misses = m]
  <2>1. observer' = [observer EXCEPT ![o] = w]
    BY <1>5 DEF Reread
  <2>2. /\ pc \in {"failed", "updating"}
        /\ m \in 0..3
        /\ pc = "updating" => m <= 2
    BY <1>1 DEF Exhausted
  <2> HIDE DEF u, pc, m
  <2>3. /\ w \in Turn /\ w.pc = pc /\ w.misses = m /\ w.obs = u.obs
        /\ w.force = u.force
    BY <1>1, <2>2 DEF Turn
  <2>4. Placed(row, w)
    BY <1>1, <2>2, <2>3 DEF Placed
  <2> HIDE DEF w
  <2> QED BY <1>2, <1>3, <2>1, <2>3, <2>4, TurnStep, TypeFacts
<1> QED BY <1>4, <1>5

LEMMA LeaveTInv ==
  ASSUME TInv, NEW o \in Observer, Leave(o) PROVE TInv'
<1>1. Idle \in Turn /\ Placed(row, Idle)
  BY DEF Idle, Turn, Placed
<1> QED BY <1>1, TurnStep, TypeFacts DEF Leave

LEMMA SdarPublishesTInv ==
  ASSUME TInv, SdarPublishes PROVE TInv'
BY DEF TInv, TypeOK, Placement, Placed, SdarPublishes

LEMMA NextTInv == TInv /\ [Next]_vars => TInv'
<1> SUFFICES ASSUME TInv, [Next]_vars PROVE TInv'
  OBVIOUS
<1>1. CASE SdarPublishes
  BY <1>1, SdarPublishesTInv
<1>2. ASSUME NEW o \in Observer, ReadBinding(o) \/ Work(o) \/ Leave(o) PROVE TInv'
  BY <1>2, ReadBindingTInv, CreateBindingTInv, RecordEventTInv, UpdateTInv,
     MissTInv, RereadTInv, LeaveTInv, CheckTInv DEF Work
<1>3. ASSUME NEW o \in Observer, NEW kind \in Kind, FirstEvent(o, kind) PROVE TInv'
  BY <1>3, FirstEventTInv
<1>4. ASSUME NEW o \in Observer, NEW kind \in Kind, NEW force \in BOOLEAN,
             Observe(o, kind, force)
      PROVE  TInv'
  BY <1>4, ObserveTInv
<1>5. CASE UNCHANGED vars
  BY <1>5 DEF vars, TInv, TypeOK, Placement, Placed
<1> QED BY <1>1, <1>2, <1>3, <1>4, <1>5 DEF Next

(* The row, the event cache and the turns always have their types.         *)
THEOREM TypeCorrect == Spec => []TypeOK
<1>1. TInv => TypeOK
  BY DEF TInv
<1> QED BY <1>1, InitTInv, NextTInv, PTL DEF Spec

-----------------------------------------------------------------------------
(* The row only changes when it is created and when an update hits it.     *)
LEMMA RowStep ==
  ASSUME TInv, [Next]_vars
  PROVE  /\ row.terminal => row' = row
         /\ row'.at >= row.at
<1> DEFINE Goal == (row.terminal => row' = row) /\ row'.at >= row.at
<1>1. row.at \in Nat /\ row \in Row /\ (row.terminal => row.exists)
  BY TypeFacts DEF Row
<1>2. CASE row' = row
  BY <1>1, <1>2
<1>3. ASSUME NEW o \in Observer, CreateBinding(o) PROVE Goal
  BY <1>1, <1>3, CreateBindingTInv
<1>4. ASSUME NEW o \in Observer, Update(o) PROVE Goal
  BY <1>1, <1>4, UpdateTInv, MergeFacts
<1>5. \/ row' = row
      \/ \E o \in Observer : CreateBinding(o) \/ Update(o)
  BY DEF Next, Work, vars, SdarPublishes, ReadBinding, FirstEvent, Observe,
         Check, RecordEvent, Miss, Reread, Leave
<1> QED BY <1>2, <1>3, <1>4, <1>5

(* No step of any turn changes a row whose Task has ended.                 *)
THEOREM TerminalStaysFinal == Spec => TerminalIsFinal
<1>1. TInv /\ [Next]_vars => [row.terminal => row' = row]_vars
  BY RowStep
<1> QED BY <1>1, InitTInv, NextTInv, PTL DEF Spec, TerminalIsFinal

(* No step of any turn sets the row's status timestamp back.               *)
THEOREM StampsNeverGoBack == Spec => StampsAdvance
<1>1. TInv /\ [Next]_vars => [row'.at >= row.at]_vars
  BY RowStep
<1> QED BY <1>1, InitTInv, NextTInv, PTL DEF Spec, StampsAdvance

-----------------------------------------------------------------------------
(* What a step may do to a turn.                                           *)
SameWork(u, v) ==
  /\ v.pc = u.pc /\ v.obs = u.obs /\ v.unique = u.unique /\ v.force = u.force
  /\ v.held = u.held /\ v.told = u.told

(* On its way to the row; nothing is held back or told.                    *)
UnderWay(u, v) ==
  /\ v.pc \notin {"bound", "checking", "over"}
  /\ v.held \in {None, u.held} /\ v.told \in {None, u.told}
  /\ v.pc \in {"updating", "rereading"} =>
       /\ u.pc \in {"updating", "rereading"}
       /\ v.obs = u.obs /\ v.unique = u.unique
  /\ v.obs \in {None, u.obs} \/ v.obs.n = published
  /\ \/ v.held = None
     \/ u.pc \in {"idle", "bound", "creating"}
     \/ /\ u.pc = "checking" /\ v.pc = "recording"
        /\ v.force /\ v.obs.n = published
     \/ /\ u.pc \in {"updating", "rereading"}
        /\ v.pc \in {"updating", "rereading", "failed"}
        /\ v.obs = u.obs /\ v.force = u.force

Answered(o) == Update(o) \/ (Reread(o) /\ Preserved(row, observer[o].obs))

TurnChange(p) ==
  \/ SameWork(observer[p], observer'[p])
  \/ UnderWay(observer[p], observer'[p])
  \/ ReadBinding(p) \/ RecordEvent(p) \/ Answered(p)

(* A turn's step leaves the work of every other turn alone.                *)
LEMMA OthersWork ==
  ASSUME TInv, NEW o \in Observer, NEW p \in Observer, p # o,
         NEW v, observer' = [observer EXCEPT ![o] = v]
  PROVE  observer'[p] = observer[p]
BY TypeFacts

LEMMA TurnChanges ==
  ASSUME TInv, [Next]_vars, NEW p \in Observer
  PROVE  TurnChange(p)
<1>1. CASE observer' = observer
  BY <1>1 DEF TurnChange, SameWork
<1>2. ASSUME NEW o \in Observer, p # o, NEW v, observer' = [observer EXCEPT ![o] = v]
      PROVE  TurnChange(p)
  BY <1>2, OthersWork DEF TurnChange, SameWork
<1>3. ASSUME NEW o \in Observer, p # o, Update(o) PROVE TurnChange(p)
  <2>1. observer'[p] = [observer[p] EXCEPT !.current = FALSE]
    BY <1>3 DEF Update
  <2>2. observer[p] \in Turn
    BY TypeFacts
  <2>3. SameWork(observer[p], observer'[p])
    BY <2>1, <2>2 DEF SameWork, Turn
  <2> QED BY <2>3 DEF TurnChange
<1>4. ASSUME NEW v, observer' = [observer EXCEPT ![p] = v] PROVE observer'[p] = v
  BY <1>4, TypeFacts
<1>5. observer[p] \in Turn
  BY TypeFacts
<1>6. ASSUME NEW kind \in Kind, FirstEvent(p, kind) PROVE TurnChange(p)
  <2>1. observer'[p] = [observer[p] EXCEPT !.pc = "creating",
                          !.obs = [n |-> published, kind |-> kind]]
    BY <1>4, <1>6 DEF FirstEvent
  <2>2. UnderWay(observer[p], observer'[p])
    BY <1>5, <1>6, <2>1 DEF UnderWay, Turn, FirstEvent
  <2> QED BY <2>2 DEF TurnChange
<1>7. CASE CreateBinding(p)
  <2>1. observer'[p] = [observer[p] EXCEPT !.pc = "recording", !.current = TRUE]
    BY <1>4, <1>7 DEF CreateBinding
  <2>2. UnderWay(observer[p], observer'[p])
    BY <1>5, <1>7, <2>1 DEF UnderWay, Turn, CreateBinding
  <2> QED BY <2>2 DEF TurnChange
<1>8. ASSUME NEW kind \in Kind, NEW force \in BOOLEAN, Observe(p, kind, force)
      PROVE  TurnChange(p)
  <2>1. observer'[p] = [observer[p] EXCEPT !.pc = "recording", !.force = force,
                          !.told = None, !.obs = [n |-> published, kind |-> kind]]
    BY <1>4, <1>8 DEF Observe
  <2> DEFINE x == [n |-> published, kind |-> kind]
  <2>3. x.n = published /\ observer[p].pc = "bound"
    BY <1>8 DEF Observe
  <2> HIDE DEF x
  <2>4. /\ observer'[p].pc = "recording" /\ observer'[p].obs = x
        /\ observer'[p].held = observer[p].held /\ observer'[p].told = None
    BY <1>5, <2>1 DEF Turn, x
  <2>2. UnderWay(observer[p], observer'[p])
    BY <2>3, <2>4 DEF UnderWay
  <2> QED BY <2>2 DEF TurnChange
<1>9. CASE Miss(p)
  <2>1. observer'[p] = [observer[p] EXCEPT !.pc = "rereading"]
    BY <1>4, <1>9 DEF Miss
  <2>2. UnderWay(observer[p], observer'[p])
    BY <1>5, <1>9, <2>1 DEF UnderWay, Turn, Miss
  <2> QED BY <2>2 DEF TurnChange
<1>10. CASE Reread(p)
  <2> DEFINE pc == IF Exhausted(p) THEN "failed" ELSE "updating"
             m == observer[p].misses + 1
  <2>1. CASE Preserved(row, observer[p].obs)
    BY <1>10, <2>1 DEF TurnChange, Answered
  <2>2. CASE ~Preserved(row, observer[p].obs)
    <3>1. observer'[p] = [observer[p] EXCEPT !.pc = pc, !.current = TRUE, !.misses = m]
      BY <1>4, <1>10, <2>2 DEF Reread
    <3>2. pc \in {"failed", "updating"} /\ observer[p].pc = "rereading"
      BY <1>10 DEF Reread
    <3> HIDE DEF pc, m
    <3>3. UnderWay(observer[p], observer'[p])
      BY <1>5, <3>1, <3>2 DEF UnderWay, Turn
    <3> QED BY <3>3 DEF TurnChange
  <2> QED BY <2>1, <2>2
<1>11. CASE Leave(p)
  <2>1. observer'[p] = Idle
    BY <1>4, <1>11 DEF Leave
  <2>2. UnderWay(observer[p], observer'[p])
    BY <2>1 DEF UnderWay, Idle
  <2> QED BY <2>2 DEF TurnChange
<1>14. CASE Check(p)
  <2>1. observer'[p] = [observer[p] EXCEPT !.pc = "recording", !.force = TRUE,
                          !.obs = [n |-> published, kind |-> "task"]]
    BY <1>4, <1>14 DEF Check
  <2> DEFINE x == [n |-> published, kind |-> "task"]
  <2>3. x.n = published /\ observer[p].pc = "checking"
    BY <1>14 DEF Check
  <2> HIDE DEF x
  <2>4. /\ observer'[p].pc = "recording" /\ observer'[p].obs = x
        /\ observer'[p].held = observer[p].held
        /\ observer'[p].told = observer[p].told /\ observer'[p].force
    BY <1>5, <2>1 DEF Turn, x
  <2>2. UnderWay(observer[p], observer'[p])
    BY <2>3, <2>4 DEF UnderWay
  <2> QED BY <2>2 DEF TurnChange
<1>12. CASE ReadBinding(p) \/ RecordEvent(p) \/ Update(p)
  BY <1>12 DEF TurnChange, Answered
<1> DEFINE Cases ==
       \/ observer' = observer
       \/ \E o \in Observer : o # p /\ Update(o)
       \/ \E o \in Observer : o # p /\ \E v : observer' = [observer EXCEPT ![o] = v]
       \/ \E kind \in Kind : FirstEvent(p, kind)
       \/ \E kind \in Kind, force \in BOOLEAN : Observe(p, kind, force)
       \/ CreateBinding(p) \/ Check(p) \/ Miss(p) \/ Reread(p) \/ Leave(p)
       \/ ReadBinding(p) \/ RecordEvent(p) \/ Update(p)
<1>13. Cases
  <2>1. CASE SdarPublishes \/ UNCHANGED vars
    BY <2>1 DEF SdarPublishes, vars
  <2>2. ASSUME NEW o \in Observer, o # p, ReadBinding(o) \/ Work(o) \/ Leave(o),
               ~Update(o)
        PROVE  \E v : observer' = [observer EXCEPT ![o] = v]
    <3>1. CASE ReadBinding(o)
      BY <3>1 DEF ReadBinding
    <3>2. CASE CreateBinding(o)
      BY <3>2 DEF CreateBinding
    <3>3. CASE RecordEvent(o)
      BY <3>3 DEF RecordEvent
    <3>4. CASE Miss(o)
      BY <3>4 DEF Miss
    <3>5. CASE Reread(o)
      BY <3>5 DEF Reread
    <3>6. CASE Leave(o)
      BY <3>6 DEF Leave
    <3>7. CASE Check(o)
      BY <3>7 DEF Check
    <3> QED BY <2>2, <3>1, <3>2, <3>3, <3>4, <3>5, <3>6, <3>7 DEF Work
  <2>3. ASSUME NEW o \in Observer, NEW kind \in Kind, FirstEvent(o, kind)
        PROVE  \E v : observer' = [observer EXCEPT ![o] = v]
    BY <2>3 DEF FirstEvent
  <2>4. ASSUME NEW o \in Observer, NEW kind \in Kind, NEW force \in BOOLEAN,
               Observe(o, kind, force)
        PROVE  \E v : observer' = [observer EXCEPT ![o] = v]
    BY <2>4 DEF Observe
  <2>5. ASSUME NEW o \in Observer, ReadBinding(o) \/ Work(o) \/ Leave(o) PROVE Cases
    <3>1. CASE o = p
      BY <2>5, <3>1 DEF Work
    <3>2. CASE o # p
      BY <2>2, <2>5, <3>2
    <3> QED BY <3>1, <3>2
  <2>6. ASSUME NEW o \in Observer, NEW kind \in Kind, FirstEvent(o, kind) PROVE Cases
    BY <2>3, <2>6
  <2>7. ASSUME NEW o \in Observer, NEW kind \in Kind, NEW force \in BOOLEAN,
               Observe(o, kind, force)
        PROVE  Cases
    BY <2>4, <2>7
  <2> HIDE DEF Cases
  <2>8. CASE SdarPublishes \/ UNCHANGED vars
    BY <2>1, <2>8 DEF Cases
  <2> QED BY <2>5, <2>6, <2>7, <2>8 DEF Next
<1> QED BY <1>1, <1>2, <1>3, <1>6, <1>7, <1>8, <1>9, <1>10, <1>11, <1>12, <1>13,
          <1>14

(* What a step does to the events and to what is shown.                    *)
LEMMA QuietStep ==
  ASSUME [Next]_vars,
         \A o \in Observer : ~RecordEvent(o) /\ ~Answered(o)
  PROVE  events' = events /\ shown' = shown
BY DEF Next, Work, vars, Answered, SdarPublishes, ReadBinding, FirstEvent,
       CreateBinding, Observe, Check, Miss, Reread, Leave

-----------------------------------------------------------------------------
(* A row that has returned to a turn holds what the turn observed, or what *)
(* is at least as new.                                                     *)
Kept(r, u) ==
  (u.pc \in {"bound", "checking", "over"} /\ u.obs # None) =>
    u.obs.kind = "artifact" \/ r.terminal \/ r.at >= Stamp(u.obs)

LEMMA AnsweredFacts ==
  ASSUME TInv, NEW o \in Observer, Answered(o)
  PROVE  /\ observer'[o] = Returned(o, row') /\ Publish(o, row')
         /\ observer[o] \in Turn /\ observer[o].obs \in Observation
         /\ observer[o].pc \in {"updating", "rereading"}
         /\ events' = events
         /\ row' = Merge(row, observer[o].obs)
              \/ (row' = row /\ Preserved(row, observer[o].obs))
<1>1. CASE Update(o)
  <2>1. observer'[o] = Returned(o, row')
    BY <1>1 DEF Update
  <2> QED BY <1>1, <2>1, TypeFacts DEF Update, Placed
<1>2. CASE Reread(o) /\ Preserved(row, observer[o].obs)
  <2>1. observer'[o] = Returned(o, row)
    BY <1>2, TypeFacts DEF Reread
  <2> QED BY <1>2, <2>1, TypeFacts DEF Reread, Placed
<1> QED BY <1>1, <1>2 DEF Answered

LEMMA RecordedFacts ==
  ASSUME TInv, NEW o \in Observer, RecordEvent(o)
  PROVE  /\ observer[o].obs \in Observation /\ observer[o].pc = "recording"
         /\ events' = events \cup {observer[o].obs}
         /\ observer'[o].obs = observer[o].obs
         /\ observer'[o].held = observer[o].held
         /\ observer'[o].force = observer[o].force
         /\ observer[o].obs.kind = "artifact" =>
              /\ observer'[o].pc = "bound"
              /\ ~observer'[o].unique \/ observer[o].unique
              /\ observer'[o].told \in {None, observer[o].obs}
              /\ IF FirstRecord(o) THEN Tell(observer[o].obs) ELSE shown' = shown
         /\ observer[o].obs.kind # "artifact" =>
              /\ observer'[o].pc = "updating"
              /\ observer'[o].unique = FirstRecord(o)
              /\ observer'[o].told = observer[o].told
              /\ shown' = shown
<1> DEFINE u == observer[o]
           b == FirstRecord(o)
           t == IF b THEN u.obs ELSE None
<1>1. u \in Turn /\ u.obs \in Observation /\ u.pc = "recording"
  BY TypeFacts DEF RecordEvent, Placed
<1>2. CASE u.obs.kind = "artifact"
  <2>1. observer'[o] = [u EXCEPT !.pc = "bound", !.told = t]
    BY <1>2, TypeFacts DEF RecordEvent
  <2>2. IF b THEN Tell(u.obs) ELSE shown' = shown
    BY <1>2 DEF RecordEvent
  <2>3. events' = events \cup {u.obs} /\ t \in {None, u.obs}
    BY DEF RecordEvent
  <2> HIDE DEF u, b, t
  <2>4. /\ observer'[o].pc = "bound" /\ observer'[o].obs = u.obs
        /\ observer'[o].held = u.held /\ observer'[o].force = u.force
        /\ observer'[o].unique = u.unique /\ observer'[o].told = t
    BY <1>1, <2>1 DEF Turn
  <2> QED BY <1>1, <1>2, <2>2, <2>3, <2>4 DEF u, b
<1>3. CASE u.obs.kind # "artifact"
  <2>1. observer'[o] = [u EXCEPT !.pc = "updating", !.unique = b]
    BY <1>3, TypeFacts DEF RecordEvent
  <2>2. shown' = shown /\ events' = events \cup {u.obs}
    BY <1>3 DEF RecordEvent
  <2> HIDE DEF u, b
  <2>3. /\ observer'[o].pc = "updating" /\ observer'[o].obs = u.obs
        /\ observer'[o].held = u.held /\ observer'[o].force = u.force
        /\ observer'[o].unique = b /\ observer'[o].told = u.told
    BY <1>1, <2>1 DEF Turn
  <2> QED BY <1>1, <1>3, <2>2, <2>3 DEF u, b
<1> QED BY <1>2, <1>3

LEMMA KeptStep ==
  ASSUME TInv, [Next]_vars, NEW p \in Observer, Kept(row, observer[p])
  PROVE  Kept(row', observer'[p])
<1> DEFINE u == observer[p]
           v == observer'[p]
<1>1. row \in Row /\ row' \in Row /\ row.at \in Nat /\ row'.at \in Nat
  BY NextTInv, TypeFacts DEF TInv, TypeOK, Row
<1>2. /\ row.terminal => row'.terminal
      /\ row'.at >= row.at
  BY RowStep
<1>3. u \in Turn /\ Placed(row, u)
  BY TypeFacts
<1>4. ASSUME u.obs \in Observation PROVE Stamp(u.obs) \in Nat
  BY <1>4, ObservationFacts
<1>5. CASE SameWork(u, v)
  BY <1>1, <1>2, <1>3, <1>4, <1>5 DEF SameWork, Kept, Turn
<1>6. CASE UnderWay(u, v)
  BY <1>6 DEF UnderWay, Kept
<1>7. CASE ReadBinding(p)
  <2>1. u.obs = None /\ v.obs = u.obs
    BY <1>3, <1>7, TypeFacts DEF ReadBinding, Placed, Turn
  <2> QED BY <2>1 DEF Kept
<1>8. CASE RecordEvent(p)
  BY <1>8, RecordedFacts DEF Kept
<1>9. CASE Answered(p)
  <2>1. v.obs = u.obs /\ u.obs \in Observation
    BY <1>9, AnsweredFacts, ReturnedFacts
  <2>2. row'.terminal \/ row'.at >= Stamp(u.obs)
    BY <1>1, <1>4, <1>9, <2>1, AnsweredFacts, MergeFacts DEF Preserved
  <2> QED BY <2>1, <2>2 DEF Kept
<1> QED BY <1>5, <1>6, <1>7, <1>8, <1>9, TurnChanges DEF TurnChange

(* When updateTaskBinding returns, the observation is in the row or the    *)
(* row is at least as new, whatever the other turns did meanwhile.         *)
THEOREM NoUpdateIsLost == Spec => []NoLostUpdate
<1> DEFINE Inv == TInv /\ \A o \in Observer : Kept(row, observer[o])
<1>1. Init => Inv
  BY InitTInv DEF Init, Idle, Kept
<1>2. Inv /\ [Next]_vars => Inv'
  BY NextTInv, KeptStep DEF Kept
<1>3. Inv => NoLostUpdate
  BY DEF Kept, NoLostUpdate
<1> QED BY <1>1, <1>2, <1>3, PTL DEF Spec

-----------------------------------------------------------------------------
(* A turn holds back a status only until its check has returned; if that   *)
(* status is final, the row holds it and stays so.                         *)
HeldBack(r, n, u) ==
  /\ u.obs # None => u.obs.n <= n
  /\ u.held # None =>
       /\ u.pc \in {"checking", "recording", "updating", "rereading", "failed"}
       /\ HoldsBack(u.held) /\ u.held.n <= n
       /\ u.pc \in {"recording", "updating", "rereading"} =>
            u.force /\ u.held.n <= u.obs.n
       /\ StateOf(u.held) \in Terminal =>
            r.terminal /\ r.seen = u.held /\ r.status = StateOf(u.held)

SeenEnds(r) == (r.seen # None /\ StateOf(r.seen) \in Terminal) => r.terminal

HInv ==
  /\ TInv
  /\ SeenEnds(row)
  /\ \A o \in Observer : HeldBack(row, published, observer[o])

LEMMA MergeSeen ==
  ASSUME NEW r \in Row, NEW x \in Observation
  PROVE  /\ SeenEnds(r) => SeenEnds(Merge(r, x))
         /\ Applies(r, x) => Accepted(Merge(r, x), x)
<1>1. CASE Applies(r, x)
  <2> DEFINE at == IF Stamp(x) = 0 THEN r.at ELSE Stamp(x)
             e == StateOf(x) \in Terminal
             st == StateOf(x)
  <2>1. Merge(r, x) = [r EXCEPT !.status = st, !.seen = x, !.at = at, !.terminal = e]
    BY <1>1 DEF Merge
  <2> HIDE DEF at, e, st
  <2>2. Merge(r, x).seen = x /\ Merge(r, x).terminal = e /\ Merge(r, x).status = st
    BY <2>1 DEF Row
  <2> QED BY <2>2 DEF SeenEnds, Accepted, e, st
<1>2. CASE ~Applies(r, x)
  BY <1>2 DEF Merge
<1> QED BY <1>1, <1>2

LEMMA SeenStep == HInv /\ [Next]_vars => SeenEnds(row')
<1> SUFFICES ASSUME HInv, [Next]_vars PROVE SeenEnds(row')
  OBVIOUS
<1>1. TInv /\ SeenEnds(row) /\ row \in Row
  BY TypeFacts DEF HInv
<1>2. ASSUME NEW o \in Observer, CreateBinding(o) PROVE SeenEnds(row')
  <2>1. CASE row.exists
    BY <1>1, <1>2, <2>1, CreateBindingTInv
  <2>2. CASE ~row.exists
    <3> DEFINE st == StateOf(observer[o].obs)
    <3>1. row' = [row EXCEPT !.exists = TRUE, !.status = st]
      BY <1>2, <2>2 DEF CreateBinding
    <3> HIDE DEF st
    <3>2. row'.seen = row.seen /\ row'.terminal = row.terminal
      BY <1>1, <3>1 DEF Row
    <3> QED BY <1>1, <3>2 DEF SeenEnds
  <2> QED BY <2>1, <2>2
<1>3. ASSUME NEW o \in Observer, Update(o) PROVE SeenEnds(row')
  BY <1>1, <1>3, UpdateTInv, MergeSeen
<1>4. \/ row' = row
      \/ \E o \in Observer : CreateBinding(o) \/ Update(o)
  BY DEF Next, Work, vars, SdarPublishes, ReadBinding, FirstEvent, Observe,
         Check, RecordEvent, Miss, Reread, Leave
<1> QED BY <1>1, <1>2, <1>3, <1>4

LEMMA PublishedStep ==
  ASSUME TInv, [Next]_vars
  PROVE  published \in Nat /\ published' \in Nat /\ published' >= published
<1>1. published \in Nat
  BY TypeFacts, LifelineStates
<1>2. published' = published \/ published' = published + 1
  BY DEF Next, Work, vars, SdarPublishes, ReadBinding, FirstEvent, Observe,
         Check, RecordEvent, Miss, Reread, Leave, CreateBinding, Update
<1> QED BY <1>1, <1>2

(* What an answer leaves held back, and what it lets the turn tell.        *)
LEMMA AnswerTells ==
  ASSUME HInv, [Next]_vars, NEW p \in Observer, Answered(p)
  PROVE  LET u == observer[p]
             v == observer'[p]
             InRow(x) == row'.seen = x /\ row'.status = StateOf(x)
         IN  /\ v.held # None => v.held = u.obs /\ HoldsBack(u.obs)
                                  /\ v.pc = "checking" /\ InRow(u.obs)
             /\ v.told # None =>
                  \/ v.told = u.obs /\ InRow(u.obs)
                  \/ /\ v.told = u.held
                     /\ \/ InRow(u.held)
                        \/ /\ StateOf(u.held) = "INPUT_REQUIRED"
                           /\ row'.terminal \/ row'.at > u.held.n
<1> DEFINE u == observer[p]
           v == observer'[p]
<1>1. /\ v = Returned(p, row') /\ u \in Turn /\ u.obs \in Observation
      /\ u.pc \in {"updating", "rereading"}
      /\ \/ row' = Merge(row, u.obs)
         \/ row' = row /\ Preserved(row, u.obs)
  BY AnsweredFacts DEF HInv
<1>2. /\ row \in Row /\ row.at \in Nat /\ Placed(row, u)
      /\ HeldBack(row, published, u)
  BY TypeFacts DEF HInv, Row
<1>3. Publishes(p, row') => row'.seen = u.obs /\ row'.status = StateOf(u.obs)
  BY DEF Publishes, Accepted
<1>4. CASE HoldsBack(u.obs)
  <2>1. ~u.force
    BY <1>2, <1>4 DEF Placed, HoldsBack
  <2>2. u.held = None
    BY <1>1, <1>2, <2>1 DEF HeldBack
  <2>3. v.told = None /\ v.held = Telling(p, row') /\ v.pc = "checking"
    BY <1>1, <1>4, ReturnedFacts
  <2>4. v.held = IF Publishes(p, row') THEN u.obs ELSE None
    BY <2>2, <2>3 DEF Telling
  <2> QED BY <1>3, <1>4, <2>3, <2>4
<1>5. CASE ~HoldsBack(u.obs)
  <2>1. v.held = None /\ v.told = Telling(p, row')
    BY <1>1, <1>5, ReturnedFacts
  <2>2. CASE Publishes(p, row')
    <3>1. v.told = u.obs
      BY <2>1, <2>2 DEF Telling
    <3> QED BY <1>3, <2>1, <2>2, <3>1
  <2>3. CASE ~Publishes(p, row') /\ u.held # None
    <3>1. v.told = u.held
      BY <2>1, <2>3 DEF Telling
    <3>2. /\ HoldsBack(u.held) /\ u.force /\ u.held.n <= u.obs.n
          /\ StateOf(u.held) \in Terminal =>
               row.terminal /\ row.seen = u.held /\ row.status = StateOf(u.held)
      BY <1>1, <1>2, <2>3 DEF HeldBack
    <3>3. ~Accepted(row', u.obs)
      BY <2>3, <3>2 DEF Publishes
    <3>4. /\ row' = row
          /\ row.terminal \/ (Stamp(u.obs) # 0 /\ row.at > Stamp(u.obs))
      <4>1. Stamp(u.obs) \in Nat
        BY <1>1, ObservationFacts
      <4>2. CASE row' = row /\ Preserved(row, u.obs)
        BY <1>2, <4>1, <4>2 DEF Preserved
      <4>3. CASE row' = Merge(row, u.obs)
        <5>1. ~Applies(row, u.obs)
          BY <1>1, <1>2, <3>3, <4>3, MergeSeen
        <5>2. row' = row
          BY <4>3, <5>1 DEF Merge
        <5> QED BY <1>2, <4>1, <5>1, <5>2 DEF Applies
      <4> QED BY <1>1, <4>2, <4>3
    <3>5. u.held \in Observation /\ u.held.n \in Nat /\ u.obs.n \in Nat
      BY <1>1, <2>3, ObservationFacts DEF Turn
    <3>6. Stamp(u.obs) # 0 => Stamp(u.obs) = u.obs.n
      BY DEF Stamp
    <3>7. row'.terminal \/ row'.at > u.held.n
      BY <1>2, <3>2, <3>4, <3>5, <3>6
    <3>8. StateOf(u.held) \in Terminal \/ StateOf(u.held) = "INPUT_REQUIRED"
      BY <3>2 DEF HoldsBack, Boundary
    <3> QED BY <2>1, <3>1, <3>2, <3>4, <3>7, <3>8
  <2>4. CASE ~Publishes(p, row') /\ u.held = None
    BY <2>1, <2>4 DEF Telling
  <2> QED BY <2>2, <2>3, <2>4
<1> QED BY <1>4, <1>5

LEMMA HeldBackStep ==
  ASSUME HInv, [Next]_vars, NEW p \in Observer
  PROVE  HeldBack(row', published', observer'[p])
<1> DEFINE u == observer[p]
           v == observer'[p]
           n == published
           m == published'
<1>1. /\ TInv /\ u \in Turn /\ Placed(row, u) /\ HeldBack(row, n, u)
      /\ n \in Nat /\ m \in Nat /\ m >= n
  BY TypeFacts, PublishedStep DEF HInv
<1>2. row.terminal => row' = row
  BY <1>1, RowStep
<1>3. /\ u.obs # None => u.obs \in Observation /\ u.obs.n \in Nat
      /\ u.held # None => u.held \in Observation /\ u.held.n \in Nat
  BY <1>1, ObservationFacts DEF Turn
<1>4. CASE SameWork(u, v)
  BY <1>1, <1>2, <1>3, <1>4 DEF SameWork, HeldBack
<1>5. CASE UnderWay(u, v)
  <2>1. v.obs # None => v.obs.n <= m
    BY <1>1, <1>3, <1>5 DEF UnderWay, HeldBack
  <2>2. ASSUME v.held # None
        PROVE  /\ v.held = u.held /\ u.held # None
               /\ v.pc \in {"recording", "updating", "rereading", "failed"}
               /\ v.pc \in {"recording", "updating", "rereading"} =>
                    v.force /\ v.held.n <= v.obs.n
    BY <1>1, <1>3, <1>5, <2>2 DEF UnderWay, HeldBack
  <2> QED BY <1>1, <1>2, <1>3, <2>1, <2>2 DEF HeldBack
<1>6. CASE ReadBinding(p)
  <2>1. v.obs = u.obs /\ v.held = u.held /\ u.pc = "idle"
    BY <1>1, <1>6, TypeFacts DEF ReadBinding, Turn
  <2> QED BY <1>1, <1>3, <2>1 DEF HeldBack
<1>7. CASE RecordEvent(p)
  <2>1. /\ u.obs \in Observation /\ u.pc = "recording" /\ v.obs = u.obs
        /\ v.held = u.held /\ v.force = u.force
        /\ v.pc = "bound" => u.obs.kind = "artifact"
        /\ v.pc \in {"bound", "updating"}
    BY <1>1, <1>7, RecordedFacts
  <2>2. u.held # None => v.pc = "updating"
    BY <1>1, <2>1 DEF HeldBack, Placed
  <2> QED BY <1>1, <1>2, <1>3, <2>1, <2>2 DEF HeldBack
<1>8. CASE Answered(p)
  <2>1. v.obs = u.obs /\ u.obs \in Observation
    BY <1>1, <1>8, AnsweredFacts, ReturnedFacts
  <2>2. v.held # None => /\ v.held = u.obs /\ HoldsBack(u.obs) /\ v.pc = "checking"
                         /\ row'.seen = u.obs /\ row'.status = StateOf(u.obs)
    BY <1>8, AnswerTells
  <2>3. SeenEnds(row')
    BY SeenStep
  <2> QED BY <1>1, <1>3, <2>1, <2>2, <2>3 DEF HeldBack, SeenEnds
<1> QED BY <1>1, <1>4, <1>5, <1>6, <1>7, <1>8, TurnChanges DEF TurnChange

LEMMA InitHInv == Init => HInv
BY InitTInv DEF Init, HInv, SeenEnds, HeldBack, Idle

LEMMA NextHInv == HInv /\ [Next]_vars => HInv'
BY NextTInv, SeenStep, HeldBackStep DEF HInv, SeenEnds, HeldBack

(* What a turn holds back or tells is what the row holds at that moment,   *)
(* except for a question that was held back and that the row has passed    *)
(* over since: the row has ended or carries a later stamp.                 *)
THEOREM OnlyPersistedIsPublished == Spec => PublishedIsPersisted
<1> DEFINE InRow(x) == row'.seen = x /\ row'.status = StateOf(x)
           Told(p) ==
      LET u == observer[p]
          v == observer'[p]
      IN  /\ v.held \notin {None, u.held} => InRow(v.held)
          /\ (v.told \notin {None, u.told} /\ v.told.kind # "artifact") =>
               \/ InRow(v.told)
               \/ /\ v.told = u.held
                  /\ StateOf(v.told) = "INPUT_REQUIRED"
                  /\ row'.terminal \/ row'.at > v.told.n
<1>1. ASSUME HInv, [Next]_vars, NEW p \in Observer PROVE Told(p)
  <2>0. TInv
    BY <1>1 DEF HInv
  <2>1. CASE SameWork(observer[p], observer'[p]) \/ UnderWay(observer[p], observer'[p])
    BY <2>1 DEF SameWork, UnderWay
  <2>2. CASE ReadBinding(p)
    BY <2>0, <2>2, TypeFacts DEF ReadBinding, Turn
  <2>3. CASE RecordEvent(p)
    BY <2>0, <2>3, RecordedFacts
  <2>4. CASE Answered(p)
    BY <1>1, <2>4, AnswerTells
  <2> QED BY <1>1, <2>0, <2>1, <2>2, <2>3, <2>4, TurnChanges DEF TurnChange
<1>2. HInv /\ [Next]_vars => [\A o \in Observer : Told(o)]_vars
  BY <1>1
<1> QED BY <1>2, InitHInv, NextHInv, PTL DEF Spec, PublishedIsPersisted

-----------------------------------------------------------------------------
(* The turn that recorded an event first, and has not had its answer yet   *)
(* or holds it back, is the only one that may still tell it unforced.      *)
MayPublish(u, x) ==
  \/ u.unique /\ u.obs = x /\ u.pc \in {"updating", "rereading"}
  \/ u.held = x

Publisher(x) ==
  /\ shown[x] <= 1
  /\ (x \notin events \/ shown[x] = 1) =>
       \A o \in Observer : ~MayPublish(observer[o], x)
  /\ x \notin events => shown[x] = 0
  /\ \A o, p \in Observer :
       (MayPublish(observer[o], x) /\ MayPublish(observer[p], x)) => o = p

LEMMA NotNone == \A x \in Observation : x # None
OBVIOUS

(* Every turn may tell only what it might have told before.                *)
LEMMA PublisherStays ==
  ASSUME TInv, [Next]_vars, NEW p \in Observer, NEW x \in Observation,
         ~RecordEvent(p), ~Answered(p), MayPublish(observer'[p], x)
  PROVE  MayPublish(observer[p], x)
<1>1. CASE SameWork(observer[p], observer'[p])
  BY <1>1 DEF SameWork, MayPublish
<1>2. CASE UnderWay(observer[p], observer'[p])
  BY <1>2, NotNone DEF UnderWay, MayPublish
<1>3. CASE ReadBinding(p)
  BY <1>3, TypeFacts DEF ReadBinding, MayPublish, Turn
<1> QED BY <1>1, <1>2, <1>3, TurnChanges DEF TurnChange

(* What an answered turn may tell it might have told before, and so might  *)
(* it what it has just told unforced, which it may not tell again.         *)
LEMMA PublisherAnswered ==
  ASSUME HInv, [Next]_vars, NEW p \in Observer, NEW x \in Observation,
         Answered(p)
  PROVE  /\ MayPublish(observer'[p], x) => MayPublish(observer[p], x)
         /\ shown'[x] # shown[x] =>
              /\ shown'[x] = shown[x] + 1
              /\ MayPublish(observer[p], x) /\ ~MayPublish(observer'[p], x)
<1> DEFINE u == observer[p]
           v == observer'[p]
           tell == Telling(p, row')
<1>1. /\ TInv /\ v = Returned(p, row') /\ Publish(p, row') /\ u \in Turn
      /\ u.obs \in Observation /\ u.pc \in {"updating", "rereading"}
      /\ Placed(row, u)
  BY AnsweredFacts, TypeFacts DEF HInv
<1>2. /\ ~v.unique
      /\ HoldsBack(u.obs) => v.held = tell
      /\ ~HoldsBack(u.obs) => v.held = None
  BY <1>1, ReturnedFacts
<1>3. HoldsBack(u.obs) => ~u.force
  BY <1>1 DEF Placed, HoldsBack
<1>4. ASSUME tell = x, ~(Publishes(p, row') /\ u.force) PROVE MayPublish(u, x)
  BY <1>1, <1>4 DEF Telling, Publishes, MayPublish
<1>5. MayPublish(v, x) => MayPublish(u, x)
  BY <1>2, <1>3, <1>4, NotNone DEF MayPublish
<1>6. ASSUME shown'[x] # shown[x]
      PROVE  ~HoldsBack(u.obs) /\ tell = x /\ ~(Publishes(p, row') /\ u.force)
             /\ shown'[x] = shown[x] + 1
  <2>1. ~HoldsBack(u.obs) /\ ~(Publishes(p, row') /\ u.force) /\ Tell(tell)
    BY <1>1, <1>6 DEF Publish
  <2>2. shown' = [shown EXCEPT ![tell] = shown[tell] + 1]
        /\ shown \in [Observation -> Nat]
    BY <1>1, <2>1, TypeFacts DEF Tell
  <2> HIDE DEF tell
  <2>3. tell = x
    BY <1>6, <2>2
  <2> QED BY <2>1, <2>2, <2>3
<1>7. ~HoldsBack(u.obs) => ~MayPublish(v, x)
  BY <1>2, NotNone DEF MayPublish
<1> QED BY <1>4, <1>5, <1>6, <1>7

LEMMA TellOnce ==
  ASSUME TInv, NEW x \in Observation, NEW y \in Observation, Tell(y)
  PROVE  /\ x # y => shown'[x] = shown[x]
         /\ x = y => shown'[x] = shown[x] + 1
<1>1. shown' = [shown EXCEPT ![y] = shown[y] + 1] /\ shown \in [Observation -> Nat]
  BY TypeFacts DEF Tell
<1> QED BY <1>1

(* A step leaves the work of all turns but one alone.                      *)
LEMMA OneActs ==
  ASSUME TInv, [Next]_vars, NEW o \in Observer, RecordEvent(o) \/ Answered(o),
         NEW p \in Observer, p # o
  PROVE  SameWork(observer[p], observer'[p])
<1>1. CASE \E v : observer' = [observer EXCEPT ![o] = v]
  BY <1>1, OthersWork DEF SameWork
<1>2. CASE Update(o)
  <2>1. observer'[p] = [observer[p] EXCEPT !.current = FALSE] /\ observer[p] \in Turn
    BY <1>2, TypeFacts DEF Update
  <2> QED BY <2>1 DEF SameWork, Turn
<1>3. CASE RecordEvent(o)
  <2>1. \E v : observer' = [observer EXCEPT ![o] = v]
    BY <1>3 DEF RecordEvent
  <2> QED BY <1>1, <2>1
<1>4. CASE Reread(o)
  <2>1. \E v : observer' = [observer EXCEPT ![o] = v]
    BY <1>4 DEF Reread
  <2> QED BY <1>1, <2>1
<1> QED BY <1>2, <1>3, <1>4 DEF Answered

LEMMA PublisherStep ==
  ASSUME HInv, [Next]_vars, NEW x \in Observation, Publisher(x)
  PROVE  Publisher(x)'
<1>0. TInv
  BY DEF HInv
<1>1. shown[x] \in Nat
  BY <1>0, TypeFacts
<1>2. CASE \A o \in Observer : ~RecordEvent(o) /\ ~Answered(o)
  <2>1. events' = events /\ shown' = shown
    BY <1>2, QuietStep
  <2>2. \A p \in Observer : MayPublish(observer'[p], x) => MayPublish(observer[p], x)
    BY <1>0, <1>2, PublisherStays
  <2>3. \A p \in Observer : MayPublish(observer[p], x)' => MayPublish(observer[p], x)
    BY <2>2 DEF MayPublish
  <2> QED BY <2>1, <2>3 DEF Publisher
<1>3. ASSUME NEW o \in Observer, RecordEvent(o) PROVE Publisher(x)'
  <2> DEFINE u == observer[o]
  <2>1. /\ u.obs \in Observation /\ u.pc = "recording"
        /\ events' = events \cup {u.obs} /\ observer'[o].obs = u.obs
        /\ observer'[o].held = u.held
    BY <1>0, <1>3, RecordedFacts
  <2>2. \A p \in Observer : p # o =>
          (MayPublish(observer[p], x)' <=> MayPublish(observer[p], x))
    BY <1>0, <1>3, OneActs DEF SameWork, MayPublish
  <2>4. CASE u.obs.kind = "artifact"
    <3>1. MayPublish(u, x)' => MayPublish(u, x)
      BY <1>0, <1>3, <2>1, <2>4, RecordedFacts DEF MayPublish
    <3>2. \A p \in Observer : MayPublish(observer[p], x)' => MayPublish(observer[p], x)
      BY <2>2, <3>1
    <3>3. \/ shown'[x] = shown[x]
          \/ x \notin events /\ u.obs = x /\ shown'[x] = shown[x] + 1
      BY <1>0, <1>3, <2>1, <2>4, RecordedFacts, TellOnce DEF FirstRecord
    <3> QED BY <1>1, <2>1, <3>2, <3>3 DEF Publisher
  <2>5. CASE u.obs.kind # "artifact"
    <3>1. shown' = shown /\ observer'[o].unique = FirstRecord(o)
      BY <1>0, <1>3, <2>5, RecordedFacts
    <3>2. MayPublish(u, x)' => MayPublish(u, x) \/ (u.obs = x /\ x \notin events)
      BY <2>1, <3>1 DEF MayPublish, FirstRecord
    <3>3. \A p \in Observer : x \notin events => ~MayPublish(observer[p], x)
      BY DEF Publisher
    <3>4. x \in events => x \in events'
      BY <2>1
    <3>5. x \notin events' => \A p \in Observer : ~MayPublish(observer[p], x)'
      BY <2>1, <2>2, <3>2, <3>3, <3>4
    <3>6. shown[x] = 1 => \A p \in Observer : ~MayPublish(observer[p], x)'
      BY <2>2, <3>2 DEF Publisher
    <3>7. \A q, p \in Observer :
            (MayPublish(observer[q], x)' /\ MayPublish(observer[p], x)') => q = p
      BY <2>2, <3>2, <3>3 DEF Publisher
    <3> QED BY <1>1, <3>1, <3>4, <3>5, <3>6, <3>7 DEF Publisher
  <2> QED BY <2>4, <2>5
<1>4. ASSUME NEW o \in Observer, Answered(o) PROVE Publisher(x)'
  <2> DEFINE u == observer[o]
  <2>1. events' = events
    BY <1>0, <1>4, AnsweredFacts
  <2>2. \A p \in Observer : p # o =>
          (MayPublish(observer[p], x)' <=> MayPublish(observer[p], x))
    BY <1>0, <1>4, OneActs DEF SameWork, MayPublish
  <2>3. /\ MayPublish(u, x)' => MayPublish(u, x)
        /\ shown'[x] # shown[x] =>
             /\ shown'[x] = shown[x] + 1
             /\ MayPublish(u, x) /\ ~MayPublish(u, x)'
    BY <1>4, PublisherAnswered DEF MayPublish
  <2>4. \A p \in Observer : MayPublish(observer[p], x)' => MayPublish(observer[p], x)
    BY <2>2, <2>3
  <2>5. CASE shown'[x] = shown[x]
    BY <2>1, <2>4, <2>5 DEF Publisher
  <2>6. CASE shown'[x] # shown[x]
    <3>1. shown'[x] = shown[x] + 1 /\ MayPublish(u, x) /\ ~MayPublish(u, x)'
      BY <2>3, <2>6
    <3>2. \A p \in Observer : ~MayPublish(observer[p], x)'
      BY <2>2, <3>1 DEF Publisher
    <3>3. shown[x] = 0 /\ x \in events
      BY <1>1, <3>1 DEF Publisher
    <3> QED BY <2>1, <3>1, <3>2, <3>3 DEF Publisher
  <2> QED BY <2>5, <2>6
<1> QED BY <1>2, <1>3, <1>4

(* However many turns observe the Task, by whatever way, an observation    *)
(* that no user is owed is told by one of them at most.                    *)
THEOREM NothingIsPublishedTwice == Spec => []PublishedOnce
<1> DEFINE Inv == HInv /\ \A x \in Observation : Publisher(x)
<1>1. Init => Inv
  BY InitHInv, NotNone DEF Init, Idle, Publisher, MayPublish
<1>2. Inv /\ [Next]_vars => Inv'
  <2> SUFFICES ASSUME Inv, [Next]_vars PROVE Inv'
    OBVIOUS
  <2>1. HInv'
    BY NextHInv
  <2>2. ASSUME NEW x \in Observation PROVE Publisher(x)'
    BY PublisherStep
  <2> QED BY <2>1, <2>2
<1>3. Inv => PublishedOnce
  BY DEF Publisher, PublishedOnce
<1> QED BY <1>1, <1>2, <1>3, PTL DEF Spec
=============================================================================
