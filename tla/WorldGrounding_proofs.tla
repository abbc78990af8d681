------------------------- MODULE WorldGrounding_proofs -------------------------
(***************************************************************************)
(* Proofs about WorldGrounding for any number of turns, attempts, workers, *)
(* outcomes and faults.                                                    *)
(*                                                                         *)
(* A grounding row is written by statements that do not ask for the lease, *)
(* so an attempt whose leases have passed still fails or completes what    *)
(* another attempt works on. What makes the stored answers agree is that   *)
(* the outer claim decides who may store one, and that the attempt that    *)
(* has it either has the row to itself (RowIsMine) or holds a text that    *)
(* the row can no longer contradict (TextHolds).                           *)
(***************************************************************************)
EXTENDS WorldGrounding, TLAPS

Keys == TurnKey \cup Operation

(* The CHECK constraints, and what the repository keeps besides.           *)
RowOK(row) ==
  /\ Guard!Shape(row)
  /\ row.state = "ABSENT" => row.result = None /\ ~row.leased

(* A text stored for, or about to be stored for, a turn agrees with the    *)
(* turn's grounding, which is then final in what the text is about.        *)
TextHolds(row, text) ==
  /\ text \in Answers => row.state = "COMPLETED" /\ row.result = text
  /\ text \in Outcome => row.result = text
  /\ text = "failed" => row.state \in {"FAILED", "CANCELLED"}

Owns(a) == OwnsClaim(KeyOf(a), "hash", a)

Keyed == {"refocus", "context", "outer", "claim", "post", "record", "settle",
          "focus", "apply", "complete", "caught", "finish"}

(* Where an attempt is, it has a turn, or a choice that exists.            *)
KnowsTurn(a) ==
  /\ attempt[a].pc \in Keyed => KeyOf(a) \in TurnKey
  /\ attempt[a].pc = "select" => attempt[a].choice \in 1..Len(choices)

(* Whoever is about to claim the row has the outer claim, unexpired. Who   *)
(* has it and waits for WSGS has the row to itself: it is pending in its   *)
(* name, or was failed by an attempt that was late.                        *)
RowIsMine(a) ==
  LET row == groundings[KeyOf(a)] IN
  /\ attempt[a].pc = "claim" => Owns(a) /\ requests[KeyOf(a)].leased
  /\ attempt[a].pc \in {"post", "record", "caught"} /\ Owns(a) =>
       /\ row.state \in {"GROUNDING_PENDING", "FAILED"} /\ row.result = None
       /\ row.state = "GROUNDING_PENDING" => row.holder = a

(* The result an attempt works with is the one its row holds.              *)
ResultIsStored(a) ==
  LET row == groundings[KeyOf(a)] r == attempt[a].result IN
  /\ attempt[a].pc \in {"post", "record", "settle"} =>
       attempt[a].found = "pending"
  /\ attempt[a].pc = "record" => r \in Outcome
  /\ attempt[a].pc \in {"settle", "focus", "apply", "complete"} =>
       r \in Outcome /\ row.result = r
  /\ attempt[a].pc \in {"apply", "complete"} => r \in Answers
  /\ attempt[a].pc = "complete" => attempt[a].text \in {r, "validated"}
  /\ attempt[a].pc \in {"focus", "apply"} /\ attempt[a].found = "completed" =>
       row.state = "COMPLETED"

(* An attempt that is about to complete the outer request has a text, and  *)
(* where it still may, one that agrees with the row.                       *)
TextIsTrue(a) ==
  attempt[a].pc = "finish" =>
    /\ attempt[a].text \in Text
    /\ Owns(a) => TextHolds(groundings[KeyOf(a)], attempt[a].text)

(* The focus was not of this turn at the revision the attempt has read.    *)
SawAnother(a) ==
  attempt[a].pc = "apply" =>
    /\ attempt[a].seen <= focus.revision
    /\ focus.revision = attempt[a].seen => focus.last # KeyOf(a)

Good(a) ==
  /\ KnowsTurn(a) /\ RowIsMine(a) /\ ResultIsStored(a)
  /\ TextIsTrue(a) /\ SawAnother(a)

Rows ==
  /\ \A k \in TurnKey : WellFormed(requests[k])
  /\ \A k \in Keys : RowOK(groundings[k])
  /\ \A k \in TurnKey : TextHolds(groundings[k], requests[k].result)

IInv ==
  TypeOK /\ Rows /\ FocusHasOrigin /\ \A a \in Attempt : Good(a)

-----------------------------------------------------------------------------
LEMMA Facts ==
  /\ None \notin Turn \cup Attempt \cup Worker \cup Operation \cup TurnKey
  /\ None \notin Text /\ None # "hash"
  /\ Operation \cap TurnKey = {} /\ Attempt \cap Worker = {}
  /\ Outcomes \in [TurnKey -> SUBSET Outcome]
  /\ MaxFaults \in Nat
BY WorldGroundingAssumption DEF WorldGroundingAssumption

(* What a statement of the repository does to a row: nothing that the      *)
(* database looks at, an insertion, or an update that its trigger accepts. *)
SameView(old, new) ==
  /\ new.state = old.state /\ new.context = old.context
  /\ new.result = old.result /\ new.task = old.task
  /\ new.reserved = old.reserved

Legal(old, new) ==
  /\ new \in G!Grounding /\ RowOK(new)
  /\ \/ SameView(old, new) /\ new.leased = old.leased
     \/ old.state = "ABSENT" /\ new.state = "GROUNDING_PENDING"
     \/ /\ old.state \notin G!Terminal \cup {"ABSENT"}
        /\ Guard!OnceRecorded(old, new)
        /\ Guard!Forward(old.state, new.state) \/ SameView(old, new)

LEMMA LegalKeeps ==
  ASSUME NEW old \in G!Grounding, NEW new, RowOK(old), Legal(old, new)
  PROVE  /\ old.result # None => new.result = old.result
         /\ old.state \in G!Terminal => new.state = old.state
         /\ new.state = "GROUNDING_PENDING" =>
              old.state \in {"ABSENT", "GROUNDING_PENDING"}
BY DEF RowOK, Legal, SameView, Guard!OnceRecorded, Guard!Forward,
       Guard!Shape, G!Grounding, G!Terminal, Guard!Terminal

(* One row of the table is written.                                        *)
Wrote(k) ==
  /\ groundings' \in [Keys -> G!Grounding]
  /\ \A j \in Keys \ {k} : groundings'[j] = groundings[j]
  /\ Legal(groundings[k], groundings'[k])

LEMMA RowTyped ==
  ASSUME TypeOK, Rows, NEW k \in Keys
  PROVE  /\ groundings \in [Keys -> G!Grounding]
         /\ groundings[k] \in G!Grounding /\ RowOK(groundings[k])
BY DEF TypeOK, Rows, Keys

LEMMA WriteFacts ==
  ASSUME TypeOK, Rows, NEW k \in Keys, NEW row \in G!Grounding,
         groundings' = [groundings EXCEPT ![k] = row],
         Legal(groundings[k], row)
  PROVE  Wrote(k) /\ groundings'[k] = row
BY RowTyped DEF Wrote

LEMMA Unwritten ==
  ASSUME TypeOK, Rows, NEW k \in Keys, UNCHANGED groundings
  PROVE  Wrote(k)
BY RowTyped DEF Wrote, Legal, SameView

(* The shapes of the rows the statements write.                            *)
LEMMA LeaseLegal ==
  ASSUME NEW old \in G!Grounding, RowOK(old), NEW h \in Attempt \cup Worker,
         old.state \in {"GROUNDING_PENDING", "SDAR_SUBMISSION_RESERVED"}
  PROVE  LET new == [old EXCEPT !.holder = h, !.leased = TRUE]
         IN  Legal(old, new) /\ new \in G!Grounding
               /\ new.holder = h /\ new.leased /\ SameView(old, new)
<1> DEFINE new == [old EXCEPT !.holder = h, !.leased = TRUE]
<1>1. /\ new \in G!Grounding /\ new.holder = h /\ new.leased
      /\ SameView(old, new)
  BY DEF G!Grounding, SameView
<1> HIDE DEF new
<1>2. RowOK(new)
  BY <1>1 DEF RowOK, Guard!Shape, SameView, Guard!Terminal
<1>3. old.state \notin G!Terminal \cup {"ABSENT"}
  BY DEF G!Terminal
<1>4. Guard!OnceRecorded(old, new)
  BY <1>1 DEF Guard!OnceRecorded, SameView
<1>5. Legal(old, new)
  BY <1>1, <1>2, <1>3, <1>4 DEF Legal
<1> QED BY <1>1, <1>5 DEF new

LEMMA UnleaseLegal ==
  ASSUME NEW old \in G!Grounding, RowOK(old),
         NEW h \in Attempt \cup Worker \cup {None}
  PROVE  LET new == [old EXCEPT !.holder = h, !.leased = FALSE]
         IN  Legal(old, new) /\ new \in G!Grounding
               /\ new.holder = h /\ ~new.leased /\ SameView(old, new)
<1> DEFINE new == [old EXCEPT !.holder = h, !.leased = FALSE]
<1>1. /\ new \in G!Grounding /\ new.holder = h /\ new.leased = FALSE
      /\ SameView(old, new)
  BY DEF G!Grounding, SameView
<1> HIDE DEF new
<1>2. RowOK(new)
  BY <1>1 DEF RowOK, Guard!Shape, SameView, Guard!Terminal
<1>3. Guard!OnceRecorded(old, new)
  BY <1>1 DEF Guard!OnceRecorded, SameView
<1>4. CASE old.leased
  <2>1. old.state \notin G!Terminal \cup {"ABSENT"}
    BY <1>4 DEF RowOK, Guard!Shape, Guard!Terminal, G!Terminal
  <2> QED BY <1>1, <1>2, <1>3, <2>1 DEF Legal, new
<1>5. CASE ~old.leased
  <2>1. old.leased = FALSE
    BY <1>5 DEF G!Grounding
  <2> QED BY <1>1, <1>2, <2>1 DEF Legal, new
<1> QED BY <1>1, <1>4, <1>5 DEF new

(* A transition of the state, which ends the lease.                        *)
LEMMA MovedLegal ==
  ASSUME NEW old \in G!Grounding, RowOK(old),
         NEW new \in G!Grounding, RowOK(new),
         old.state \notin G!Terminal \cup {"ABSENT"},
         Guard!Forward(old.state, new.state), Guard!OnceRecorded(old, new)
  PROVE  Legal(old, new)
BY DEF Legal

LEMMA CreatedFacts ==
  ASSUME TypeOK, Rows, NEW k \in Keys, NEW c \in TurnKey \cup {Empty, None},
         NEW o \in Attempt \cup Worker, G!Created(k, c, o)
  PROVE  /\ Wrote(k) /\ groundings'[k].state = "GROUNDING_PENDING"
         /\ groundings'[k].result = None /\ groundings'[k].holder = o
<1> DEFINE new == [G!NoGrounding EXCEPT !.state = "GROUNDING_PENDING",
                     !.context = c, !.holder = o, !.leased = TRUE]
<1>1. /\ new \in G!Grounding /\ new.state = "GROUNDING_PENDING"
      /\ new.result = None /\ new.holder = o /\ new.reserved = FALSE
      /\ new.task = FALSE
  BY DEF G!NoGrounding, G!Grounding
<1>2. groundings' = [groundings EXCEPT ![k] = new]
  BY DEF G!Created, G!Write
<1>3. groundings[k].state = "ABSENT"
  BY DEF G!Created
<1> HIDE DEF new
<1>4. RowOK(new)
  BY <1>1 DEF RowOK, Guard!Shape, Guard!Terminal
<1>5. Legal(groundings[k], new)
  BY <1>1, <1>3, <1>4 DEF Legal
<1> QED BY <1>1, <1>2, <1>5, WriteFacts

LEMMA AcquiredFacts ==
  ASSUME TypeOK, Rows, NEW k \in Keys, NEW c,
         NEW o \in Attempt \cup Worker, G!Acquired(k, c, o)
  PROVE  /\ Wrote(k) /\ groundings'[k].state = "GROUNDING_PENDING"
         /\ groundings'[k].result = None /\ groundings'[k].holder = o
<1> DEFINE new == [groundings[k] EXCEPT !.holder = o, !.leased = TRUE]
<1>1. groundings[k] \in G!Grounding /\ RowOK(groundings[k])
  BY RowTyped
<1>2. groundings[k].state = "GROUNDING_PENDING"
  BY DEF G!Acquired
<1>3. /\ Legal(groundings[k], new) /\ new \in G!Grounding
      /\ new.holder = o /\ SameView(groundings[k], new)
  BY <1>1, <1>2, LeaseLegal
<1>4. groundings' = [groundings EXCEPT ![k] = new]
  BY DEF G!Acquired, G!Write
<1> HIDE DEF new
<1>5. Wrote(k) /\ groundings'[k] = new
  BY <1>3, <1>4, WriteFacts
<1> QED BY <1>1, <1>2, <1>3, <1>5 DEF SameView, RowOK, Guard!Shape

LEMMA RecordFacts ==
  ASSUME TypeOK, Rows, NEW k \in Keys, NEW r \in Outcome,
         NEW o \in Attempt \cup Worker, G!RecordReady(k, r, o)
  PROVE  /\ Wrote(k) /\ groundings'[k].result = r
         /\ groundings' # groundings =>
              groundings[k].state = "GROUNDING_PENDING"
                /\ groundings[k].holder = o
<1>1. groundings[k] \in G!Grounding /\ RowOK(groundings[k])
  BY RowTyped
<1>2. CASE groundings[k].result = r /\ UNCHANGED groundings
  BY <1>2, Unwritten
<1>3. CASE /\ groundings[k].state = "GROUNDING_PENDING" /\ G!Held(k, o)
           /\ G!Write(k, [G!Moved(k, "GROUNDING_READY") EXCEPT !.result = r])
  <2> DEFINE new == [G!Moved(k, "GROUNDING_READY") EXCEPT !.result = r]
  <2>1. groundings[k].reserved = FALSE /\ groundings[k].task = FALSE
    BY <1>1, <1>3 DEF RowOK, Guard!Shape, G!Grounding
  <2>2. /\ new \in G!Grounding /\ new.state = "GROUNDING_READY"
        /\ new.result = r /\ new.context = groundings[k].context
        /\ new.reserved = FALSE /\ new.task = FALSE /\ new.leased = FALSE
    BY <1>1, <2>1 DEF G!Moved, G!Grounding
  <2>3. groundings' = [groundings EXCEPT ![k] = new]
    BY <1>3 DEF G!Write
  <2> HIDE DEF new
  <2>4. r # None /\ groundings[k].result = None
    BY <1>1, <1>3, Facts DEF RowOK, Guard!Shape, Text
  <2>5. RowOK(new)
    BY <2>2, <2>4 DEF RowOK, Guard!Shape, Guard!Terminal
  <2>6. Legal(groundings[k], new)
    <3>1. Guard!Forward(groundings[k].state, new.state)
      BY <1>3, <2>2 DEF Guard!Forward
    <3>2. Guard!OnceRecorded(groundings[k], new)
      BY <2>1, <2>2, <2>4 DEF Guard!OnceRecorded
    <3>3. groundings[k].state \notin G!Terminal \cup {"ABSENT"}
      BY <1>3 DEF G!Terminal
    <3> QED BY <1>1, <2>2, <2>5, <3>1, <3>2, <3>3, MovedLegal
  <2> QED BY <1>3, <2>2, <2>3, <2>6, WriteFacts DEF G!Held
<1> QED BY <1>2, <1>3 DEF G!RecordReady

LEMMA EndFacts ==
  ASSUME TypeOK, Rows, NEW k \in Keys, NEW state \in G!Terminal,
         G!End(k, state)
  PROVE  /\ Wrote(k) /\ groundings'[k].state = state
         /\ groundings'[k].result = groundings[k].result
<1>1. groundings[k] \in G!Grounding /\ RowOK(groundings[k])
  BY RowTyped
<1>2. CASE groundings[k].state = state /\ UNCHANGED groundings
  BY <1>2, Unwritten
<1>3. CASE /\ groundings[k].state # state /\ G!CanEnd(k, state)
           /\ G!Write(k, G!Moved(k, state))
  <2> DEFINE new == G!Moved(k, state)
  <2>1. /\ new \in G!Grounding /\ new.state = state
        /\ new.result = groundings[k].result
        /\ new.context = groundings[k].context /\ new.task = groundings[k].task
        /\ new.reserved = groundings[k].reserved /\ new.leased = FALSE
    BY <1>1 DEF G!Moved, G!Grounding, G!Terminal
  <2>2. groundings' = [groundings EXCEPT ![k] = new]
    BY <1>3 DEF G!Write
  <2> HIDE DEF new
  <2>3. /\ groundings[k].state \notin G!Terminal \cup {"ABSENT"}
        /\ state = "COMPLETED" =>
             groundings[k].state \in {"GROUNDING_READY", "SDAR_SUBMITTED"}
    BY <1>3 DEF G!CanEnd
  <2>4. RowOK(new)
    <3>1. state = "COMPLETED" => new.result # None
      BY <1>1, <2>1, <2>3 DEF RowOK, Guard!Shape
    <3> QED BY <2>1, <3>1 DEF RowOK, Guard!Shape, Guard!Terminal, G!Terminal
  <2>5. Guard!Forward(groundings[k].state, new.state)
    BY <1>1, <2>1, <2>3 DEF Guard!Forward, G!Grounding, G!Terminal, Guard!Terminal
  <2>6. Guard!OnceRecorded(groundings[k], new)
    BY <2>1 DEF Guard!OnceRecorded
  <2>7. Legal(groundings[k], new)
    BY <1>1, <2>1, <2>3, <2>4, <2>5, <2>6, MovedLegal
  <2> QED BY <2>1, <2>2, <2>7, WriteFacts
<1> QED BY <1>2, <1>3 DEF G!End

LEMMA LapseFacts ==
  ASSUME TypeOK, Rows, NEW k \in Keys, G!Lapse(k)
  PROVE  /\ Wrote(k) /\ SameView(groundings[k], groundings'[k])
         /\ groundings'[k].holder = groundings[k].holder
<1> DEFINE h == groundings[k].holder
           new == [groundings[k] EXCEPT !.holder = h, !.leased = FALSE]
<1>1. groundings[k] \in G!Grounding /\ RowOK(groundings[k])
  BY RowTyped
<1>2. h \in Attempt \cup Worker \cup {None}
  BY <1>1 DEF G!Grounding
<1>3. /\ Legal(groundings[k], new) /\ new \in G!Grounding
      /\ new.holder = h /\ SameView(groundings[k], new)
  <2> HIDE DEF h
  <2> QED BY <1>1, <1>2, UnleaseLegal
<1>4. groundings' = [groundings EXCEPT ![k] = new]
  BY <1>1 DEF G!Lapse, G!Write, G!Grounding
<1> HIDE DEF new
<1> QED BY <1>3, <1>4, WriteFacts

-----------------------------------------------------------------------------
(* No step writes a row in a way that the database would refuse.           *)
AllLegal ==
  /\ groundings' \in [Keys -> G!Grounding]
  /\ \A k \in Keys : Legal(groundings[k], groundings'[k])

LEMMA WroteLegal ==
  ASSUME TypeOK, Rows, NEW k \in Keys, Wrote(k)
  PROVE  AllLegal
<1>1. ASSUME NEW j \in Keys PROVE Legal(groundings[j], groundings[j])
  BY RowTyped DEF Legal, SameView
<1> QED BY <1>1 DEF Wrote, AllLegal

LEMMA OperateLegal ==
  ASSUME TypeOK, Rows, NEW w \in Worker, NEW k \in Operation, Operate(w, k)
  PROVE  Wrote(k)
<1>1. k \in Keys /\ w \in Attempt \cup Worker
  BY DEF Keys
<1>2. groundings[k] \in G!Grounding /\ RowOK(groundings[k])
  BY <1>1, RowTyped
<1>3. CASE G!Created(k, Empty, w)
  BY <1>1, <1>3, CreatedFacts
<1>4. CASE G!Acquired(k, Empty, w)
  BY <1>1, <1>4, AcquiredFacts
<1>5. CASE G!RecordReady(k, "COMPLETED", w)
  BY <1>1, <1>5, RecordFacts DEF Outcome
<1>6. CASE G!Reserve(k, w)
  <2> DEFINE new == [groundings[k] EXCEPT
                       !.state = "SDAR_SUBMISSION_RESERVED",
                       !.reserved = TRUE, !.holder = w, !.leased = TRUE]
  <2>1. /\ new \in G!Grounding /\ new.state = "SDAR_SUBMISSION_RESERVED"
        /\ new.reserved = TRUE /\ new.task = groundings[k].task
        /\ new.result = groundings[k].result
        /\ new.context = groundings[k].context
    BY <1>1, <1>2 DEF G!Grounding
  <2>2. groundings' = [groundings EXCEPT ![k] = new]
    BY <1>6 DEF G!Reserve, G!Write
  <2>3. groundings[k].state = "GROUNDING_READY"
    BY <1>6 DEF G!Reserve
  <2> HIDE DEF new
  <2>4. RowOK(new)
    BY <1>2, <2>1, <2>3 DEF RowOK, Guard!Shape, Guard!Terminal
  <2>5. /\ Guard!Forward(groundings[k].state, new.state)
        /\ Guard!OnceRecorded(groundings[k], new)
        /\ groundings[k].state \notin G!Terminal \cup {"ABSENT"}
    BY <2>1, <2>3 DEF Guard!Forward, Guard!OnceRecorded, G!Terminal
  <2>6. Legal(groundings[k], new)
    BY <1>2, <2>1, <2>4, <2>5, MovedLegal
  <2> QED BY <1>1, <2>1, <2>2, <2>6, WriteFacts
<1>7. CASE G!RecordSubmitted(k, w)
  <2> DEFINE new == [G!Moved(k, "SDAR_SUBMITTED") EXCEPT !.task = TRUE]
  <2>1. /\ new \in G!Grounding /\ new.state = "SDAR_SUBMITTED"
        /\ new.reserved = groundings[k].reserved /\ new.task = TRUE
        /\ new.result = groundings[k].result /\ new.leased = FALSE
        /\ new.context = groundings[k].context
    BY <1>1, <1>2 DEF G!Grounding, G!Moved
  <2>2. groundings' = [groundings EXCEPT ![k] = new]
    BY <1>7 DEF G!RecordSubmitted, G!Write
  <2>3. groundings[k].state = "SDAR_SUBMISSION_RESERVED"
    BY <1>7 DEF G!RecordSubmitted
  <2> HIDE DEF new
  <2>4. RowOK(new)
    BY <1>2, <2>1, <2>3 DEF RowOK, Guard!Shape, Guard!Terminal
  <2>5. /\ Guard!Forward(groundings[k].state, new.state)
        /\ Guard!OnceRecorded(groundings[k], new)
        /\ groundings[k].state \notin G!Terminal \cup {"ABSENT"}
    BY <2>1, <2>3 DEF Guard!Forward, Guard!OnceRecorded, G!Terminal
  <2>6. Legal(groundings[k], new)
    BY <1>2, <2>1, <2>4, <2>5, MovedLegal
  <2> QED BY <1>1, <2>1, <2>2, <2>6, WriteFacts
<1>8. CASE G!Recover(k, w)
  <2> DEFINE new == [groundings[k] EXCEPT !.holder = w, !.leased = TRUE]
  <2>1. Legal(groundings[k], new) /\ new \in G!Grounding
    BY <1>1, <1>2, <1>8, LeaseLegal DEF G!Recover
  <2>2. groundings' = [groundings EXCEPT ![k] = new]
    BY <1>8 DEF G!Recover, G!Write
  <2> HIDE DEF new
  <2> QED BY <1>1, <2>1, <2>2, WriteFacts
<1>9. CASE G!Release(k, w)
  <2> DEFINE new == [groundings[k] EXCEPT !.holder = None, !.leased = FALSE]
  <2>1. Legal(groundings[k], new) /\ new \in G!Grounding
    BY <1>1, <1>2, UnleaseLegal
  <2>2. groundings' = [groundings EXCEPT ![k] = new]
    BY <1>9 DEF G!Release, G!Write
  <2> HIDE DEF new
  <2> QED BY <1>1, <2>1, <2>2, WriteFacts
<1>10. ASSUME NEW state \in G!Terminal, G!End(k, state) PROVE Wrote(k)
  BY <1>1, <1>10, EndFacts
<1>11. CASE G!Lapse(k)
  BY <1>1, <1>11, LapseFacts
<1> QED BY <1>3, <1>4, <1>5, <1>6, <1>7, <1>8, <1>9, <1>10, <1>11 DEF Operate

(* The holders of an attempt that is over.                                 *)
LEMMA OverLegal ==
  ASSUME TypeOK, Rows, NEW a \in Attempt, Over(a)
  PROVE  /\ AllLegal
         /\ \A k \in Keys :
              /\ SameView(groundings[k], groundings'[k])
              /\ groundings'[k].holder =
                   IF groundings[k].holder = a THEN None
                   ELSE groundings[k].holder
<1>1. ASSUME NEW k \in Keys
      PROVE  /\ Legal(groundings[k], groundings'[k])
             /\ SameView(groundings[k], groundings'[k])
             /\ groundings'[k].holder =
                  IF groundings[k].holder = a THEN None ELSE groundings[k].holder
  <2>1. groundings[k] \in G!Grounding /\ RowOK(groundings[k])
    BY RowTyped
  <2>2. groundings'[k] = IF groundings[k].holder = a
                         THEN [groundings[k] EXCEPT !.holder = None]
                         ELSE groundings[k]
    BY DEF Over, Keys
  <2>3. /\ groundings'[k] \in G!Grounding
        /\ SameView(groundings[k], groundings'[k])
        /\ groundings'[k].leased = groundings[k].leased
        /\ groundings'[k].holder =
             IF groundings[k].holder = a THEN None ELSE groundings[k].holder
    BY <2>1, <2>2 DEF G!Grounding, SameView
  <2>4. RowOK(groundings'[k])
    BY <2>1, <2>3 DEF RowOK, Guard!Shape, SameView, Guard!Terminal
  <2> QED BY <2>3, <2>4 DEF Legal
<1>2. groundings' = [k \in Keys |-> groundings'[k]]
  BY DEF Over, Keys
<1>3. groundings' \in [Keys -> G!Grounding]
  BY <1>1, <1>2 DEF Legal
<1> QED BY <1>1, <1>3 DEF AllLegal

(* What an attempt at work in the row knows of its key.                    *)
LEMMA KeyFacts ==
  ASSUME IInv, NEW a \in Attempt, attempt[a].pc \in Keyed
  PROVE  /\ KeyOf(a) \in TurnKey /\ KeyOf(a) \in Keys
         /\ TypeOK /\ Rows /\ Good(a) /\ attempt[a] \in AttemptState
         /\ requests[KeyOf(a)] \in Request
         /\ groundings[KeyOf(a)] \in G!Grounding
BY DEF IInv, Good, KnowsTurn, Keys, TypeOK

LEMMA StepLegal ==
  ASSUME IInv, [Next]_vars
  PROVE  AllLegal
<1>0. TypeOK /\ Rows
  BY DEF IInv
<1>1. CASE groundings' = groundings
  <2>1. ASSUME NEW k \in Keys PROVE Legal(groundings[k], groundings'[k])
    BY <1>0, <1>1, RowTyped DEF Legal, SameView
  <2>2. groundings \in [Keys -> G!Grounding]
    BY <1>0 DEF TypeOK, Keys
  <2> QED BY <1>1, <2>1, <2>2 DEF AllLegal
<1>2. ASSUME NEW a \in Attempt, ClaimGrounding(a) PROVE AllLegal
  <2>1. KeyOf(a) \in Keys /\ attempt[a].context \in TurnKey \cup {Empty, None}
    BY <1>2, KeyFacts DEF ClaimGrounding, Keyed, AttemptState
  <2> QED BY <1>0, <1>1, <1>2, <2>1, CreatedFacts, AcquiredFacts, WroteLegal
      DEF ClaimGrounding
<1>3. ASSUME NEW a \in Attempt, Record(a) PROVE AllLegal
  <2>1. KeyOf(a) \in Keys /\ attempt[a].result \in Outcome
    BY <1>3, KeyFacts DEF Record, Keyed, Good, ResultIsStored
  <2> QED BY <1>0, <1>1, <1>3, <2>1, RecordFacts, WroteLegal DEF Record
<1>4. ASSUME NEW a \in Attempt,
             Settle(a) \/ CompleteGrounding(a) \/ Caught(a)
      PROVE  AllLegal
  <2>1. KeyOf(a) \in Keys
    BY <1>4, KeyFacts DEF Settle, CompleteGrounding, Caught, Keyed
  <2>2. ASSUME NEW state \in {"COMPLETED", "FAILED", "CANCELLED"},
               G!End(KeyOf(a), state)
        PROVE  AllLegal
    BY <1>0, <2>1, <2>2, EndFacts, WroteLegal DEF G!Terminal
  <2> QED BY <1>1, <1>4, <2>2 DEF Settle, CompleteGrounding, Caught
<1>5. ASSUME NEW a \in Attempt, Crash(a) \/ Rest(a) PROVE AllLegal
  BY <1>0, <1>5, OverLegal DEF Crash, Rest
<1>6. ASSUME NEW a \in Attempt, Overrun(a) PROVE AllLegal
  <2>1. KeyOf(a) \in Keys
    BY <1>6, KeyFacts DEF Overrun, Keyed
  <2> QED BY <1>0, <1>1, <1>6, <2>1, LapseFacts, WroteLegal DEF Overrun
<1>7. ASSUME NEW k \in TurnKey, Lapse(k) PROVE AllLegal
  <2>1. k \in Keys
    BY DEF Keys
  <2> QED BY <1>0, <1>1, <1>7, <2>1, LapseFacts, WroteLegal DEF Lapse
<1>8. ASSUME NEW w \in Worker, NEW k \in Operation, Operate(w, k)
      PROVE  AllLegal
  <2>1. k \in Keys
    BY DEF Keys
  <2> QED BY <1>0, <1>8, <2>1, OperateLegal, WroteLegal
<1>9. ASSUME NEW a \in Attempt, Step(a) PROVE AllLegal
  <2>1. CASE Select(a) \/ Refocus(a) \/ Context(a) \/ ClaimOuter(a) \/ Post(a)
    BY <1>1, <2>1 DEF Select, Refocus, Context, ClaimOuter, Post
  <2>2. CASE UpdateFocus(a) \/ ApplyReferences(a) \/ Finish(a)
    BY <1>1, <2>2 DEF UpdateFocus, ApplyReferences, Finish
  <2> QED BY <1>2, <1>3, <1>4, <1>9, <2>1, <2>2 DEF Step
<1>10. ASSUME NEW a \in Attempt, NEW t \in Turn, Begin(a, t) PROVE AllLegal
  BY <1>1, <1>10 DEF Begin
<1>11. CASE (\E i \in 1..Len(choices) : ChoiceExpires(i)) \/ FocusAges
              \/ UNCHANGED vars
  BY <1>1, <1>11 DEF ChoiceExpires, FocusAges, vars
<1> QED BY <1>5, <1>6, <1>7, <1>8, <1>9, <1>10, <1>11 DEF Next

-----------------------------------------------------------------------------
(* What legal writes leave true of the rows, the focus and the choices.    *)
LEMMA TextStays ==
  ASSUME NEW old \in G!Grounding, NEW new, RowOK(old), Legal(old, new),
         NEW text \in Text \cup {None}, TextHolds(old, text)
  PROVE  TextHolds(new, text)
<1>1. /\ old.result # None => new.result = old.result
      /\ old.state \in G!Terminal => new.state = old.state
  BY LegalKeeps
<1>2. None \notin Text
  BY Facts
<1> QED BY <1>1, <1>2 DEF TextHolds, G!Terminal, Answers, Outcome, Text

LEMMA RowsStay ==
  ASSUME IInv, AllLegal,
         \A k \in TurnKey : /\ WellFormed(requests'[k])
                            /\ requests'[k].result = requests[k].result
  PROVE  Rows'
<1>1. \A k \in Keys : RowOK(groundings'[k])
  BY DEF AllLegal, Legal
<1>2. ASSUME NEW k \in TurnKey
      PROVE  TextHolds(groundings'[k], requests'[k].result)
  <2>1. k \in Keys /\ TypeOK /\ Rows
    BY DEF Keys, IInv
  <2>2. /\ groundings[k] \in G!Grounding /\ RowOK(groundings[k])
        /\ Legal(groundings[k], groundings'[k])
    BY <2>1, RowTyped DEF AllLegal
  <2>3. /\ requests[k].result \in Text \cup {None}
        /\ TextHolds(groundings[k], requests[k].result)
    BY <2>1 DEF TypeOK, Request, Rows
  <2>4. TextHolds(groundings'[k], requests[k].result)
    BY <2>2, <2>3, TextStays
  <2> QED BY <2>4
<1> QED BY <1>1, <1>2 DEF Rows

LEMMA ResultStays ==
  ASSUME IInv, AllLegal, NEW k \in Keys, groundings[k].result # None
  PROVE  groundings'[k].result = groundings[k].result
<1>1. TypeOK /\ Rows
  BY DEF IInv
<1>2. /\ groundings[k] \in G!Grounding /\ RowOK(groundings[k])
      /\ Legal(groundings[k], groundings'[k])
  BY <1>1, RowTyped DEF AllLegal
<1> QED BY <1>2, LegalKeeps

LEMMA OriginStays ==
  ASSUME IInv, AllLegal,
         focus'.last = focus.last,
         \A i \in 1..Len(choices') :
           \/ i \in 1..Len(choices) /\ choices'[i].origin = choices[i].origin
           \/ /\ choices'[i].origin \in Keys
              /\ groundings'[choices'[i].origin].result = "AMBIGUOUS"
  PROVE  FocusHasOrigin'
<1>1. focus \in Focus /\ choices \in Seq(Choice) /\ FocusHasOrigin
  BY DEF IInv, TypeOK
<1>2. None # "AMBIGUOUS" /\ None \notin Answers
  BY Facts DEF Text, Outcome, Answers
<1>3. focus'.last # None => groundings'[focus'.last].result \in Answers
  <2>1. focus.last # None => focus.last \in Keys
    BY <1>1 DEF Focus, Keys
  <2>2. focus.last # None => groundings[focus.last].result \in Answers
    BY <1>1 DEF FocusHasOrigin
  <2> QED BY <1>2, <2>1, <2>2, ResultStays
<1>4. ASSUME NEW i \in 1..Len(choices')
      PROVE  groundings'[choices'[i].origin].result = "AMBIGUOUS"
  <2>1. CASE i \in 1..Len(choices) /\ choices'[i].origin = choices[i].origin
    <3>1. choices[i] \in Choice
      BY <1>1, <2>1
    <3>2. choices[i].origin \in Keys
      BY <3>1 DEF Choice, Keys
    <3>3. groundings[choices[i].origin].result = "AMBIGUOUS"
      BY <1>1, <2>1 DEF FocusHasOrigin
    <3> QED BY <1>2, <2>1, <3>2, <3>3, ResultStays
  <2> QED BY <2>1
<1> QED BY <1>3, <1>4 DEF FocusHasOrigin

(* What an attempt that does not move still knows.                         *)
OwnRowStays(u) ==
  attempt[u].pc \in {"post", "record", "caught"} /\ Owns(u) =>
    LET row == groundings'[KeyOf(u)] IN
    /\ row.state \in {"GROUNDING_PENDING", "FAILED"} /\ row.result = None
    /\ row.state = "GROUNDING_PENDING" => row.holder = u

OwnClaimStays(u) ==
  /\ OwnsClaim(KeyOf(u), "hash", u)' => Owns(u)
  /\ attempt[u].pc = "claim" => Owns(u)' /\ requests'[KeyOf(u)].leased

LEMMA StaysGood ==
  ASSUME IInv, AllLegal, NEW u \in Attempt, attempt'[u] = attempt[u],
         OwnRowStays(u), attempt[u].pc \in Keyed => OwnClaimStays(u),
         Len(choices') \in Nat, Len(choices') >= Len(choices),
         \/ focus'.revision = focus.revision /\ focus'.last = focus.last
         \/ focus'.revision = focus.revision + 1
  PROVE  Good(u)'
<1>1. /\ Good(u) /\ TypeOK /\ Rows /\ attempt[u] \in AttemptState
      /\ KeyOf(u)' = KeyOf(u)
  BY DEF IInv, TypeOK, KeyOf
<1>2. ASSUME attempt[u].pc \in Keyed
      PROVE  /\ KeyOf(u) \in Keys
             /\ groundings[KeyOf(u)] \in G!Grounding
             /\ RowOK(groundings[KeyOf(u)])
             /\ Legal(groundings[KeyOf(u)], groundings'[KeyOf(u)])
             /\ Owns(u)' => Owns(u)
  BY <1>1, <1>2, KeyFacts, RowTyped DEF AllLegal, OwnClaimStays, Owns
<1>3. KnowsTurn(u)'
  <2>1. Len(choices) \in Nat /\ attempt[u].choice \in Nat
    BY <1>1 DEF TypeOK, AttemptState
  <2>2. attempt[u].pc = "select" => attempt[u].choice \in 1..Len(choices')
    BY <1>1, <2>1 DEF Good, KnowsTurn
  <2> QED BY <1>1, <2>2 DEF Good, KnowsTurn
<1>4. RowIsMine(u)'
  <2>1. attempt[u].pc = "claim" => Owns(u)' /\ requests'[KeyOf(u)].leased
    BY DEF OwnClaimStays, Keyed
  <2>2. attempt[u].pc \in {"post", "record", "caught"} /\ Owns(u)' => Owns(u)
    BY <1>2 DEF Keyed
  <2> QED BY <1>1, <2>1, <2>2 DEF RowIsMine, OwnRowStays
<1>5. ResultIsStored(u)'
  <2>1. None \notin Outcome
    BY Facts DEF Text
  <2>2. attempt[u].pc \in {"settle", "focus", "apply", "complete"} =>
          groundings'[KeyOf(u)].result = attempt[u].result
    BY <1>1, <1>2, <2>1, ResultStays DEF Good, ResultIsStored, Keyed
  <2>3. attempt[u].pc \in {"focus", "apply"} /\ attempt[u].found = "completed"
          => groundings'[KeyOf(u)].state = "COMPLETED"
    BY <1>1, <1>2, LegalKeeps DEF Good, ResultIsStored, Keyed, G!Terminal
  <2> QED BY <1>1, <2>2, <2>3 DEF Good, ResultIsStored
<1>6. TextIsTrue(u)'
  <2>1. ASSUME attempt[u].pc = "finish", Owns(u)'
        PROVE  TextHolds(groundings'[KeyOf(u)], attempt[u].text)
    <3>1. /\ Owns(u) /\ attempt[u].text \in Text \cup {None}
          /\ Legal(groundings[KeyOf(u)], groundings'[KeyOf(u)])
          /\ groundings[KeyOf(u)] \in G!Grounding
          /\ RowOK(groundings[KeyOf(u)])
      BY <1>1, <1>2, <2>1 DEF Keyed, AttemptState
    <3>2. TextHolds(groundings[KeyOf(u)], attempt[u].text)
      BY <1>1, <2>1, <3>1 DEF Good, TextIsTrue
    <3> QED BY <3>1, <3>2, TextStays
  <2> QED BY <1>1, <2>1 DEF Good, TextIsTrue
<1>7. SawAnother(u)'
  <2>1. focus.revision \in Nat /\ attempt[u].seen \in Nat
    BY <1>1 DEF TypeOK, Focus, AttemptState
  <2> QED BY <1>1, <2>1 DEF Good, SawAnother
<1> QED BY <1>3, <1>4, <1>5, <1>6, <1>7 DEF Good

(* Where the requests and the rows are left alone, nobody loses a claim.   *)
LEMMA NothingLost ==
  ASSUME IInv, NEW u \in Attempt, attempt'[u] = attempt[u]
  PROVE  /\ UNCHANGED groundings => OwnRowStays(u)
         /\ UNCHANGED requests /\ attempt[u].pc \in Keyed => OwnClaimStays(u)
<1>1. Good(u) /\ KeyOf(u)' = KeyOf(u)
  BY DEF IInv, KeyOf
<1>2. UNCHANGED groundings => OwnRowStays(u)
  BY <1>1 DEF Good, RowIsMine, OwnRowStays
<1>3. UNCHANGED requests => (Owns(u)' <=> Owns(u))
  BY <1>1 DEF Owns, OwnsClaim
<1>4. UNCHANGED requests => OwnClaimStays(u)
  BY <1>1, <1>3 DEF OwnClaimStays, Owns, Good, RowIsMine
<1> QED BY <1>2, <1>4

-----------------------------------------------------------------------------
(* How one attempt moves.                                                  *)
LEMMA Moves ==
  ASSUME TypeOK, NEW a \in Attempt, NEW v \in AttemptState,
         attempt' = [attempt EXCEPT ![a] = v]
  PROVE  /\ attempt' \in [Attempt -> AttemptState] /\ attempt'[a] = v
         /\ KeyOf(a)' = v.key
         /\ \A u \in Attempt \ {a} : attempt'[u] = attempt[u]
BY DEF TypeOK, KeyOf

PC == {"idle", "select", "refocus", "context", "outer", "claim", "post",
       "record", "settle", "focus", "apply", "complete",
       "caught", "finish", "busy", "thrown"}

LEMMA GoFacts ==
  ASSUME TypeOK, NEW a \in Attempt, NEW pc \in PC, Go(a, pc)
  PROVE  /\ attempt' \in [Attempt -> AttemptState]
         /\ \A u \in Attempt \ {a} : attempt'[u] = attempt[u]
         /\ attempt'[a].pc = pc /\ KeyOf(a)' = KeyOf(a)
         /\ attempt'[a].key = attempt[a].key
         /\ attempt'[a].context = attempt[a].context
         /\ attempt'[a].found = attempt[a].found
         /\ attempt'[a].result = attempt[a].result
         /\ attempt'[a].text = attempt[a].text
         /\ attempt'[a].seen = attempt[a].seen
<1> DEFINE v == [attempt[a] EXCEPT !.pc = pc]
<1>1. attempt[a] \in AttemptState
  BY DEF TypeOK
<1>2. /\ v \in AttemptState /\ v.pc = pc /\ v.key = attempt[a].key
      /\ v.context = attempt[a].context /\ v.found = attempt[a].found
      /\ v.result = attempt[a].result /\ v.text = attempt[a].text
      /\ v.seen = attempt[a].seen
  BY <1>1 DEF AttemptState, PC
<1>3. attempt' = [attempt EXCEPT ![a] = v]
  BY DEF Go
<1> HIDE DEF v
<1> QED BY <1>2, <1>3, Moves DEF KeyOf

(* Before it claims, and after it is over, an attempt knows only its turn. *)
LEMMA EarlyGood ==
  ASSUME NEW a \in Attempt,
         \/ attempt'[a].pc \in {"idle", "busy", "thrown"}
         \/ /\ attempt'[a].pc \in {"refocus", "context", "outer"}
            /\ attempt'[a].key \in TurnKey
         \/ /\ attempt'[a].pc = "select"
            /\ attempt'[a].choice \in 1..Len(choices')
  PROVE  Good(a)'
BY DEF Good, KnowsTurn, RowIsMine, ResultIsStored, TextIsTrue, SawAnother,
       Keyed, KeyOf

LEMMA QuitFacts ==
  ASSUME TypeOK, NEW a \in Attempt, Quit(a)
  PROVE  /\ attempt' \in [Attempt -> AttemptState]
         /\ \A u \in Attempt \ {a} : attempt'[u] = attempt[u]
         /\ Good(a)'
<1>1. IdleAttempt \in AttemptState /\ IdleAttempt.pc = "idle"
  BY DEF IdleAttempt, AttemptState
<1>2. attempt' = [attempt EXCEPT ![a] = IdleAttempt]
  BY DEF Quit
<1>3. /\ attempt' \in [Attempt -> AttemptState] /\ attempt'[a] = IdleAttempt
      /\ \A u \in Attempt \ {a} : attempt'[u] = attempt[u]
  BY <1>1, <1>2, Moves
<1> QED BY <1>1, <1>3, EarlyGood

LEMMA StartFacts ==
  ASSUME TypeOK, NEW a \in Attempt, NEW k \in TurnKey,
         NEW pc \in {"refocus", "context", "outer"}, Start(a, k, pc)
  PROVE  /\ attempt' \in [Attempt -> AttemptState]
         /\ \A u \in Attempt \ {a} : attempt'[u] = attempt[u]
         /\ Good(a)'
<1> DEFINE v == [IdleAttempt EXCEPT !.pc = pc, !.key = k]
<1>1. v \in AttemptState /\ v.pc = pc /\ v.key = k
  BY DEF IdleAttempt, AttemptState
<1>2. attempt' = [attempt EXCEPT ![a] = v]
  BY DEF Start
<1> HIDE DEF v
<1>3. /\ attempt' \in [Attempt -> AttemptState] /\ attempt'[a] = v
      /\ \A u \in Attempt \ {a} : attempt'[u] = attempt[u]
  BY <1>1, <1>2, Moves
<1> QED BY <1>1, <1>3, EarlyGood

LEMMA ReturnFacts ==
  ASSUME TypeOK, NEW a \in Attempt, KeyOf(a) \in TurnKey, NEW r, Return(a, r)
  PROVE  /\ attempt' \in [Attempt -> AttemptState]
         /\ \A u \in Attempt \ {a} : attempt'[u] = attempt[u]
         /\ Good(a)'
<1>1. CASE Quit(a)
  BY <1>1, QuitFacts
<1>2. ASSUME NEW s \in {"resume", "ask"},
             Start(a, <<KeyOf(a)[1], s>>, "context")
      PROVE  /\ attempt' \in [Attempt -> AttemptState]
             /\ \A u \in Attempt \ {a} : attempt'[u] = attempt[u]
             /\ Good(a)'
  <2>1. <<KeyOf(a)[1], s>> \in TurnKey
    BY DEF TurnKey, Stage
  <2> QED BY <1>2, <2>1, StartFacts
<1> QED BY <1>1, <1>2 DEF Return

LEMMA ThrowFacts ==
  ASSUME TypeOK, NEW a \in Attempt, NEW pc \in {"busy", "thrown"}, Go(a, pc)
  PROVE  /\ attempt' \in [Attempt -> AttemptState]
         /\ \A u \in Attempt \ {a} : attempt'[u] = attempt[u]
         /\ Good(a)'
<1>1. pc \in PC
  BY DEF PC
<1> QED BY <1>1, GoFacts, EarlyGood

(* A step of one attempt, by what it changes besides the attempt, WSGS and *)
(* the faults: nothing, the choices, the focus, the row, the request.      *)
Typed ==
  /\ attempt' \in [Attempt -> AttemptState]
  /\ wsgs' \in [TurnKey -> Outcome \cup {None}]
  /\ faults' \in 0..MaxFaults

LEMMA ChoicesIInv ==
  ASSUME IInv, NEW a, Typed, UNCHANGED <<requests, groundings, focus>>,
         \A u \in Attempt \ {a} : attempt'[u] = attempt[u],
         a \in Attempt => Good(a)',
         choices' \in Seq(Choice), Len(choices') >= Len(choices),
         \A i \in 1..Len(choices') :
           \/ i \in 1..Len(choices) /\ choices'[i].origin = choices[i].origin
           \/ /\ choices'[i].origin \in Keys
              /\ groundings[choices'[i].origin].result = "AMBIGUOUS"
  PROVE  IInv'
<1>1. TypeOK /\ Rows
  BY DEF IInv
<1>2. AllLegal
  <2>1. ASSUME NEW k \in Keys PROVE Legal(groundings[k], groundings'[k])
    BY <1>1, RowTyped DEF Legal, SameView
  <2>2. groundings \in [Keys -> G!Grounding]
    BY <1>1 DEF TypeOK, Keys
  <2> QED BY <2>1, <2>2 DEF AllLegal
<1>3. TypeOK'
  BY <1>1 DEF TypeOK, Typed
<1>4. Rows'
  BY <1>1, <1>2, RowsStay DEF Rows
<1>5. FocusHasOrigin'
  BY <1>2, OriginStays
<1>6. ASSUME NEW u \in Attempt \ {a} PROVE Good(u)'
  <2>1. attempt'[u] = attempt[u] /\ u \in Attempt
    OBVIOUS
  <2>2. OwnRowStays(u) /\ (attempt[u].pc \in Keyed => OwnClaimStays(u))
    BY <2>1, NothingLost
  <2>3. Len(choices') \in Nat
    OBVIOUS
  <2> QED BY <1>2, <2>1, <2>2, <2>3, StaysGood
<1> QED BY <1>3, <1>4, <1>5, <1>6 DEF IInv

LEMMA LocalIInv ==
  ASSUME IInv, NEW a, Typed, UNCHANGED <<requests, groundings, focus, choices>>,
         \A u \in Attempt \ {a} : attempt'[u] = attempt[u],
         a \in Attempt => Good(a)'
  PROVE  IInv'
<1>1. choices \in Seq(Choice) /\ Len(choices) \in Nat
  BY DEF IInv, TypeOK
<1> QED BY <1>1, ChoicesIInv

LEMMA FocusIInv ==
  ASSUME IInv, NEW a, Typed, UNCHANGED <<requests, groundings, choices>>,
         \A u \in Attempt \ {a} : attempt'[u] = attempt[u],
         a \in Attempt => Good(a)',
         focus' \in Focus,
         \/ focus'.revision = focus.revision /\ focus'.last = focus.last
         \/ /\ focus'.revision = focus.revision + 1
            /\ groundings[focus'.last].result \in Answers
  PROVE  IInv'
<1>1. TypeOK /\ Rows
  BY DEF IInv
<1>2. AllLegal
  <2>1. ASSUME NEW k \in Keys PROVE Legal(groundings[k], groundings'[k])
    BY <1>1, RowTyped DEF Legal, SameView
  <2>2. groundings \in [Keys -> G!Grounding]
    BY <1>1 DEF TypeOK, Keys
  <2> QED BY <2>1, <2>2 DEF AllLegal
<1>3. TypeOK'
  BY <1>1 DEF TypeOK, Typed
<1>4. Rows'
  BY <1>1, <1>2, RowsStay DEF Rows
<1>5. FocusHasOrigin'
  BY DEF IInv, FocusHasOrigin
<1>6. ASSUME NEW u \in Attempt \ {a} PROVE Good(u)'
  <2>1. attempt'[u] = attempt[u] /\ u \in Attempt
    OBVIOUS
  <2>2. OwnRowStays(u) /\ (attempt[u].pc \in Keyed => OwnClaimStays(u))
    BY <2>1, NothingLost
  <2>3. Len(choices') \in Nat /\ Len(choices') >= Len(choices)
    BY <1>1 DEF TypeOK
  <2> QED BY <1>2, <2>1, <2>2, <2>3, StaysGood
<1> QED BY <1>3, <1>4, <1>5, <1>6 DEF IInv

LEMMA RowIInv ==
  ASSUME IInv, AllLegal, NEW a, Typed, UNCHANGED <<requests, focus, choices>>,
         \A u \in Attempt \ {a} : attempt'[u] = attempt[u] /\ OwnRowStays(u),
         a \in Attempt => Good(a)'
  PROVE  IInv'
<1>1. TypeOK /\ Rows
  BY DEF IInv
<1>2. TypeOK'
  <2>1. groundings' \in [TurnKey \cup Operation -> G!Grounding]
    BY DEF AllLegal, Keys
  <2> QED BY <1>1, <2>1 DEF TypeOK, Typed
<1>3. Rows'
  BY <1>1, RowsStay DEF Rows
<1>4. Len(choices') \in Nat /\ Len(choices') >= Len(choices)
  BY <1>1 DEF TypeOK
<1>5. FocusHasOrigin'
  BY OriginStays
<1>6. ASSUME NEW u \in Attempt \ {a} PROVE Good(u)'
  <2>1. attempt'[u] = attempt[u] /\ u \in Attempt /\ OwnRowStays(u)
    OBVIOUS
  <2>2. attempt[u].pc \in Keyed => OwnClaimStays(u)
    BY <2>1, NothingLost
  <2> QED BY <1>4, <2>1, <2>2, StaysGood
<1> QED BY <1>2, <1>3, <1>5, <1>6 DEF IInv

LEMMA RequestIInv ==
  ASSUME IInv, NEW a, Typed, UNCHANGED <<groundings, focus, choices>>,
         \A u \in Attempt \ {a} :
           attempt'[u] = attempt[u]
             /\ (attempt[u].pc \in Keyed => OwnClaimStays(u)),
         a \in Attempt => Good(a)',
         requests' \in [TurnKey -> Request],
         \A k \in TurnKey :
           /\ WellFormed(requests'[k])
           /\ \/ requests'[k].result = requests[k].result
              \/ TextHolds(groundings[k], requests'[k].result)
  PROVE  IInv'
<1>1. TypeOK /\ Rows
  BY DEF IInv
<1>2. AllLegal
  <2>1. ASSUME NEW k \in Keys PROVE Legal(groundings[k], groundings'[k])
    BY <1>1, RowTyped DEF Legal, SameView
  <2>2. groundings \in [Keys -> G!Grounding]
    BY <1>1 DEF TypeOK, Keys
  <2> QED BY <2>1, <2>2 DEF AllLegal
<1>3. TypeOK'
  BY <1>1 DEF TypeOK, Typed
<1>4. Rows'
  BY <1>1 DEF Rows
<1>5. FocusHasOrigin'
  BY DEF IInv, FocusHasOrigin
<1>6. ASSUME NEW u \in Attempt \ {a} PROVE Good(u)'
  <2>1. /\ attempt'[u] = attempt[u] /\ u \in Attempt
        /\ attempt[u].pc \in Keyed => OwnClaimStays(u)
    OBVIOUS
  <2>2. OwnRowStays(u)
    BY <2>1, NothingLost
  <2>3. Len(choices') \in Nat /\ Len(choices') >= Len(choices)
    BY <1>1 DEF TypeOK
  <2> QED BY <1>2, <2>1, <2>2, <2>3, StaysGood
<1> QED BY <1>3, <1>4, <1>5, <1>6 DEF IInv

-----------------------------------------------------------------------------
(* The steps before the outer claim.                                       *)
LEMMA TypedStays ==
  ASSUME IInv, attempt' \in [Attempt -> AttemptState], UNCHANGED <<wsgs, faults>>
  PROVE  Typed
BY DEF IInv, TypeOK, Typed

LEMMA BeginIInv ==
  ASSUME IInv, NEW a \in Attempt, NEW t \in Turn, Begin(a, t)
  PROVE  IInv'
<1>1. TypeOK /\ UNCHANGED <<requests, groundings, wsgs, focus, choices, faults>>
  BY DEF IInv, Begin
<1>2. ASSUME NEW i \in 1..Len(choices),
             attempt' = [attempt EXCEPT ![a].pc = "select", ![a].choice = i]
      PROVE  IInv'
  <2> DEFINE v == [attempt[a] EXCEPT !.pc = "select", !.choice = i]
  <2>1. /\ v \in AttemptState /\ v.pc = "select" /\ v.choice = i
    <3>1. attempt[a] \in AttemptState /\ i \in Nat
      BY <1>1 DEF TypeOK
    <3> QED BY <3>1 DEF AttemptState
  <2>2. attempt' = [attempt EXCEPT ![a] = v]
    BY <1>2
  <2> HIDE DEF v
  <2>3. /\ attempt' \in [Attempt -> AttemptState] /\ attempt'[a] = v
        /\ \A u \in Attempt \ {a} : attempt'[u] = attempt[u]
    BY <1>1, <2>1, <2>2, Moves
  <2>4. Good(a)'
    BY <1>1, <2>1, <2>3, EarlyGood
  <2> QED BY <1>1, <2>3, <2>4, TypedStays, LocalIInv
<1>3. ASSUME NEW pc \in {"refocus", "context"}, Start(a, <<t, "ask">>, pc)
      PROVE  IInv'
  <2>1. <<t, "ask">> \in TurnKey
    BY DEF TurnKey, Stage
  <2>2. /\ attempt' \in [Attempt -> AttemptState]
        /\ \A u \in Attempt \ {a} : attempt'[u] = attempt[u]
        /\ Good(a)'
    BY <1>1, <1>3, <2>1, StartFacts
  <2> QED BY <1>1, <2>2, TypedStays, LocalIInv
<1> QED BY <1>2, <1>3 DEF Begin

LEMMA SelectIInv ==
  ASSUME IInv, NEW a \in Attempt, Select(a)
  PROVE  IInv'
<1> DEFINE i == attempt[a].choice
<1>1. /\ TypeOK /\ UNCHANGED <<requests, groundings, wsgs, focus, faults>>
      /\ i \in 1..Len(choices) /\ choices \in Seq(Choice)
  BY DEF IInv, Select, Good, KnowsTurn, TypeOK
<1> HIDE DEF i
<1>2. choices[i] \in Choice /\ choices[i].origin \in TurnKey
  <2>1. choices[i] \in Choice
    BY <1>1
  <2> QED BY <2>1 DEF Choice
<1>3. CASE /\ SelectChoice(i)
           /\ IF groundings[choices[i].origin].result = None
              THEN Quit(a)
              ELSE Start(a, <<choices[i].origin[1], "validate">>, "context")
  <2> DEFINE c == [choices[i] EXCEPT !.status = "SELECTED"]
  <2>1. c \in Choice /\ c.origin = choices[i].origin
    BY <1>2 DEF Choice
  <2>2. choices' = [choices EXCEPT ![i] = c]
    BY <1>3 DEF SelectChoice
  <2> HIDE DEF c
  <2>3. /\ choices' \in Seq(Choice) /\ Len(choices') = Len(choices)
        /\ \A j \in 1..Len(choices) : choices'[j].origin = choices[j].origin
    BY <1>1, <2>1, <2>2
  <2>4. /\ attempt' \in [Attempt -> AttemptState]
        /\ \A u \in Attempt \ {a} : attempt'[u] = attempt[u]
        /\ Good(a)'
    <3>1. CASE Quit(a)
      BY <1>1, <3>1, QuitFacts
    <3>2. CASE Start(a, <<choices[i].origin[1], "validate">>, "context")
      <4>1. <<choices[i].origin[1], "validate">> \in TurnKey
        BY <1>2 DEF TurnKey, Stage
      <4> QED BY <1>1, <3>2, <4>1, StartFacts
    <3> QED BY <1>3, <3>1, <3>2
  <2>5. Len(choices') >= Len(choices)
    BY <1>1, <2>3
  <2> QED BY <1>1, <2>3, <2>4, <2>5, TypedStays, ChoicesIInv
<1>4. CASE Throw(a) /\ UNCHANGED choices
  BY <1>1, <1>4, ThrowFacts, TypedStays, LocalIInv DEF Throw
<1> QED BY <1>3, <1>4 DEF Select, i

LEMMA RefocusIInv ==
  ASSUME IInv, NEW a \in Attempt, Refocus(a)
  PROVE  IInv'
<1>1. /\ TypeOK /\ UNCHANGED <<requests, groundings, wsgs, focus, choices, faults>>
      /\ KeyOf(a) \in TurnKey
  BY KeyFacts DEF IInv, Refocus, Keyed
<1>2. CASE Start(a, <<KeyOf(a)[1], "revalidate">>, "context")
  <2>1. <<KeyOf(a)[1], "revalidate">> \in TurnKey
    BY <1>1 DEF TurnKey, Stage
  <2> QED BY <1>1, <1>2, <2>1, StartFacts, TypedStays, LocalIInv
<1>3. CASE Go(a, "context")
  <2>1. /\ attempt' \in [Attempt -> AttemptState]
        /\ \A u \in Attempt \ {a} : attempt'[u] = attempt[u]
        /\ attempt'[a].pc = "context" /\ attempt'[a].key \in TurnKey
    BY <1>1, <1>3, GoFacts DEF PC, KeyOf
  <2> QED BY <1>1, <2>1, EarlyGood, TypedStays, LocalIInv
<1> QED BY <1>2, <1>3 DEF Refocus

LEMMA ContextIInv ==
  ASSUME IInv, NEW a \in Attempt, Context(a)
  PROVE  IInv'
<1>1. /\ TypeOK /\ UNCHANGED <<requests, groundings, wsgs, focus, choices, faults>>
      /\ KeyOf(a) \in TurnKey /\ attempt[a] \in AttemptState
  BY KeyFacts DEF IInv, Context, Keyed
<1>2. CASE Quit(a)
  BY <1>1, <1>2, QuitFacts, TypedStays, LocalIInv
<1>3. CASE attempt' = [attempt EXCEPT ![a].pc = "outer",
                                      ![a].context = Assembled(KeyOf(a))]
  <2> DEFINE c == Assembled(KeyOf(a))
             v == [attempt[a] EXCEPT !.pc = "outer", !.context = c]
  <2>1. c \in TurnKey \cup {Empty, None}
    BY <1>1 DEF Assembled, TypeOK, Focus
  <2> HIDE DEF c
  <2>2. v \in AttemptState /\ v.pc = "outer" /\ v.key = KeyOf(a)
    BY <1>1, <2>1 DEF AttemptState, KeyOf
  <2>3. attempt' = [attempt EXCEPT ![a] = v]
    BY <1>3 DEF c
  <2> HIDE DEF v
  <2>4. /\ attempt' \in [Attempt -> AttemptState] /\ attempt'[a] = v
        /\ \A u \in Attempt \ {a} : attempt'[u] = attempt[u]
    BY <1>1, <2>2, <2>3, Moves
  <2> QED BY <1>1, <2>2, <2>4, EarlyGood, TypedStays, LocalIInv
<1> QED BY <1>2, <1>3 DEF Context

-----------------------------------------------------------------------------
(* The outer claim. It is taken from nobody who is about to claim the row. *)
LEMMA ClaimOuterIInv ==
  ASSUME IInv, NEW a \in Attempt, ClaimOuter(a)
  PROVE  IInv'
<1> DEFINE k == KeyOf(a)
<1>1. /\ TypeOK /\ Rows /\ UNCHANGED <<groundings, wsgs, focus, choices, faults>>
      /\ k \in TurnKey /\ attempt[a] \in AttemptState
      /\ requests[k] \in Request /\ WellFormed(requests[k])
  BY KeyFacts DEF IInv, ClaimOuter, Keyed, Rows
<1>2. ASSUME NEW r, Return(a, r), UNCHANGED requests
      PROVE  IInv'
  BY <1>1, <1>2, ReturnFacts, TypedStays, LocalIInv
<1>3. CASE /\ InsertClaim(k, "hash", a) \/ TakeOver(k, "hash", a)
           /\ Go(a, "claim")
  <2> DEFINE row == IF requests[k].status = "ABSENT" THEN Claimed("hash", a)
                    ELSE [requests[k] EXCEPT !.owner = a, !.leased = TRUE]
  <2>1. /\ row \in Request /\ row.status = "CLAIMED" /\ row.hash = "hash"
        /\ row.owner = a /\ row.leased = TRUE
        /\ row.result = requests[k].result /\ WellFormed(row)
        /\ requests[k].status = "ABSENT"
             \/ (requests[k].status = "CLAIMED" /\ ~requests[k].leased)
    BY <1>1, <1>3, Facts
    DEF InsertClaim, TakeOver, Expired, Claimed, Request, RequestStatus,
        WellFormed
  <2>2. requests' = [requests EXCEPT ![k] = row]
    BY <1>1, <1>3, <2>1 DEF InsertClaim, TakeOver, Expired, TypeOK
  <2> HIDE DEF row
  <2>3. /\ requests' \in [TurnKey -> Request] /\ requests'[k] = row
        /\ \A j \in TurnKey \ {k} : requests'[j] = requests[j]
    BY <1>1, <2>1, <2>2 DEF TypeOK
  <2>4. /\ attempt' \in [Attempt -> AttemptState] /\ KeyOf(a)' = k
        /\ \A u \in Attempt \ {a} : attempt'[u] = attempt[u]
        /\ attempt'[a].pc = "claim"
    BY <1>1, <1>3, GoFacts DEF PC
  <2>5. Good(a)'
    <3>1. RowIsMine(a)'
      BY <2>1, <2>3, <2>4 DEF RowIsMine, Owns, OwnsClaim
    <3> QED BY <1>1, <2>4, <3>1
        DEF Good, KnowsTurn, ResultIsStored, TextIsTrue, SawAnother
  <2>6. ASSUME NEW u \in Attempt \ {a}, attempt[u].pc \in Keyed
        PROVE  OwnClaimStays(u)
    <3>1. KeyOf(u) \in TurnKey /\ KeyOf(u)' = KeyOf(u) /\ RowIsMine(u)
      BY <2>4, <2>6, KeyFacts DEF KeyOf, Good
    <3>2. CASE KeyOf(u) = k
      BY <2>1, <2>3, <3>1, <3>2
      DEF OwnClaimStays, RowIsMine, Owns, OwnsClaim
    <3>3. CASE KeyOf(u) # k
      <4>1. requests'[KeyOf(u)] = requests[KeyOf(u)]
        BY <2>3, <3>1, <3>3
      <4> QED BY <3>1, <4>1 DEF OwnClaimStays, RowIsMine, Owns, OwnsClaim
    <3> QED BY <3>2, <3>3
  <2>7. \A j \in TurnKey :
          WellFormed(requests'[j]) /\ requests'[j].result = requests[j].result
    BY <1>1, <2>1, <2>3 DEF Rows
  <2> QED BY <1>1, <2>3, <2>4, <2>5, <2>6, <2>7, TypedStays, RequestIInv
<1> QED BY <1>2, <1>3 DEF ClaimOuter

-----------------------------------------------------------------------------
(* The row is claimed, asked for and recorded.                             *)

(* A write to its row by an attempt that has the outer claim is no loss to *)
(* another attempt; nor is one to another row.                             *)
LEMMA OthersRowStays ==
  ASSUME IInv, NEW k \in Keys, Wrote(k), NEW u \in Attempt,
         KeyOf(u) = k /\ Owns(u) /\ attempt[u].pc \in {"post", "record", "caught"}
           => groundings'[k] = groundings[k]
              \/ (groundings'[k].state = "FAILED" /\ groundings'[k].result = None)
  PROVE  OwnRowStays(u)
<1> SUFFICES ASSUME attempt[u].pc \in {"post", "record", "caught"}, Owns(u)
             PROVE  OwnRowStays(u)
  BY DEF OwnRowStays
<1>1. KeyOf(u) \in Keys /\ RowIsMine(u)
  BY KeyFacts DEF Keyed, Good
<1>2. CASE KeyOf(u) # k
  <2>1. groundings'[KeyOf(u)] = groundings[KeyOf(u)]
    BY <1>1, <1>2 DEF Wrote
  <2> QED BY <1>1, <2>1 DEF OwnRowStays, RowIsMine
<1>3. CASE KeyOf(u) = k
  BY <1>1, <1>3 DEF OwnRowStays, RowIsMine
<1> QED BY <1>2, <1>3

LEMMA OneOwner ==
  ASSUME NEW a \in Attempt, NEW u \in Attempt, KeyOf(u) = KeyOf(a),
         Owns(a), Owns(u)
  PROVE  u = a
BY DEF Owns, OwnsClaim

LEMMA ClaimGroundingIInv ==
  ASSUME IInv, NEW a \in Attempt, ClaimGrounding(a)
  PROVE  IInv'
<1> DEFINE k == KeyOf(a)
           c == attempt[a].context
<1>1. /\ TypeOK /\ Rows /\ UNCHANGED <<requests, wsgs, focus, choices, faults>>
      /\ k \in TurnKey /\ k \in Keys /\ attempt[a] \in AttemptState
      /\ groundings[k] \in G!Grounding /\ RowOK(groundings[k])
      /\ Owns(a) /\ Good(a)
  BY KeyFacts, RowTyped DEF IInv, ClaimGrounding, Keyed, Good, RowIsMine
<1>2. CASE /\ G!Created(k, c, a) \/ G!Acquired(k, c, a)
           /\ attempt' = [attempt EXCEPT ![a].pc = "post",
                                         ![a].found = "pending"]
  <2> DEFINE v == [attempt[a] EXCEPT !.pc = "post", !.found = "pending"]
  <2>1. /\ Wrote(k) /\ groundings'[k].state = "GROUNDING_PENDING"
        /\ groundings'[k].result = None /\ groundings'[k].holder = a
    <3>1. c \in TurnKey \cup {Empty, None}
      BY <1>1 DEF AttemptState
    <3> QED BY <1>1, <1>2, <3>1, CreatedFacts, AcquiredFacts
  <2>2. /\ v \in AttemptState /\ v.pc = "post" /\ v.key = k
        /\ v.found = "pending"
    BY <1>1 DEF AttemptState, KeyOf
  <2>3. attempt' = [attempt EXCEPT ![a] = v]
    BY <1>2
  <2> HIDE DEF v
  <2>4. /\ attempt' \in [Attempt -> AttemptState] /\ attempt'[a] = v
        /\ KeyOf(a)' = k
        /\ \A u \in Attempt \ {a} : attempt'[u] = attempt[u]
    BY <1>1, <2>2, <2>3, Moves
  <2>5. Good(a)'
    <3>1. RowIsMine(a)'
      BY <2>1, <2>2, <2>4 DEF RowIsMine
    <3> QED BY <1>1, <2>2, <2>4, <3>1
        DEF Good, KnowsTurn, ResultIsStored, TextIsTrue, SawAnother
  <2>6. ASSUME NEW u \in Attempt \ {a} PROVE OwnRowStays(u)
    BY <1>1, <2>1, OneOwner, OthersRowStays
  <2> QED BY <1>1, <2>1, <2>4, <2>5, <2>6, WroteLegal, TypedStays, RowIInv
<1>3. ASSUME NEW pc \in {"busy", "thrown"}, Go(a, pc), UNCHANGED groundings
      PROVE  IInv'
  BY <1>1, <1>3, ThrowFacts, TypedStays, LocalIInv
<1>4. CASE /\ G!Replayed(k, c) /\ UNCHANGED groundings
           /\ attempt' = FoundBeyond(a, groundings[k])
  <2> DEFINE row == groundings[k]
             pc == IF row.result = None THEN "finish" ELSE "focus"
             found == IF row.state = "COMPLETED" THEN "completed" ELSE "beyond"
             text == IF row.result = None THEN "failed" ELSE None
             v == [attempt[a] EXCEPT !.pc = pc, !.found = found,
                     !.result = row.result, !.text = text]
  <2>1. row.result \in Outcome \cup {None} /\ text \in Text \cup {None}
    BY <1>1 DEF G!Grounding, Text
  <2>2. /\ v \in AttemptState /\ v.pc = pc /\ v.key = k /\ v.found = found
        /\ v.result = row.result /\ v.text = text
    <3>1. /\ pc \in {"finish", "focus"} /\ found \in {"completed", "beyond"}
          /\ row.result \in Outcome \cup {None}
      BY <2>1
    <3> HIDE DEF row, text, pc, found
    <3> QED BY ZenonT(60), <1>1, <2>1, <3>1 DEF AttemptState, KeyOf
  <2>3. attempt' = [attempt EXCEPT ![a] = v]
    <3> HIDE DEF row
    <3> QED BY <1>4, Zenon DEF FoundBeyond, row
  <2> HIDE DEF v
  <2>4. /\ attempt' \in [Attempt -> AttemptState] /\ attempt'[a] = v
        /\ KeyOf(a)' = k
        /\ \A u \in Attempt \ {a} : attempt'[u] = attempt[u]
    BY <1>1, <2>2, <2>3, Moves
  <2>5. row.result = None => row.state \in {"FAILED", "CANCELLED"}
    BY <1>1, <1>4 DEF G!Replayed, G!BeyondPending, RowOK, Guard!Shape,
                      G!Grounding, G!Terminal
  <2>6. Good(a)'
    <3>1. KnowsTurn(a)' /\ RowIsMine(a)' /\ SawAnother(a)'
      BY <1>1, <2>2, <2>4 DEF KnowsTurn, RowIsMine, SawAnother
    <3>2. ResultIsStored(a)'
      BY <1>4, <2>1, <2>2, <2>4 DEF ResultIsStored
    <3>3. TextIsTrue(a)'
      <4>1. attempt'[a].pc = "finish" => attempt'[a].text = "failed"
        BY <2>2, <2>4
      <4>2. attempt'[a].pc = "finish" => row.state \in {"FAILED", "CANCELLED"}
        BY <2>2, <2>4, <2>5
      <4> QED BY <1>4, <2>4, <4>1, <4>2
          DEF TextIsTrue, TextHolds, Text, Answers, Outcome
    <3> QED BY <3>1, <3>2, <3>3 DEF Good
  <2> QED BY <1>1, <1>4, <2>4, <2>6, TypedStays, LocalIInv
<1> QED BY <1>2, <1>3, <1>4 DEF ClaimGrounding, Throw
LEMMA FaultTyped ==
  ASSUME TypeOK, Fault
  PROVE  faults' \in 0..MaxFaults
BY Facts DEF TypeOK, Fault

LEMMA PostIInv ==
  ASSUME IInv, NEW a \in Attempt, Post(a)
  PROVE  IInv'
<1> DEFINE k == KeyOf(a)
<1>1. /\ TypeOK /\ UNCHANGED <<requests, groundings, focus, choices>>
      /\ k \in TurnKey /\ k \in Keys /\ attempt[a] \in AttemptState /\ Good(a)
      /\ attempt[a].pc = "post"
  BY KeyFacts DEF IInv, Post, Keyed
<1>2. wsgs' \in [TurnKey -> Outcome \cup {None}] /\ Outcomes[k] \subseteq Outcome
  <2>1. Outcomes[k] \subseteq Outcome
    BY <1>1, Facts
  <2>2. wsgs \in [TurnKey -> Outcome \cup {None}]
    BY <1>1 DEF TypeOK
  <2> QED BY <1>1, <2>1, <2>2 DEF Post, Answered
<1>3. CASE CallFails(a)
  <2>1. faults' \in 0..MaxFaults
    BY <1>1, <1>3, FaultTyped DEF CallFails
  <2>2. /\ attempt' \in [Attempt -> AttemptState] /\ KeyOf(a)' = k
        /\ \A u \in Attempt \ {a} : attempt'[u] = attempt[u]
        /\ attempt'[a].pc = "caught"
    BY <1>1, <1>3, GoFacts DEF CallFails, PC
  <2>3. Good(a)'
    <3>1. RowIsMine(a)'
      BY <1>1, <2>2 DEF Good, RowIsMine, Owns, OwnsClaim
    <3> QED BY <1>1, <2>2, <3>1
        DEF Good, KnowsTurn, ResultIsStored, TextIsTrue, SawAnother
  <2> QED BY <1>1, <1>2, <2>1, <2>2, <2>3, LocalIInv DEF Typed
<1>4. ASSUME NEW r \in Outcomes[k], UNCHANGED faults,
             attempt' = [attempt EXCEPT ![a].pc = "record", ![a].result = r]
      PROVE  IInv'
  <2> DEFINE v == [attempt[a] EXCEPT !.pc = "record", !.result = r]
  <2>1. /\ v \in AttemptState /\ v.pc = "record" /\ v.key = k
        /\ v.result = r /\ r \in Outcome /\ v.found = attempt[a].found
    BY <1>1, <1>2 DEF AttemptState, KeyOf
  <2>2. attempt' = [attempt EXCEPT ![a] = v]
    BY <1>4
  <2> HIDE DEF v
  <2>3. /\ attempt' \in [Attempt -> AttemptState] /\ attempt'[a] = v
        /\ KeyOf(a)' = k
        /\ \A u \in Attempt \ {a} : attempt'[u] = attempt[u]
    BY <1>1, <2>1, <2>2, Moves
  <2>4. Good(a)'
    <3>1. RowIsMine(a)'
      BY <1>1, <2>1, <2>3 DEF Good, RowIsMine, Owns, OwnsClaim
    <3>2. ResultIsStored(a)'
      BY <1>1, <2>1, <2>3 DEF Good, ResultIsStored
    <3> QED BY <1>1, <2>1, <2>3, <3>1, <3>2
        DEF Good, KnowsTurn, TextIsTrue, SawAnother
  <2>5. Typed
    BY <1>1, <1>2, <1>4, <2>3 DEF Typed, TypeOK
  <2> QED BY <1>1, <2>3, <2>4, <2>5, LocalIInv
<1> QED BY <1>3, <1>4 DEF Post

(* Only who holds the row's lease records its result, and that is the      *)
(* attempt that has the outer claim, if one has it.                        *)
LEMMA RecordIInv ==
  ASSUME IInv, NEW a \in Attempt, Record(a)
  PROVE  IInv'
<1> DEFINE k == KeyOf(a)
           r == attempt[a].result
<1>1. /\ TypeOK /\ Rows /\ UNCHANGED <<requests, wsgs, focus, choices, faults>>
      /\ k \in TurnKey /\ k \in Keys /\ attempt[a].pc = "record" /\ Good(a)
      /\ r \in Outcome
  BY KeyFacts DEF IInv, Record, Keyed, Good, ResultIsStored
<1>2. CASE G!RecordReady(k, r, a) /\ Go(a, "settle")
  <2>1. /\ Wrote(k) /\ groundings'[k].result = r
        /\ groundings' # groundings =>
             groundings[k].state = "GROUNDING_PENDING"
               /\ groundings[k].holder = a
    BY <1>1, <1>2, RecordFacts
  <2>2. /\ attempt' \in [Attempt -> AttemptState] /\ KeyOf(a)' = k
        /\ \A u \in Attempt \ {a} : attempt'[u] = attempt[u]
        /\ attempt'[a].pc = "settle" /\ attempt'[a].result = r
        /\ attempt'[a].found = attempt[a].found
    BY <1>1, <1>2, GoFacts DEF PC
  <2>3. Good(a)'
    <3>1. ResultIsStored(a)'
      BY <1>1, <2>1, <2>2 DEF Good, ResultIsStored
    <3> QED BY <1>1, <2>2, <3>1
        DEF Good, KnowsTurn, RowIsMine, TextIsTrue, SawAnother
  <2>4. ASSUME NEW u \in Attempt \ {a} PROVE OwnRowStays(u)
    <3>1. ASSUME KeyOf(u) = k, Owns(u),
                 attempt[u].pc \in {"post", "record", "caught"}
          PROVE  groundings'[k] = groundings[k]
      <4>1. RowIsMine(u)
        BY DEF IInv, Good
      <4> QED BY <2>1, <3>1, <4>1 DEF RowIsMine
    <3> QED BY <1>1, <2>1, <3>1, OthersRowStays
  <2> QED BY <1>1, <2>1, <2>2, <2>3, <2>4, WroteLegal, TypedStays, RowIInv
<1>3. CASE Throw(a) /\ UNCHANGED groundings
  BY <1>1, <1>3, ThrowFacts, TypedStays, LocalIInv DEF Throw
<1> QED BY <1>2, <1>3 DEF Record

(* A row with a result is of nobody who still waits for one.               *)
LEMMA NobodyWaits ==
  ASSUME IInv, NEW k \in Keys, Wrote(k), groundings[k].result # None,
         NEW u \in Attempt
  PROVE  OwnRowStays(u)
<1>1. RowIsMine(u)
  BY DEF IInv, Good
<1>2. ~(KeyOf(u) = k /\ Owns(u)
          /\ attempt[u].pc \in {"post", "record", "caught"})
  BY <1>1 DEF RowIsMine
<1> QED BY <1>2, OthersRowStays

LEMMA SettleIInv ==
  ASSUME IInv, NEW a \in Attempt, Settle(a)
  PROVE  IInv'
<1> DEFINE k == KeyOf(a)
           r == attempt[a].result
           end == IF r = "CANCELLED" THEN "CANCELLED" ELSE "FAILED"
<1>1. /\ TypeOK /\ Rows /\ UNCHANGED <<requests, wsgs, focus, choices, faults>>
      /\ k \in TurnKey /\ k \in Keys /\ attempt[a].pc = "settle" /\ Good(a)
      /\ r \in Outcome /\ groundings[k].result = r
  BY KeyFacts DEF IInv, Settle, Keyed, Good, ResultIsStored
<1>2. ASSUME Go(a, "focus"), Wrote(k), groundings'[k].result = r
      PROVE  IInv'
  <2>1. /\ attempt' \in [Attempt -> AttemptState] /\ KeyOf(a)' = k
        /\ \A u \in Attempt \ {a} : attempt'[u] = attempt[u]
        /\ attempt'[a].pc = "focus" /\ attempt'[a].result = r
        /\ attempt'[a].found = attempt[a].found
    BY <1>1, <1>2, GoFacts DEF PC
  <2>2. Good(a)'
    <3>1. ResultIsStored(a)'
      BY <1>1, <1>2, <2>1 DEF Good, ResultIsStored
    <3> QED BY <1>1, <2>1, <3>1
        DEF Good, KnowsTurn, RowIsMine, TextIsTrue, SawAnother
  <2>3. ASSUME NEW u \in Attempt \ {a} PROVE OwnRowStays(u)
    <3>1. None \notin Outcome
      BY Facts DEF Text
    <3> QED BY <1>1, <1>2, <3>1, NobodyWaits
  <2> QED BY <1>1, <1>2, <2>1, <2>2, <2>3, WroteLegal, TypedStays, RowIInv
<1>3. CASE Go(a, "focus") /\ UNCHANGED groundings
  BY <1>1, <1>2, <1>3, Unwritten
<1>4. CASE G!End(k, end) /\ Go(a, "focus")
  <2>1. end \in G!Terminal
    BY DEF G!Terminal
  <2> HIDE DEF end
  <2> QED BY <1>1, <1>2, <1>4, <2>1, EndFacts
<1>5. CASE Throw(a) /\ UNCHANGED groundings
  BY <1>1, <1>5, ThrowFacts, TypedStays, LocalIInv DEF Throw
<1> QED BY <1>3, <1>4, <1>5 DEF Settle
-----------------------------------------------------------------------------
(* The focus is updated, and the grounding ended.                          *)
LEMMA RenderFacts ==
  ASSUME IInv, NEW a \in Attempt, attempt[a].pc \in {"focus", "apply"},
         Render(a), UNCHANGED groundings
  PROVE  /\ attempt' \in [Attempt -> AttemptState]
         /\ \A u \in Attempt \ {a} : attempt'[u] = attempt[u]
         /\ Good(a)'
<1> DEFINE k == KeyOf(a)
           r == attempt[a].result
           text == IF k[2] \in {"validate", "revalidate"} THEN "validated" ELSE r
           pc == IF Owed(a) THEN "complete" ELSE "finish"
           v == [attempt[a] EXCEPT !.text = text, !.pc = pc]
<1>1. /\ TypeOK /\ k \in TurnKey /\ attempt[a] \in AttemptState /\ Good(a)
      /\ r \in Outcome /\ groundings[k].result = r
  BY KeyFacts DEF Keyed, Good, ResultIsStored
<1>2. text \in {r, "validated"} /\ text \in Text /\ pc \in {"complete", "finish"}
  BY <1>1 DEF Text
<1>3. /\ pc = "complete" => r \in Answers
      /\ pc = "finish" /\ r \in Answers => groundings[k].state = "COMPLETED"
  <2>1. pc = "finish" /\ r \in Answers => attempt[a].found = "completed"
    BY DEF Owed
  <2> QED BY <1>1, <2>1 DEF Owed, Good, ResultIsStored
<1>4. attempt' = [attempt EXCEPT ![a] = v]
  BY DEF Render
<1> HIDE DEF text, pc
<1>5. /\ v \in AttemptState /\ v.pc = pc /\ v.key = k /\ v.text = text
      /\ v.result = r
  BY <1>1, <1>2 DEF AttemptState, KeyOf
<1> HIDE DEF v
<1>6. /\ attempt' \in [Attempt -> AttemptState] /\ attempt'[a] = v
      /\ KeyOf(a)' = k
      /\ \A u \in Attempt \ {a} : attempt'[u] = attempt[u]
  BY <1>1, <1>4, <1>5, Moves
<1>7. ResultIsStored(a)'
  BY <1>1, <1>2, <1>3, <1>5, <1>6 DEF ResultIsStored
<1>8. pc = "finish" => TextHolds(groundings[k], text)
  BY <1>1, <1>2, <1>3 DEF TextHolds, Answers, Outcome
<1>9. TextIsTrue(a)'
  BY <1>2, <1>5, <1>6, <1>8 DEF TextIsTrue
<1> QED BY <1>1, <1>2, <1>5, <1>6, <1>7, <1>9
    DEF Good, KnowsTurn, RowIsMine, SawAnother

LEMMA UpdateFocusIInv ==
  ASSUME IInv, NEW a \in Attempt, UpdateFocus(a)
  PROVE  IInv'
<1> DEFINE k == KeyOf(a)
           r == attempt[a].result
<1>1. /\ TypeOK /\ UNCHANGED <<requests, groundings, wsgs, focus, faults>>
      /\ k \in TurnKey /\ k \in Keys /\ attempt[a].pc = "focus" /\ Good(a)
      /\ r \in Outcome /\ groundings[k].result = r
      /\ attempt[a] \in AttemptState
  BY KeyFacts DEF IInv, UpdateFocus, Keyed, Good, ResultIsStored
<1>2. CASE Render(a) /\ UNCHANGED choices
  BY <1>1, <1>2, RenderFacts, TypedStays, LocalIInv
<1>3. CASE r = "AMBIGUOUS" /\ CreateChoice(a)
  <2>1. CASE /\ choices' = Append(choices, [origin |-> k, status |-> "OPEN",
                                            expired |-> FALSE])
             /\ Render(a)
    <3> DEFINE c == [origin |-> k, status |-> "OPEN", expired |-> FALSE]
    <3>1. c \in Choice /\ c.origin = k
      BY <1>1 DEF Choice
    <3>2. choices' = Append(choices, c) /\ choices \in Seq(Choice)
      BY <1>1, <2>1 DEF TypeOK
    <3> HIDE DEF c
    <3>3. /\ choices' \in Seq(Choice) /\ Len(choices') = Len(choices) + 1
          /\ choices'[Len(choices) + 1] = c
          /\ \A i \in 1..Len(choices) : choices'[i] = choices[i]
      BY <3>1, <3>2
    <3>4. Len(choices) \in Nat
      BY <3>2
    <3>5. ASSUME NEW i \in 1..Len(choices')
          PROVE  \/ i \in 1..Len(choices) /\ choices'[i].origin = choices[i].origin
                 \/ /\ choices'[i].origin \in Keys
                    /\ groundings[choices'[i].origin].result = "AMBIGUOUS"
      <4>1. i \in 1..Len(choices) \/ i = Len(choices) + 1
        BY <3>3, <3>4
      <4> QED BY <1>1, <1>3, <3>1, <3>3, <4>1
    <3>6. Len(choices') >= Len(choices)
      BY <3>3, <3>4
    <3> HIDE DEF k
    <3> QED BY <1>1, <2>1, <3>3, <3>5, <3>6, RenderFacts, TypedStays, ChoicesIInv
  <2>2. CASE Throw(a) /\ UNCHANGED choices
    BY <1>1, <2>2, ThrowFacts, TypedStays, LocalIInv DEF Throw
  <2> QED BY <1>3, <2>1, <2>2 DEF CreateChoice
<1>4. CASE /\ ~AlreadyApplied(k) /\ Applies(r) /\ UNCHANGED choices
           /\ attempt' = [attempt EXCEPT ![a].pc = "apply",
                                         ![a].seen = focus.revision]
  <2> DEFINE n == focus.revision
             v == [attempt[a] EXCEPT !.pc = "apply", !.seen = n]
  <2>1. n \in Nat
    BY <1>1 DEF TypeOK, Focus
  <2>2. attempt' = [attempt EXCEPT ![a] = v]
    BY <1>4
  <2>3. /\ v \in AttemptState /\ v.pc = "apply" /\ v.key = k /\ v.seen = n
        /\ v.result = r /\ v.found = attempt[a].found
    <3> HIDE DEF n
    <3> QED BY <1>1, <2>1 DEF AttemptState, KeyOf
  <2> HIDE DEF v
  <2>4. /\ attempt' \in [Attempt -> AttemptState] /\ attempt'[a] = v
        /\ KeyOf(a)' = k
        /\ \A u \in Attempt \ {a} : attempt'[u] = attempt[u]
    BY <1>1, <2>2, <2>3, Moves
  <2>5. ResultIsStored(a)'
    BY <1>1, <1>4, <2>3, <2>4 DEF Good, ResultIsStored, Applies
  <2>6. SawAnother(a)'
    BY <1>1, <1>4, <2>1, <2>3, <2>4 DEF SawAnother, AlreadyApplied
  <2>7. Good(a)'
    BY <1>1, <2>3, <2>4, <2>5, <2>6 DEF Good, KnowsTurn, RowIsMine, TextIsTrue
  <2> QED BY <1>1, <1>4, <2>4, <2>7, TypedStays, LocalIInv
<1> QED BY <1>2, <1>3, <1>4 DEF UpdateFocus

LEMMA ApplyReferencesIInv ==
  ASSUME IInv, NEW a \in Attempt, ApplyReferences(a)
  PROVE  IInv'
<1> DEFINE k == KeyOf(a)
<1>1. /\ TypeOK /\ UNCHANGED <<requests, groundings, wsgs, choices, faults>>
      /\ k \in TurnKey /\ attempt[a].pc = "apply"
      /\ groundings[k].result \in Answers
  BY KeyFacts DEF IInv, ApplyReferences, Keyed, Good, ResultIsStored
<1>2. CASE /\ focus' = [revision |-> focus.revision + 1, last |-> k,
                        source |-> k, fresh |-> TRUE]
           /\ Render(a)
  <2>1. focus.revision \in Nat
    BY <1>1 DEF TypeOK, Focus
  <2>2. /\ focus' \in Focus /\ focus'.revision = focus.revision + 1
        /\ focus'.last = k
    BY <1>1, <1>2, <2>1 DEF Focus
  <2> QED BY <1>1, <1>2, <2>2, RenderFacts, TypedStays, FocusIInv
<1>3. CASE Render(a) /\ UNCHANGED focus
  BY <1>1, <1>3, RenderFacts, TypedStays, LocalIInv
<1>4. CASE Throw(a) /\ UNCHANGED focus
  BY <1>1, <1>4, ThrowFacts, TypedStays, LocalIInv DEF Throw
<1> QED BY <1>2, <1>3, <1>4 DEF ApplyReferences

LEMMA CompleteGroundingIInv ==
  ASSUME IInv, NEW a \in Attempt, CompleteGrounding(a)
  PROVE  IInv'
<1> DEFINE k == KeyOf(a)
           r == attempt[a].result
           text == attempt[a].text
<1>1. /\ TypeOK /\ Rows /\ UNCHANGED <<requests, wsgs, focus, choices, faults>>
      /\ k \in TurnKey /\ k \in Keys /\ attempt[a].pc = "complete" /\ Good(a)
      /\ r \in Outcome /\ groundings[k].result = r /\ text \in {r, "validated"}
  BY KeyFacts DEF IInv, CompleteGrounding, Keyed, Good, ResultIsStored
<1>2. CASE G!End(k, "COMPLETED") /\ Go(a, "finish")
  <2>1. /\ Wrote(k) /\ groundings'[k].state = "COMPLETED"
        /\ groundings'[k].result = r
    BY <1>1, <1>2, EndFacts DEF G!Terminal
  <2>2. /\ attempt' \in [Attempt -> AttemptState] /\ KeyOf(a)' = k
        /\ \A u \in Attempt \ {a} : attempt'[u] = attempt[u]
        /\ attempt'[a].pc = "finish" /\ attempt'[a].text = text
    BY <1>1, <1>2, GoFacts DEF PC
  <2>3. Good(a)'
    <3>1. text \in Text /\ TextHolds(groundings'[k], text)
      BY <1>1, <2>1 DEF TextHolds, Text, Answers, Outcome
    <3>2. TextIsTrue(a)'
      BY <2>2, <3>1 DEF TextIsTrue
    <3> QED BY <1>1, <2>2, <3>2
        DEF Good, KnowsTurn, RowIsMine, ResultIsStored, SawAnother
  <2>4. ASSUME NEW u \in Attempt \ {a} PROVE OwnRowStays(u)
    <3>1. None \notin Outcome
      BY Facts DEF Text
    <3> QED BY <1>1, <2>1, <3>1, NobodyWaits
  <2> QED BY <1>1, <2>1, <2>2, <2>3, <2>4, WroteLegal, TypedStays, RowIInv
<1>3. CASE Throw(a) /\ UNCHANGED groundings
  BY <1>1, <1>3, ThrowFacts, TypedStays, LocalIInv DEF Throw
<1> QED BY <1>2, <1>3 DEF CompleteGrounding

(* The late failure: it fails even what another attempt waits for, which   *)
(* then fails too, but never what has a result.                            *)
LEMMA CaughtIInv ==
  ASSUME IInv, NEW a \in Attempt, Caught(a)
  PROVE  IInv'
<1> DEFINE k == KeyOf(a)
<1>1. /\ TypeOK /\ Rows /\ UNCHANGED <<requests, wsgs, focus, choices, faults>>
      /\ k \in TurnKey /\ k \in Keys /\ attempt[a].pc = "caught" /\ Good(a)
      /\ attempt[a] \in AttemptState
  BY KeyFacts DEF IInv, Caught, Keyed
<1>2. /\ attempt' \in [Attempt -> AttemptState] /\ KeyOf(a)' = k
      /\ \A u \in Attempt \ {a} : attempt'[u] = attempt[u]
      /\ attempt'[a].pc = "finish" /\ attempt'[a].text = "failed"
  <2> DEFINE v == [attempt[a] EXCEPT !.pc = "finish", !.text = "failed"]
  <2>1. v \in AttemptState /\ v.pc = "finish" /\ v.text = "failed" /\ v.key = k
    BY <1>1 DEF AttemptState, Text, KeyOf
  <2>2. attempt' = [attempt EXCEPT ![a] = v]
    BY DEF Caught
  <2> HIDE DEF v
  <2> QED BY <1>1, <2>1, <2>2, Moves
<1>3. ASSUME Owns(a) => groundings'[k].state = "FAILED"
      PROVE  Good(a)'
  <2>1. Owns(a)' => Owns(a)
    BY <1>1, <1>2 DEF Owns, OwnsClaim
  <2>2. Owns(a)' => TextHolds(groundings'[k], "failed")
    BY <1>3, <2>1 DEF TextHolds, Answers, Outcome
  <2>3. TextIsTrue(a)'
    BY <1>2, <2>2 DEF TextIsTrue, Text
  <2> QED BY <1>1, <1>2, <2>3
      DEF Good, KnowsTurn, RowIsMine, ResultIsStored, SawAnother
<1>4. CASE G!End(k, "FAILED")
  <2>1. /\ Wrote(k) /\ groundings'[k].state = "FAILED"
        /\ groundings'[k].result = groundings[k].result
    BY <1>1, <1>4, EndFacts DEF G!Terminal
  <2>2. ASSUME NEW u \in Attempt \ {a} PROVE OwnRowStays(u)
    <3>1. RowIsMine(u)
      BY DEF IInv, Good
    <3> QED BY <1>1, <2>1, <3>1, OthersRowStays DEF RowIsMine
  <2> QED BY <1>1, <1>2, <1>3, <2>1, <2>2, WroteLegal, TypedStays, RowIInv
<1>5. CASE ~G!CanEnd(k, "FAILED") /\ UNCHANGED groundings
  <2>1. ~Owns(a)
    BY <1>1, <1>5 DEF Good, RowIsMine, G!CanEnd, G!Terminal
  <2> QED BY <1>1, <1>2, <1>3, <1>5, <2>1, TypedStays, LocalIInv
<1> QED BY <1>4, <1>5 DEF Caught
-----------------------------------------------------------------------------
(* The outer request is completed.                                         *)
LEMMA FinishIInv ==
  ASSUME IInv, NEW a \in Attempt, Finish(a)
  PROVE  IInv'
<1> DEFINE k == KeyOf(a)
           text == attempt[a].text
<1>1. /\ TypeOK /\ Rows /\ UNCHANGED <<groundings, wsgs, focus, choices, faults>>
      /\ k \in TurnKey /\ attempt[a].pc = "finish" /\ Good(a) /\ text \in Text
      /\ requests[k] \in Request
  BY KeyFacts DEF IInv, Finish, Keyed, Good, TextIsTrue
<1>2. CASE /\ CompleteClaim(k, "hash", a, text)
           /\ Return(a, attempt[a].result)
  <2> DEFINE row == CompletedRow(requests[k], text)
  <2>1. requests' = [requests EXCEPT ![k] = row] /\ Owns(a)
    BY <1>2 DEF CompleteClaim, Owns
  <2>2. /\ row \in Request /\ row.status = "COMPLETED" /\ row.result = text
        /\ WellFormed(row)
    <3>1. requests[k].hash = "hash" /\ None # "hash" /\ text # None
      BY <1>1, <2>1, Facts DEF Owns, OwnsClaim
    <3> QED BY <1>1, <3>1 DEF CompletedRow, Request, RequestStatus, WellFormed
  <2> HIDE DEF row
  <2>3. /\ requests' \in [TurnKey -> Request] /\ requests'[k] = row
        /\ \A j \in TurnKey \ {k} : requests'[j] = requests[j]
    BY <1>1, <2>1, <2>2 DEF TypeOK
  <2>4. /\ attempt' \in [Attempt -> AttemptState]
        /\ \A u \in Attempt \ {a} : attempt'[u] = attempt[u]
        /\ Good(a)'
    BY <1>1, <1>2, ReturnFacts
  <2>5. ASSUME NEW u \in Attempt \ {a}, attempt[u].pc \in Keyed
        PROVE  OwnClaimStays(u)
    <3>1. KeyOf(u) \in TurnKey /\ KeyOf(u)' = KeyOf(u) /\ RowIsMine(u)
      BY <2>4, <2>5, KeyFacts DEF KeyOf, Good
    <3>2. CASE KeyOf(u) = k
      <4>1. ~Owns(u)
        BY <2>1, <3>2, OneOwner
      <4>2. ~OwnsClaim(KeyOf(u), "hash", u)'
        BY <2>2, <2>3, <3>1, <3>2 DEF OwnsClaim
      <4> QED BY <3>1, <3>2, <4>1, <4>2 DEF OwnClaimStays, RowIsMine
    <3>3. CASE KeyOf(u) # k
      <4>1. requests'[KeyOf(u)] = requests[KeyOf(u)]
        BY <2>3, <3>1, <3>3
      <4> QED BY <3>1, <4>1 DEF OwnClaimStays, RowIsMine, Owns, OwnsClaim
    <3> QED BY <3>2, <3>3
  <2>6. TextHolds(groundings[k], text)
    BY <1>1, <2>1 DEF Good, TextIsTrue
  <2>7. ASSUME NEW j \in TurnKey
        PROVE  /\ WellFormed(requests'[j])
               /\ \/ requests'[j].result = requests[j].result
                  \/ TextHolds(groundings[j], requests'[j].result)
    BY <1>1, <2>2, <2>3, <2>6 DEF Rows
  <2> QED BY <1>1, <2>3, <2>4, <2>5, <2>7, TypedStays, RequestIInv
<1>3. CASE Throw(a) /\ UNCHANGED requests
  BY <1>1, <1>3, ThrowFacts, TypedStays, LocalIInv DEF Throw
<1> QED BY <1>2, <1>3 DEF Finish

-----------------------------------------------------------------------------
(* Leases that end, of both tables.                                        *)
LEMMA LeaseIInv ==
  ASSUME IInv, AllLegal, NEW a, Typed, UNCHANGED <<focus, choices>>,
         \A u \in Attempt \ {a} :
           /\ attempt'[u] = attempt[u] /\ OwnRowStays(u)
           /\ attempt[u].pc \in Keyed => OwnClaimStays(u),
         a \in Attempt => Good(a)',
         requests' \in [TurnKey -> Request],
         \A k \in TurnKey :
           WellFormed(requests'[k]) /\ requests'[k].result = requests[k].result
  PROVE  IInv'
<1>1. TypeOK
  BY DEF IInv
<1>2. TypeOK'
  <2>1. groundings' \in [TurnKey \cup Operation -> G!Grounding]
    BY DEF AllLegal, Keys
  <2> QED BY <1>1, <2>1 DEF TypeOK, Typed
<1>3. Rows'
  BY RowsStay
<1>4. FocusHasOrigin'
  BY OriginStays
<1>5. ASSUME NEW u \in Attempt \ {a} PROVE Good(u)'
  <2>1. Len(choices') \in Nat /\ Len(choices') >= Len(choices)
    BY <1>1 DEF TypeOK
  <2> QED BY <2>1, StaysGood
<1> QED BY <1>2, <1>3, <1>4, <1>5 DEF IInv

LEMMA ViewStays ==
  ASSUME IInv, NEW u \in Attempt,
         attempt[u].pc \in Keyed =>
           /\ SameView(groundings[KeyOf(u)], groundings'[KeyOf(u)])
           /\ groundings'[KeyOf(u)].holder = groundings[KeyOf(u)].holder
                \/ groundings[KeyOf(u)].holder # u
  PROVE  OwnRowStays(u)
<1>1. RowIsMine(u)
  BY DEF IInv, Good
<1> QED BY <1>1 DEF RowIsMine, OwnRowStays, SameView, Keyed

LEMMA OverIInv ==
  ASSUME IInv, NEW a \in Attempt, Over(a), faults' \in 0..MaxFaults
  PROVE  IInv'
<1>1. TypeOK /\ Rows /\ UNCHANGED <<wsgs, focus, choices>>
  BY DEF IInv, Over
<1>2. /\ attempt' \in [Attempt -> AttemptState] /\ Good(a)'
      /\ \A u \in Attempt \ {a} : attempt'[u] = attempt[u]
  BY <1>1, QuitFacts DEF Over, Quit
<1>3. /\ AllLegal
      /\ \A k \in Keys :
           /\ SameView(groundings[k], groundings'[k])
           /\ groundings'[k].holder =
                IF groundings[k].holder = a THEN None ELSE groundings[k].holder
  BY <1>1, OverLegal
<1>4. ASSUME NEW k \in TurnKey
      PROVE  /\ requests'[k] \in Request /\ WellFormed(requests'[k])
             /\ requests'[k].result = requests[k].result
             /\ requests'[k].status = requests[k].status
             /\ requests'[k].hash = requests[k].hash
             /\ requests'[k].leased = requests[k].leased
             /\ requests'[k].owner =
                  IF requests[k].owner = a THEN None ELSE requests[k].owner
  <2>1. requests[k] \in Request /\ WellFormed(requests[k])
    BY <1>1 DEF TypeOK, Rows
  <2>2. requests'[k] = IF requests[k].owner = a
                       THEN [requests[k] EXCEPT !.owner = None]
                       ELSE requests[k]
    BY DEF Over
  <2> QED BY <2>1, <2>2 DEF Request, WellFormed
<1>5. requests' \in [TurnKey -> Request]
  <2>1. requests' = [k \in TurnKey |-> requests'[k]]
    BY DEF Over
  <2> QED BY <1>4, <2>1
<1>6. ASSUME NEW u \in Attempt \ {a}, attempt[u].pc \in Keyed
      PROVE  /\ OwnClaimStays(u)
             /\ SameView(groundings[KeyOf(u)], groundings'[KeyOf(u)])
             /\ groundings'[KeyOf(u)].holder = groundings[KeyOf(u)].holder
                  \/ groundings[KeyOf(u)].holder # u
  <2>1. /\ KeyOf(u) \in TurnKey /\ KeyOf(u) \in Keys /\ KeyOf(u)' = KeyOf(u)
        /\ RowIsMine(u)
    BY <1>2, <1>6, KeyFacts DEF KeyOf, Good
  <2>2. u # None
    BY Facts
  <2>3. OwnClaimStays(u)
    BY <1>4, <2>1, <2>2 DEF OwnClaimStays, RowIsMine, Owns, OwnsClaim
  <2> QED BY <1>3, <2>1, <2>3
<1>7. \A u \in Attempt \ {a} : OwnRowStays(u)
  BY <1>6, ViewStays
<1>8. Typed
  BY <1>1, <1>2 DEF Typed, TypeOK
<1> QED BY <1>1, <1>2, <1>3, <1>4, <1>5, <1>6, <1>7, <1>8, LeaseIInv

(* A claim that expires keeps its owner: only who is about to claim the    *)
(* row would miss it, and its claim does not expire.                       *)
LEMMA ExpireFacts ==
  ASSUME TypeOK, Rows, NEW k \in TurnKey, ExpireClaim(k)
  PROVE  /\ requests' \in [TurnKey -> Request]
         /\ \A j \in TurnKey :
              /\ WellFormed(requests'[j])
              /\ requests'[j].result = requests[j].result
              /\ requests'[j].status = requests[j].status
              /\ requests'[j].hash = requests[j].hash
              /\ requests'[j].owner = requests[j].owner
              /\ j # k => requests'[j].leased = requests[j].leased
<1> DEFINE row == [requests[k] EXCEPT !.leased = FALSE]
<1>1. requests[k] \in Request /\ WellFormed(requests[k])
  BY DEF TypeOK, Rows
<1>2. /\ row \in Request /\ row.result = requests[k].result
      /\ row.status = requests[k].status /\ row.hash = requests[k].hash
      /\ row.owner = requests[k].owner /\ WellFormed(row)
  BY <1>1 DEF Request, WellFormed, ExpireClaim
<1>3. requests' = [requests EXCEPT ![k] = row]
  BY DEF ExpireClaim
<1> HIDE DEF row
<1> QED BY <1>2, <1>3 DEF TypeOK, Rows

LEMMA ExpiredClaimStays ==
  ASSUME IInv, NEW k \in TurnKey, ExpireClaim(k), NEW u \in Attempt,
         attempt'[u] = attempt[u], attempt[u].pc \in Keyed,
         KeyOf(u) = k /\ Owns(u) => attempt[u].pc # "claim"
  PROVE  OwnClaimStays(u)
<1>1. TypeOK /\ Rows
  BY DEF IInv
<1>2. KeyOf(u) \in TurnKey /\ KeyOf(u)' = KeyOf(u) /\ RowIsMine(u)
  BY KeyFacts DEF KeyOf, Good
<1>3. /\ requests'[KeyOf(u)].status = requests[KeyOf(u)].status
      /\ requests'[KeyOf(u)].hash = requests[KeyOf(u)].hash
      /\ requests'[KeyOf(u)].owner = requests[KeyOf(u)].owner
      /\ KeyOf(u) # k =>
           requests'[KeyOf(u)].leased = requests[KeyOf(u)].leased
  BY <1>1, <1>2, ExpireFacts
<1> QED BY <1>2, <1>3 DEF OwnClaimStays, RowIsMine, Owns, OwnsClaim

LEMMA LapseIInv ==
  ASSUME IInv, NEW k \in TurnKey, Lapse(k)
  PROVE  IInv'
<1>1. /\ TypeOK /\ Rows /\ UNCHANGED <<wsgs, focus, choices, attempt, faults>>
      /\ k \in Keys /\ None \notin Attempt
  BY Facts DEF IInv, Lapse, Keys
<1>2. Typed
  BY <1>1, TypedStays DEF TypeOK
<1>3. CASE requests[k].owner = None /\ ExpireClaim(k) /\ UNCHANGED groundings
  <2>1. /\ requests' \in [TurnKey -> Request]
        /\ \A j \in TurnKey : WellFormed(requests'[j])
                                /\ requests'[j].result = requests[j].result
    BY <1>1, <1>3, ExpireFacts
  <2>2. ASSUME NEW u \in Attempt \ {None}, attempt[u].pc \in Keyed
        PROVE  OwnClaimStays(u)
    <3>1. ~(KeyOf(u) = k /\ Owns(u))
      BY <1>1, <1>3 DEF Owns, OwnsClaim
    <3> QED BY <1>1, <1>3, <2>2, <3>1, ExpiredClaimStays
  <2> QED BY <1>1, <1>2, <1>3, <2>1, <2>2, RequestIInv
<1>4. CASE groundings[k].holder = None /\ G!Lapse(k) /\ UNCHANGED requests
  <2>1. /\ Wrote(k) /\ SameView(groundings[k], groundings'[k])
        /\ groundings'[k].holder = groundings[k].holder
    BY <1>1, <1>4, LapseFacts
  <2>2. ASSUME NEW u \in Attempt \ {None} PROVE OwnRowStays(u)
    <3>1. ASSUME attempt[u].pc \in Keyed
          PROVE  /\ SameView(groundings[KeyOf(u)], groundings'[KeyOf(u)])
                 /\ groundings'[KeyOf(u)].holder = groundings[KeyOf(u)].holder
      BY <2>1, <3>1, KeyFacts DEF Wrote, SameView
    <3> QED BY <3>1, ViewStays
  <2> QED BY <1>1, <1>2, <1>4, <2>1, <2>2, WroteLegal, RowIInv
<1> QED BY <1>3, <1>4 DEF Lapse

LEMMA OverrunIInv ==
  ASSUME IInv, NEW a \in Attempt, Overrun(a)
  PROVE  IInv'
<1> DEFINE k == KeyOf(a)
<1>1. /\ TypeOK /\ Rows /\ UNCHANGED <<wsgs, focus, choices, attempt>>
      /\ k \in TurnKey /\ k \in Keys /\ None \notin Attempt
      /\ attempt[a].pc = "post"
  BY KeyFacts, Facts DEF IInv, Overrun, Keyed
<1>2. Typed
  <2>1. faults' \in 0..MaxFaults
    BY <1>1, FaultTyped DEF TypeOK, Overrun
  <2> QED BY <1>1, <2>1 DEF Typed, TypeOK
<1>3. CASE requests[k].owner = a /\ ExpireClaim(k) /\ UNCHANGED groundings
  <2>1. /\ requests' \in [TurnKey -> Request]
        /\ \A j \in TurnKey : WellFormed(requests'[j])
                                /\ requests'[j].result = requests[j].result
    BY <1>1, <1>3, ExpireFacts
  <2>2. ASSUME NEW u \in Attempt \ {None}, attempt[u].pc \in Keyed
        PROVE  OwnClaimStays(u)
    <3>1. KeyOf(u) = k /\ Owns(u) => u = a
      BY <1>3 DEF Owns, OwnsClaim
    <3> QED BY <1>1, <1>3, <2>2, <3>1, ExpiredClaimStays
  <2> HIDE DEF k
  <2> QED BY <1>1, <1>2, <1>3, <2>1, <2>2, RequestIInv
<1>4. CASE G!Lapse(k) /\ UNCHANGED requests
  <2>1. /\ Wrote(k) /\ SameView(groundings[k], groundings'[k])
        /\ groundings'[k].holder = groundings[k].holder
    BY <1>1, <1>4, LapseFacts
  <2>2. ASSUME NEW u \in Attempt \ {None} PROVE OwnRowStays(u)
    <3>1. ASSUME attempt[u].pc \in Keyed
          PROVE  /\ SameView(groundings[KeyOf(u)], groundings'[KeyOf(u)])
                 /\ groundings'[KeyOf(u)].holder = groundings[KeyOf(u)].holder
      BY <2>1, <3>1, KeyFacts DEF Wrote, SameView
    <3> QED BY <3>1, ViewStays
  <2> HIDE DEF k
  <2> QED BY <1>1, <1>2, <1>4, <2>1, <2>2, WroteLegal, RowIInv
<1> QED BY <1>3, <1>4 DEF Overrun
-----------------------------------------------------------------------------
LEMMA InitIInv ==
  ASSUME Init
  PROVE  IInv
<1>1. TypeOK
  <2>1. NoRequest \in Request /\ G!NoGrounding \in G!Grounding
    BY DEF NoRequest, Request, RequestStatus, G!NoGrounding, G!Grounding
  <2>2. focus \in Focus /\ choices \in Seq(Choice)
    BY DEF Init, Focus
  <2>3. IdleAttempt \in AttemptState
    BY DEF IdleAttempt, AttemptState
  <2>4. faults \in 0..MaxFaults
    BY Facts DEF Init
  <2> QED BY <2>1, <2>2, <2>3, <2>4 DEF Init, TypeOK
<1>2. Rows
  <2>1. \A k \in TurnKey : WellFormed(requests[k]) /\ requests[k].result = None
    BY DEF Init, NoRequest, WellFormed
  <2>2. \A k \in Keys : RowOK(groundings[k])
    BY DEF Init, Keys, G!NoGrounding, RowOK, Guard!Shape, Guard!Terminal
  <2>3. ASSUME NEW k \in TurnKey
        PROVE  TextHolds(groundings[k], requests[k].result)
    BY <2>1, Facts DEF TextHolds, Answers, Outcome, Text
  <2> QED BY <2>1, <2>2, <2>3 DEF Rows
<1>3. FocusHasOrigin
  BY DEF Init, FocusHasOrigin
<1>4. ASSUME NEW a \in Attempt PROVE Good(a)
  <2>1. attempt[a].pc = "idle"
    BY DEF Init, IdleAttempt
  <2> QED BY <2>1 DEF Good, KnowsTurn, RowIsMine, ResultIsStored, TextIsTrue,
                      SawAnother, Keyed
<1> QED BY <1>1, <1>2, <1>3, <1>4 DEF IInv

LEMMA NextIInv ==
  ASSUME IInv, [Next]_vars
  PROVE  IInv'
<1>1. ASSUME NEW a \in Attempt, NEW t \in Turn, Begin(a, t) PROVE IInv'
  BY <1>1, BeginIInv
<1>2. ASSUME NEW a \in Attempt, Step(a) PROVE IInv'
  <2>1. CASE Select(a) \/ Refocus(a) \/ Context(a) \/ ClaimOuter(a)
    BY <2>1, SelectIInv, RefocusIInv, ContextIInv, ClaimOuterIInv
  <2>2. CASE ClaimGrounding(a) \/ Post(a) \/ Record(a) \/ Settle(a)
    BY <2>2, ClaimGroundingIInv, PostIInv, RecordIInv, SettleIInv
  <2>3. CASE UpdateFocus(a) \/ ApplyReferences(a)
    BY <2>3, UpdateFocusIInv, ApplyReferencesIInv
  <2>4. CASE CompleteGrounding(a) \/ Caught(a) \/ Finish(a)
    BY <2>4, CompleteGroundingIInv, CaughtIInv, FinishIInv
  <2> QED BY <1>2, <2>1, <2>2, <2>3, <2>4 DEF Step
<1>3. ASSUME NEW a \in Attempt, Crash(a) \/ Rest(a) PROVE IInv'
  <2>1. faults' \in 0..MaxFaults
    BY <1>3, FaultTyped DEF IInv, Crash, Rest, TypeOK
  <2> QED BY <1>3, <2>1, OverIInv DEF Crash, Rest
<1>4. ASSUME NEW a \in Attempt, Overrun(a) PROVE IInv'
  BY <1>4, OverrunIInv
<1>5. ASSUME NEW k \in TurnKey, Lapse(k) PROVE IInv'
  BY <1>5, LapseIInv
<1>6. TypeOK /\ Rows /\ None \notin Attempt
  BY Facts DEF IInv
<1>7. ASSUME NEW i \in 1..Len(choices), ChoiceExpires(i) PROVE IInv'
  <2> DEFINE c == [choices[i] EXCEPT !.expired = TRUE]
  <2>1. choices \in Seq(Choice)
    BY <1>6 DEF TypeOK
  <2>2. choices[i] \in Choice
    BY <2>1
  <2>3. c \in Choice /\ c.origin = choices[i].origin
    BY <2>2 DEF Choice
  <2>4. choices' = [choices EXCEPT ![i] = c]
    BY <1>7 DEF ChoiceExpires
  <2> HIDE DEF c
  <2>5. /\ choices' \in Seq(Choice) /\ Len(choices') = Len(choices)
        /\ \A j \in 1..Len(choices) : choices'[j].origin = choices[j].origin
    BY <2>1, <2>3, <2>4
  <2>6. /\ UNCHANGED <<requests, groundings, wsgs, focus, attempt, faults>>
        /\ Len(choices') >= Len(choices)
    BY <1>7, <2>1, <2>5 DEF ChoiceExpires
  <2>7. Typed
    BY <1>6, <2>6, TypedStays DEF TypeOK
  <2> QED BY <1>6, <2>5, <2>6, <2>7, ChoicesIInv
<1>8. CASE FocusAges
  <2>1. /\ focus' \in Focus /\ focus'.revision = focus.revision
        /\ focus'.last = focus.last
    BY <1>6, <1>8 DEF FocusAges, TypeOK, Focus
  <2>2. UNCHANGED <<requests, groundings, wsgs, choices, attempt, faults>>
    BY <1>8 DEF FocusAges
  <2>3. Typed
    BY <1>6, <2>2, TypedStays DEF TypeOK
  <2> QED BY <1>6, <2>1, <2>2, <2>3, FocusIInv
<1>9. ASSUME NEW w \in Worker, NEW k \in Operation, Operate(w, k) PROVE IInv'
  <2>1. Wrote(k) /\ k \in Keys /\ k \notin TurnKey
    BY <1>6, <1>9, OperateLegal, Facts DEF Keys
  <2>2. UNCHANGED <<requests, wsgs, focus, choices, attempt, faults>>
    BY <1>9 DEF Operate
  <2>3. ASSUME NEW u \in Attempt \ {None} PROVE OwnRowStays(u)
    <3>1. attempt[u].pc \in {"post", "record", "caught"} => KeyOf(u) # k
      BY <2>1, KeyFacts DEF Keyed
    <3> QED BY <2>1, <3>1, OthersRowStays
  <2>4. Typed
    BY <1>6, <2>2, TypedStays DEF TypeOK
  <2> QED BY <1>6, <2>1, <2>2, <2>3, <2>4, WroteLegal, RowIInv
<1>10. CASE UNCHANGED vars
  <2>1. UNCHANGED <<requests, groundings, wsgs, focus, choices, attempt, faults>>
    BY <1>10 DEF vars
  <2>2. Typed
    BY <1>6, <2>1, TypedStays DEF TypeOK
  <2> QED BY <1>6, <2>1, <2>2, LocalIInv
<1> QED BY <1>1, <1>2, <1>3, <1>4, <1>5, <1>7, <1>8, <1>9, <1>10 DEF Next

(* The inductive invariant, and with it its parts.                         *)
THEOREM Invariance == Spec => []IInv
<1>1. Init => IInv
  BY InitIInv
<1>2. IInv /\ [Next]_vars => IInv'
  BY NextIInv
<1> QED BY <1>1, <1>2, PTL DEF Spec

-----------------------------------------------------------------------------
(* Every variable stays within its type, whatever number of attempts,      *)
(* workers and faults interleave.                                          *)
THEOREM TypeCorrect == Spec => []TypeOK
<1>1. IInv => TypeOK
  BY DEF IInv
<1> QED BY <1>1, Invariance, PTL

(* What completeOuterRequest stored for a turn is what its grounding row   *)
(* holds, and it stays so: no late attempt writes over an answer.          *)
THEOREM AnswersAreDurable == Spec => []AnswerIsDurable
<1>1. IInv => AnswerIsDurable
  BY DEF IInv, Rows, TextHolds, AnswerIsDurable
<1> QED BY <1>1, Invariance, PTL

(* The focus and the choices name groundings whose results are stored.     *)
THEOREM FocusRestsOnResults == Spec => []FocusHasOrigin
<1>1. IInv => FocusHasOrigin
  BY DEF IInv
<1> QED BY <1>1, Invariance, PTL

(* applyReferences never applies a result over itself: the compare of the  *)
(* revision makes the check against the last result of the focus, which    *)
(* WorldFocusUpdater made in an earlier transaction, still good.           *)
THEOREM AppliedOnce == Spec => NotAppliedTwice
<1>1. ASSUME IInv, [Next]_vars, focus'.revision # focus.revision
      PROVE  focus'.last # focus.last
  <2>1. ASSUME NEW a \in Attempt, ApplyReferences(a)
        PROVE  focus'.last # focus.last
    <3>1. SawAnother(a) /\ attempt[a].pc = "apply"
      BY <1>1, <2>1 DEF IInv, Good, ApplyReferences
    <3> QED BY <1>1, <2>1, <3>1 DEF SawAnother, ApplyReferences, AtRevision
  <2>2. ASSUME NEW a \in Attempt, Step(a) PROVE focus'.last # focus.last
    <3>1. CASE Select(a) \/ Refocus(a) \/ Context(a) \/ ClaimOuter(a)
      BY <1>1, <3>1 DEF Select, Refocus, Context, ClaimOuter
    <3>2. CASE ClaimGrounding(a) \/ Post(a) \/ Record(a) \/ Settle(a)
      BY <1>1, <3>2 DEF ClaimGrounding, Post, Record, Settle
    <3>3. CASE UpdateFocus(a) \/ CompleteGrounding(a) \/ Caught(a) \/ Finish(a)
      BY <1>1, <3>3 DEF UpdateFocus, CompleteGrounding, Caught, Finish
    <3> QED BY <2>1, <2>2, <3>1, <3>2, <3>3 DEF Step
  <2>3. ASSUME NEW a \in Attempt, NEW t \in Turn, Begin(a, t) PROVE FALSE
    BY <1>1, <2>3 DEF Begin
  <2>4. ASSUME NEW a \in Attempt, Crash(a) \/ Rest(a) \/ Overrun(a) PROVE FALSE
    BY <1>1, <2>4 DEF Crash, Rest, Overrun, Over
  <2>5. CASE FocusAges
    BY <1>1, <2>5 DEF FocusAges, IInv, TypeOK, Focus
  <2>6. CASE \/ \E k \in TurnKey : Lapse(k)
             \/ \E i \in 1..Len(choices) : ChoiceExpires(i)
             \/ \E w \in Worker, k \in Operation : Operate(w, k)
             \/ UNCHANGED vars
    BY <1>1, <2>6 DEF Lapse, ChoiceExpires, Operate, vars
  <2> QED BY <1>1, <2>2, <2>3, <2>4, <2>5, <2>6 DEF Next
<1>2. IInv /\ [Next]_vars =>
        [focus'.revision # focus.revision => focus'.last # focus.last]_vars
  BY <1>1
<1> QED BY <1>2, Invariance, PTL DEF Spec, NotAppliedTwice

(* The runtime's and the workers' statements, in any order, are ones that  *)
(* the CHECK constraints and the update trigger of the table accept.       *)
THEOREM GuardIsKept == Spec => KeepsTheGuard
<1> DEFINE View(row) == [state |-> row.state, context |-> row.context,
                         result |-> row.result, task |-> row.task,
                         reserved |-> row.reserved, leased |-> row.leased]
           rows == [k \in TurnKey \cup Operation |-> View(groundings[k])]
<1>1. ASSUME Init PROVE Guard!Init
  <2>1. ASSUME NEW k \in TurnKey \cup Operation PROVE rows[k].state = "ABSENT"
    <3>1. groundings[k].state = "ABSENT"
      BY <1>1 DEF Init, G!NoGrounding
    <3> QED BY <3>1
  <2> QED BY <2>1 DEF Guard!Init
<1>2. ASSUME IInv, [Next]_vars PROVE [Guard!Next]_rows
  <2>1. AllLegal
    BY <1>2, StepLegal
  <2>2. ASSUME NEW k \in TurnKey \cup Operation, rows'[k] # rows[k]
        PROVE  Guard!Insert(k, rows'[k]) \/ Guard!Update(k, rows'[k])
    <3> DEFINE old == groundings[k]
               new == groundings'[k]
    <3>1. /\ rows[k] = View(old) /\ rows'[k] = View(new)
          /\ Legal(old, new)
      BY <2>1 DEF AllLegal, Keys
    <3>2. View(old) # View(new)
      BY <2>2, <3>1
    <3>3. ~(SameView(old, new) /\ new.leased = old.leased)
      BY <3>2 DEF SameView
    <3>4. Guard!Shape(View(new))
      BY <3>1 DEF Legal, RowOK, Guard!Shape
    <3>5. CASE old.state = "ABSENT" /\ new.state = "GROUNDING_PENDING"
      <4>1. Guard!Insert(k, View(new))
        BY <3>4, <3>5 DEF Guard!Insert
      <4> QED BY <3>1, <4>1
    <3>6. CASE /\ old.state \notin G!Terminal \cup {"ABSENT"}
               /\ Guard!OnceRecorded(old, new)
               /\ Guard!Forward(old.state, new.state) \/ SameView(old, new)
      <4>1. View(old).state \notin Guard!Terminal \cup {"ABSENT"}
        BY <3>6 DEF G!Terminal, Guard!Terminal
      <4>2. Guard!OnceRecorded(View(old), View(new))
        BY <3>6 DEF Guard!OnceRecorded
      <4>3. \/ Guard!Forward(View(old).state, View(new).state)
            \/ Guard!OnlyTheLease(View(old), View(new))
        <5>1. SameView(old, new) => Guard!OnlyTheLease(View(old), View(new))
          BY DEF SameView, Guard!OnlyTheLease
        <5> QED BY <3>6, <5>1
      <4>4. Guard!Update(k, View(new))
        BY <3>4, <4>1, <4>2, <4>3 DEF Guard!Update
      <4> QED BY <3>1, <4>4
    <3> QED BY <3>1, <3>3, <3>5, <3>6 DEF Legal
  <2> QED BY <2>2 DEF Guard!Next
<1> QED BY <1>1, <1>2, Invariance, PTL DEF Spec, KeepsTheGuard, Guard!Spec
=============================================================================
