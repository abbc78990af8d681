--------------------------- MODULE Interrupts_proofs ---------------------------
(***************************************************************************)
(* Proofs about Interrupts for any runs, resume turns, questions and       *)
(* answers.                                                                *)
(*                                                                         *)
(* Everything rests on what a row keeps: once it has left OPEN it never    *)
(* comes back, a RESOLVING row belongs to the one turn that took it        *)
(* (ClaimIsHeld, SoleClaim), and that turn has sent nothing before it      *)
(* sends (SentUnderClaim). A cancelled row is one that nobody claimed.     *)
(***************************************************************************)
EXTENDS Interrupts, TLAPS

(* What is used of the questions: there are finitely many, and NULL is not *)
(* one of them.                                                            *)
LEMMA QuestionFacts ==
  /\ Len(Questions) \in Nat
  /\ \A q \in 1..Len(Questions) : Questions[q] \in Range(Questions) \ {None}
<1>1. Len(Questions) \in Nat /\ DOMAIN Questions = 1..Len(Questions)
  BY InterruptsAssumption DEF InterruptsAssumption
<1>2. \A q \in DOMAIN Questions : Questions[q] \in Range(Questions)
  BY DEF Range
<1> QED BY <1>1, <1>2, InterruptsAssumption DEF InterruptsAssumption

LEMMA NoneIsApart ==
  /\ None \notin Answer \cup {Cancel} \cup Range(Questions)
  /\ Cancel \notin Answer
BY InterruptsAssumption DEF InterruptsAssumption

Claiming(t) == turns[t].step \in {"send", "complete"}

(* A turn at work names a run and an entry, and an answer past the lookup. *)
InHand ==
  \A t \in Turn :
    /\ turns[t].step # "idle" => turns[t].run \in Run /\ turns[t].entry \in Entry
    /\ turns[t].step \in {"check", "send", "complete"} =>
         turns[t].entry \in Answer
    /\ turns[t].outcome # "none" => turns[t].step = "done"

(* Where the Task waits there is a question, and so there is in a run that *)
(* publishes one.                                                          *)
Asked ==
  /\ waiting => at # 0
  /\ \A r \in Run : pub[r].step # "idle" => pub[r].question # 0

(* The row of a turn between claim and completion is RESOLVING with its    *)
(* answer, and it is the only such turn.                                   *)
ClaimIsHeld ==
  \A t \in Turn : Claiming(t) =>
    /\ rows[turns[t].run].status = "RESOLVING"
    /\ rows[turns[t].run].hash = turns[t].entry

SoleClaim ==
  \A t, u \in Turn :
    Claiming(t) /\ Claiming(u) /\ turns[t].run = turns[u].run => t = u

(* What was sent was sent for a row that is claimed and stays so; a turn   *)
(* about to send finds that nothing was.                                   *)
SentUnderClaim ==
  /\ \A x \in sent : rows[x[2]].status \in {"RESOLVING", "RESOLVED"}
  /\ \A t \in Turn : turns[t].step = "send" =>
       \A x \in sent : x[2] # turns[t].run

(* What a resume was told is what the row says from then on.               *)
ToldByRow ==
  \A t \in Turn :
    /\ turns[t].outcome \in {"cancelled", "expired"} =>
         rows[turns[t].run].status = "CANCELLED"
    /\ turns[t].outcome \in {"resolved", "replay"} /\ turns[t].entry # Cancel =>
         /\ rows[turns[t].run].status = "RESOLVED"
         /\ rows[turns[t].run].hash = turns[t].entry

(* SDAR replied to every answer that is RESOLVED or only to be completed.  *)
ResolvedIsReplied ==
  /\ \A r \in Run : rows[r].status = "RESOLVED" => <<r, rows[r].hash>> \in replied
  /\ \A t \in Turn : turns[t].step = "complete" =>
       <<turns[t].run, turns[t].entry>> \in replied

IInv ==
  /\ TypeOK /\ InHand /\ Asked /\ ClaimIsHeld /\ SoleClaim /\ SentUnderClaim
  /\ ToldByRow /\ ResolvedIsReplied /\ OneFollowUp /\ PublishedMatchesRow

-----------------------------------------------------------------------------
LEMMA InitIInv == Init => IInv
<1> SUFFICES ASSUME Init PROVE IInv
  OBVIOUS
<1>0. waiting \in BOOLEAN
  BY DEF Init
<1>1. TypeOK
  BY <1>0, QuestionFacts, NoneIsApart
  DEF Init, TypeOK, Row, NoRow, WellFormed, TurnState
<1>2. InHand /\ Asked /\ ClaimIsHeld /\ SoleClaim /\ SentUnderClaim
  BY DEF Init, InHand, Asked, Claiming, ClaimIsHeld, SoleClaim, SentUnderClaim
<1>3. ToldByRow /\ ResolvedIsReplied /\ OneFollowUp /\ PublishedMatchesRow
  BY DEF Init, NoRow, ToldByRow, ResolvedIsReplied, OneFollowUp,
         PublishedMatchesRow
<1> QED BY <1>1, <1>2, <1>3 DEF IInv

(* The Task's own steps change neither a row nor a turn.                   *)
LEMMA TaskKeepsIInv == ASSUME IInv, Ask \/ MoveOn PROVE IInv'
<1>0. waiting' \in BOOLEAN
  BY DEF Ask, MoveOn
<1>1. at' \in 0..Len(Questions) /\ (waiting' => at' # 0)
  BY QuestionFacts DEF Ask, MoveOn, IInv, TypeOK
<1>2. UNCHANGED <<rows, pub, told, turns, sent, applied, replied>>
  BY DEF Ask, MoveOn
<1> QED
  BY <1>0, <1>1, <1>2
  DEF IInv, TypeOK, InHand, Asked, Claiming, ClaimIsHeld, SoleClaim,
      SentUnderClaim, ToldByRow, ResolvedIsReplied, OneFollowUp,
      PublishedMatchesRow

LEMMA ExpireKeepsIInv == ASSUME IInv, NEW r \in Run, Expire(r) PROVE IInv'
<1> USE DEF IInv, Expire
<1>1. TypeOK'
  BY ZenonT(60) DEF TypeOK, Row, WellFormed
<1>2. /\ \A s \in Run : /\ rows'[s].status = rows[s].status
                       /\ rows'[s].hash = rows[s].hash
                       /\ rows'[s].question = rows[s].question
  BY DEF TypeOK, Row
<1>3. InHand' /\ Asked' /\ SoleClaim' /\ OneFollowUp'
  BY DEF InHand, Asked, Claiming, SoleClaim, OneFollowUp
<1>4. ClaimIsHeld' /\ SentUnderClaim' /\ ToldByRow'
  BY <1>2 DEF TypeOK, InHand, Claiming, ClaimIsHeld, SentUnderClaim, ToldByRow
<1>5. ResolvedIsReplied'
  BY <1>2 DEF ResolvedIsReplied
<1>6. PublishedMatchesRow'
  BY <1>2 DEF TypeOK, PublishedMatchesRow
<1> QED BY <1>1, <1>3, <1>4, <1>5, <1>6

(* A run that looks for an open interrupt, or gives up.                    *)
LEMMA ObserveKeepsIInv == ASSUME IInv, NEW r \in Run, Observe(r) PROVE IInv'
<1> USE DEF IInv, Observe
<1>1. TypeOK' /\ Asked'
  BY QuestionFacts DEF TypeOK, Asked
<1>2. InHand' /\ ClaimIsHeld' /\ SoleClaim' /\ SentUnderClaim' /\ ToldByRow'
  BY DEF InHand, Claiming, ClaimIsHeld, SoleClaim, SentUnderClaim, ToldByRow
<1>3. ResolvedIsReplied' /\ OneFollowUp' /\ PublishedMatchesRow'
  BY DEF ResolvedIsReplied, OneFollowUp, PublishedMatchesRow
<1> QED BY <1>1, <1>2, <1>3

(* Where a run goes from a step of persistInputRequired.                   *)
LEMMA PublisherMoves ==
  ASSUME TypeOK, Asked, NEW r \in Run, pub[r].step # "idle",
         \/ pub' = [pub EXCEPT ![r] = [step |-> "idle", question |-> 0]]
         \/ pub' = [pub EXCEPT ![r].step = "create"]
  PROVE  /\ pub' \in [Run -> [step : {"idle", "find", "create"},
                             question : 0..Len(Questions)]]
         /\ \A s \in Run : pub'[s].step # "idle" => pub'[s].question # 0
         /\ pub[r].question \in 1..Len(Questions)
<1>1. pub[r].question \in 1..Len(Questions)
  BY QuestionFacts DEF TypeOK, Asked
<1>2. CASE pub' = [pub EXCEPT ![r] = [step |-> "idle", question |-> 0]]
  BY <1>1, <1>2, QuestionFacts DEF TypeOK, Asked
<1>3. CASE pub' = [pub EXCEPT ![r].step = "create"]
  BY <1>1, <1>3, QuestionFacts DEF TypeOK, Asked
<1> QED BY <1>1, <1>2, <1>3

(* What is published was read from the row, or has just been written to it. *)
LEMMA FindOpenKeepsIInv == ASSUME IInv, NEW r \in Run, FindOpen(r) PROVE IInv'
<1> USE DEF IInv
<1>0. /\ pub' \in [Run -> [step : {"idle", "find", "create"},
                         question : 0..Len(Questions)]]
      /\ \A s \in Run : pub'[s].step # "idle" => pub'[s].question # 0
      /\ pub[r].question \in 1..Len(Questions)
  BY PublisherMoves DEF FindOpen, Publish, Refuse
<1>1. /\ \/ told' = told
         \/ /\ told' = told \cup {<<r, pub[r].question>>}
            /\ rows[r].question = Questions[pub[r].question]
  BY DEF FindOpen, Publish, Refuse, SameInterrupt
<1>2. UNCHANGED <<at, waiting, rows, turns, sent, applied, replied>>
  BY DEF FindOpen
<1>3. TypeOK' /\ Asked' /\ PublishedMatchesRow'
  BY <1>0, <1>1, <1>2 DEF TypeOK, Asked, PublishedMatchesRow
<1>4. InHand' /\ ClaimIsHeld' /\ SoleClaim' /\ SentUnderClaim' /\ ToldByRow'
  BY <1>2 DEF InHand, Claiming, ClaimIsHeld, SoleClaim, SentUnderClaim, ToldByRow
<1>5. ResolvedIsReplied' /\ OneFollowUp'
  BY <1>2 DEF ResolvedIsReplied, OneFollowUp
<1> QED BY <1>3, <1>4, <1>5

LEMMA CreateKeepsIInv == ASSUME IInv, NEW r \in Run, Create(r) PROVE IInv'
<1> USE DEF IInv
<1>0. /\ pub' \in [Run -> [step : {"idle", "find", "create"},
                         question : 0..Len(Questions)]]
      /\ \A s \in Run : pub'[s].step # "idle" => pub'[s].question # 0
      /\ pub[r].question \in 1..Len(Questions)
  BY PublisherMoves DEF Create, Publish, Refuse
<1>1. UNCHANGED <<at, waiting, turns, sent, applied, replied>>
  BY DEF Create
<1>2. CASE rows' = rows /\ told' = told
  <2>1. TypeOK' /\ Asked' /\ PublishedMatchesRow'
    BY <1>0, <1>1, <1>2 DEF TypeOK, Asked, PublishedMatchesRow
  <2>2. InHand' /\ ClaimIsHeld' /\ SoleClaim' /\ SentUnderClaim' /\ ToldByRow'
    BY <1>1, <1>2
    DEF InHand, Claiming, ClaimIsHeld, SoleClaim, SentUnderClaim, ToldByRow
  <2>3. ResolvedIsReplied' /\ OneFollowUp'
    BY <1>1, <1>2 DEF ResolvedIsReplied, OneFollowUp
  <2> QED BY <2>1, <2>2, <2>3
<1>3. ASSUME rows[r].status = "ABSENT",
             rows' = [rows EXCEPT ![r] = OpenRow(Questions[pub[r].question])],
             told' = told \cup {<<r, pub[r].question>>}
      PROVE IInv'
  <2> DEFINE q == Questions[pub[r].question]
  <2>0. q \in Range(Questions) \ {None}
    BY <1>0, QuestionFacts
  <2>1. /\ OpenRow(q) \in Row /\ WellFormed(OpenRow(q))
        /\ OpenRow(q).status = "OPEN" /\ OpenRow(q).question = q
    BY <2>0 DEF OpenRow, NoRow, Row, WellFormed
  <2> HIDE DEF q
  <2>2. TypeOK' /\ Asked'
    BY SMTT(40), <1>0, <1>1, <1>3, <2>1 DEF q, TypeOK, Asked
  <2>3. \A s \in Run \ {r} : rows'[s] = rows[s]
    BY <1>3 DEF TypeOK
  <2>4. rows'[r] = OpenRow(q)
    BY <1>3 DEF TypeOK, q
  <2>5. InHand' /\ ClaimIsHeld' /\ SoleClaim'
    BY <1>1, <1>3, <2>3
    DEF InHand, Claiming, ClaimIsHeld, SoleClaim
  <2>6. SentUnderClaim' /\ OneFollowUp'
    BY <1>1, <1>3, <2>3 DEF TypeOK, SentUnderClaim, OneFollowUp
  <2>7. ToldByRow'
    BY <1>1, <1>3, <2>3 DEF InHand, ToldByRow, TypeOK, TurnState
  <2>8. ResolvedIsReplied'
    BY <1>1, <2>1, <2>3, <2>4 DEF ResolvedIsReplied
  <2>9. PublishedMatchesRow'
    <3>1. \A x \in told : rows[x[1]].question # None
      BY QuestionFacts DEF TypeOK, PublishedMatchesRow
    <3>2. \A x \in told : x[1] # r
      BY <1>3, <3>1 DEF TypeOK, WellFormed
    <3> QED BY <1>3, <2>1, <2>3, <2>4, <3>2 DEF q, TypeOK, PublishedMatchesRow
  <2> QED BY <2>2, <2>5, <2>6, <2>7, <2>8, <2>9
<1> QED BY <1>2, <1>3 DEF Create, Publish, Refuse

-----------------------------------------------------------------------------
Outcome == {"none", "resolved", "replay", "cancelled", "expired", "conflict",
            "in_progress", "invalid", "not_found", "failed"}

(* How a turn ends, and how it goes on: it keeps its run and its entry.    *)
LEMMA ReplyEnds ==
  ASSUME TypeOK, NEW t \in Turn, NEW o \in Outcome, Reply(t, o)
  PROVE  /\ turns' \in [Turn -> TurnState]
         /\ \A u \in Turn \ {t} : turns'[u] = turns[u]
         /\ turns'[t].step = "done" /\ turns'[t].outcome = o
         /\ turns'[t].run = turns[t].run /\ turns'[t].entry = turns[t].entry
BY ZenonT(60) DEF Reply, TypeOK, TurnState, Outcome

LEMMA ContinueGoesOn ==
  ASSUME TypeOK, NEW t \in Turn,
         NEW s \in {"check", "claim", "send", "complete"}, Continue(t, s)
  PROVE  /\ turns' \in [Turn -> TurnState]
         /\ \A u \in Turn \ {t} : turns'[u] = turns[u]
         /\ turns'[t].step = s /\ turns'[t].outcome = turns[t].outcome
         /\ turns'[t].run = turns[t].run /\ turns'[t].entry = turns[t].entry
BY DEF Continue, TypeOK, TurnState

(* A step that moves one turn, to where it claims nothing, and is told     *)
(* nothing that its row does not say.                                      *)
LEMMA TurnMoves ==
  ASSUME IInv, NEW t \in Turn,
         turns' \in [Turn -> TurnState],
         \A u \in Turn \ {t} : turns'[u] = turns[u],
         turns'[t].step \in {"find", "check", "claim", "done"},
         turns'[t].run \in Run, turns'[t].entry \in Entry,
         turns'[t].step = "check" => turns'[t].entry \in Answer,
         turns'[t].outcome # "none" => turns'[t].step = "done",
         turns'[t].outcome \notin {"cancelled", "expired", "resolved"},
         turns'[t].outcome = "replay" /\ turns'[t].entry # Cancel =>
           /\ rows[turns'[t].run].status = "RESOLVED"
           /\ rows[turns'[t].run].hash = turns'[t].entry,
         UNCHANGED <<at, waiting, rows, pub, told, sent, applied, replied>>
  PROVE  IInv'
<1> USE DEF IInv
<1>1. TypeOK' /\ Asked'
  BY DEF TypeOK, Asked
<1>2. InHand' /\ ClaimIsHeld' /\ SoleClaim' /\ SentUnderClaim'
  BY DEF InHand, Claiming, ClaimIsHeld, SoleClaim, SentUnderClaim
<1>3. ToldByRow'
  BY DEF ToldByRow
<1>4. ResolvedIsReplied' /\ OneFollowUp' /\ PublishedMatchesRow'
  BY DEF ResolvedIsReplied, OneFollowUp, PublishedMatchesRow
<1> QED BY <1>1, <1>2, <1>3, <1>4

LEMMA ResumeKeepsIInv ==
  ASSUME IInv, NEW t \in Turn, NEW r \in Run, NEW e \in Entry, Resume(t, r, e)
  PROVE  IInv'
<1>1. /\ turns' \in [Turn -> TurnState]
      /\ \A u \in Turn \ {t} : turns'[u] = turns[u]
      /\ turns'[t] = [step |-> "find", run |-> r, entry |-> e,
                      outcome |-> "none"]
  BY DEF Resume, IInv, TypeOK, TurnState
<1> QED BY <1>1, TurnMoves DEF Resume

LEMMA LookKeepsIInv ==
  ASSUME IInv, NEW t \in Turn, Find(t) \/ CheckTask(t) \/ Crash(t)
  PROVE  IInv'
<1>0. /\ turns[t].step # "idle" /\ turns[t].step # "done"
      /\ UNCHANGED <<at, waiting, rows, pub, told, sent, applied, replied>>
  BY DEF Find, CheckTask, Crash
<1>1. /\ turns[t].run \in Run /\ turns[t].entry \in Entry
      /\ turns[t].outcome = "none"
  BY <1>0 DEF IInv, InHand
<1>2. CASE \E o \in {"not_found", "invalid", "conflict", "failed"} : Reply(t, o)
  BY <1>0, <1>1, <1>2, ReplyEnds, TurnMoves DEF IInv, Outcome
<1>3. CASE Continue(t, "claim")
  BY <1>0, <1>1, <1>3, ContinueGoesOn, TurnMoves DEF IInv
<1>4. CASE Continue(t, "check") /\ turns[t].entry # Cancel
  BY <1>0, <1>1, <1>4, ContinueGoesOn, TurnMoves DEF IInv, Entry
<1> QED BY <1>2, <1>3, <1>4 DEF Find, CheckTask, Crash

-----------------------------------------------------------------------------
(* Nothing was sent for a row that is still OPEN, and no client was told   *)
(* how it ended.                                                           *)
LEMMA OpenIsUntouched ==
  ASSUME IInv, NEW r \in Run, rows[r].status = "OPEN"
  PROVE  /\ \A x \in sent : x[2] \in Run \ {r}
         /\ \A u \in Turn :
              \/ turns[u].outcome \in {"cancelled", "expired"}
              \/ turns[u].outcome \in {"resolved", "replay"}
                   /\ turns[u].entry # Cancel
              => turns[u].run \in Run \ {r}
<1> USE DEF IInv
<1>1. \A x \in sent : x[2] \in Run \ {r}
  BY DEF TypeOK, SentUnderClaim
<1>2. \A u \in Turn : turns[u].outcome # "none" => turns[u].run \in Run
  BY DEF InHand
<1> QED BY <1>1, <1>2 DEF ToldByRow

(* What the rows look like after one of them got a status and a hash.      *)
LEMMA RowChanges ==
  ASSUME TypeOK, PublishedMatchesRow, NEW r \in Run,
         NEW s \in {"RESOLVING", "RESOLVED", "CANCELLED"},
         NEW h \in Entry \cup {None},
         s = "CANCELLED" => h \in {Cancel, None}, s # "CANCELLED" => h \in Answer,
         rows[r].status # "ABSENT",
         rows' = [rows EXCEPT ![r].status = s, ![r].hash = h]
  PROVE  /\ rows' \in [Run -> Row] /\ \A p \in Run : WellFormed(rows'[p])
         /\ rows'[r].status = s /\ rows'[r].hash = h
         /\ \A p \in Run \ {r} : rows'[p] = rows[p]
         /\ \A x \in told : rows'[x[1]].question = Questions[x[2]]
<1> DEFINE new == [rows[r] EXCEPT !.status = s, !.hash = h]
<1>0. /\ new \in Row /\ new.status = s /\ new.hash = h
      /\ new.question = rows[r].question
  <2>1. rows[r] \in Row
    BY DEF TypeOK
  <2> QED BY <2>1 DEF Row
<1>1. /\ rows'[r].status = s /\ rows'[r].hash = h
      /\ rows'[r].question = rows[r].question
      /\ \A p \in Run \ {r} : rows'[p] = rows[p]
  BY <1>0 DEF TypeOK
<1>2. rows' \in [Run -> Row]
  <2>1. rows' = [rows EXCEPT ![r] = new]
    BY DEF TypeOK
  <2> HIDE DEF new
  <2> QED BY <1>0, <2>1 DEF TypeOK
<1>3. \A p \in Run : WellFormed(rows'[p])
  BY <1>1 DEF TypeOK, WellFormed
<1>4. \A x \in told : rows'[x[1]].question = Questions[x[2]]
  BY <1>1 DEF TypeOK, PublishedMatchesRow
<1> QED BY <1>1, <1>2, <1>3, <1>4

(* An OPEN row that is closed: no turn had claimed it, and nothing was     *)
(* sent for it.                                                            *)
LEMMA CloseKeepsIInv ==
  ASSUME IInv, NEW t \in Turn, NEW o \in {"cancelled", "expired"},
         NEW h \in {Cancel, None}, turns[t].step = "claim",
         rows[turns[t].run].status = "OPEN",
         rows' = [rows EXCEPT ![turns[t].run].status = "CANCELLED",
                              ![turns[t].run].hash = h],
         Reply(t, o), UNCHANGED <<at, waiting, pub, told, sent, applied, replied>>
  PROVE  IInv'
<1> USE DEF IInv
<1> DEFINE r == turns[t].run
<1>0. r \in Run /\ turns[t].entry \in Entry
  BY DEF InHand
<1>1. /\ turns' \in [Turn -> TurnState]
      /\ \A u \in Turn \ {t} : turns'[u] = turns[u]
      /\ turns'[t].step = "done" /\ turns'[t].outcome = o
      /\ turns'[t].run = r /\ turns'[t].entry = turns[t].entry
  BY ReplyEnds DEF Outcome
<1>2. /\ rows' \in [Run -> Row] /\ \A p \in Run : WellFormed(rows'[p])
      /\ rows'[r].status = "CANCELLED"
      /\ \A p \in Run \ {r} : rows'[p] = rows[p]
      /\ \A x \in told : rows'[x[1]].question = Questions[x[2]]
  BY <1>0, RowChanges DEF Entry
<1> HIDE DEF r
<1>3. TypeOK' /\ Asked' /\ PublishedMatchesRow'
  BY <1>1, <1>2 DEF TypeOK, Asked, PublishedMatchesRow
<1>4. rows[r].status = "OPEN"
  BY DEF r
<1>5. InHand' /\ ClaimIsHeld' /\ SoleClaim'
  BY SMTT(40), <1>0, <1>1, <1>2, <1>4 DEF InHand, Claiming, ClaimIsHeld, SoleClaim
<1>6. SentUnderClaim' /\ OneFollowUp'
  BY SMTT(40), <1>0, <1>1, <1>2, <1>4, OpenIsUntouched DEF SentUnderClaim, OneFollowUp
<1>7. ToldByRow'
  BY SMTT(40), <1>0, <1>1, <1>2, <1>4, OpenIsUntouched DEF ToldByRow
<1>8. ResolvedIsReplied'
  BY <1>1, <1>2, <1>4 DEF ResolvedIsReplied
<1> QED BY <1>3, <1>5, <1>6, <1>7, <1>8

LEMMA CancelKeepsIInv ==
  ASSUME IInv, NEW t \in Turn, CancelInterrupt(t) PROVE IInv'
<1> DEFINE r == turns[t].run
<1>0. /\ turns[t].step = "claim" /\ turns[t].entry = Cancel
      /\ UNCHANGED <<at, waiting, pub, told, sent, applied, replied>>
      /\ r \in Run /\ turns[t].entry \in Entry
      /\ turns[t].outcome = "none"
  BY DEF CancelInterrupt, IInv, InHand
<1>1. CASE (\E o \in {"replay", "conflict"} : Reply(t, o)) /\ UNCHANGED rows
  BY <1>0, <1>1, ReplyEnds, TurnMoves DEF IInv, Outcome
<1>2. CASE CloseExpired(t)
  <2>1. rows[r].hash = None
    BY <1>0, <1>2 DEF CloseExpired, IInv, TypeOK, WellFormed
  <2>2. rows' = [rows EXCEPT ![r].status = "CANCELLED", ![r].hash = None]
    BY <1>0, <1>2, <2>1 DEF CloseExpired, IInv, TypeOK, Row
  <2> QED BY <1>0, <1>2, <2>2, CloseKeepsIInv DEF CloseExpired
<1>3. CASE CancelRow(t)
  BY <1>0, <1>3, CloseKeepsIInv DEF CancelRow, TakeRow, OpenUnexpired
<1> QED BY <1>1, <1>2, <1>3 DEF CancelInterrupt

(* The claim of a resolution: the turn takes an OPEN row for itself.       *)
LEMMA AcquireKeepsIInv ==
  ASSUME IInv, NEW t \in Turn, turns[t].step = "claim",
         turns[t].entry \in Answer, Acquires(t),
         UNCHANGED <<at, waiting, pub, told, sent, applied, replied>>
  PROVE  IInv'
<1> USE DEF IInv
<1> DEFINE r == turns[t].run
           e == turns[t].entry
<1>0. r \in Run /\ e \in Entry /\ turns[t].outcome = "none"
  BY DEF InHand
<1>1. /\ turns' \in [Turn -> TurnState]
      /\ \A u \in Turn \ {t} : turns'[u] = turns[u]
      /\ turns'[t].step = "send" /\ turns'[t].outcome = "none"
      /\ turns'[t].run = r /\ turns'[t].entry = e
  BY <1>0, ContinueGoesOn DEF Acquires
<1>2. rows[r].status = "OPEN"
  BY DEF Acquires, TakeRow, OpenUnexpired
<1>3. /\ rows' \in [Run -> Row] /\ \A p \in Run : WellFormed(rows'[p])
      /\ rows'[r].status = "RESOLVING" /\ rows'[r].hash = e
      /\ \A p \in Run \ {r} : rows'[p] = rows[p]
      /\ \A x \in told : rows'[x[1]].question = Questions[x[2]]
  BY <1>0, <1>2, RowChanges DEF Acquires, TakeRow
<1>4. e \in Answer
  OBVIOUS
<1> HIDE DEF r, e
<1>5. TypeOK' /\ Asked' /\ PublishedMatchesRow'
  BY <1>1, <1>3 DEF TypeOK, Asked, PublishedMatchesRow
<1>6. InHand' /\ ClaimIsHeld' /\ SoleClaim'
  BY <1>0, <1>1, <1>2, <1>3, <1>4 DEF InHand, Claiming, ClaimIsHeld, SoleClaim
<1>7. SentUnderClaim' /\ OneFollowUp'
  BY <1>0, <1>1, <1>2, <1>3, OpenIsUntouched DEF SentUnderClaim, OneFollowUp
<1>8. ToldByRow'
  BY <1>0, <1>1, <1>2, <1>3, OpenIsUntouched DEF ToldByRow
<1>9. ResolvedIsReplied'
  BY <1>1, <1>2, <1>3 DEF ResolvedIsReplied
<1> QED BY <1>5, <1>6, <1>7, <1>8, <1>9

LEMMA ClaimKeepsIInv ==
  ASSUME IInv, NEW t \in Turn, ClaimResolution(t) PROVE IInv'
<1> DEFINE r == turns[t].run
           e == turns[t].entry
<1>0. /\ turns[t].step = "claim" /\ e # Cancel
      /\ UNCHANGED <<at, waiting, pub, told, sent, applied, replied>>
      /\ r \in Run /\ e \in Entry /\ e \in Answer
      /\ turns[t].outcome = "none"
  BY DEF ClaimResolution, IInv, InHand, Entry
<1>1. CASE Reply(t, ClaimOutcome(rows[r], e)) /\ UNCHANGED rows
  <2> DEFINE o == ClaimOutcome(rows[r], e)
  <2>1. /\ o \in {"replay", "in_progress", "conflict"}
        /\ o = "replay" => rows[r].status = "RESOLVED" /\ rows[r].hash = e
    BY DEF ClaimOutcome
  <2> HIDE DEF o
  <2>2. Reply(t, o)
    BY <1>1 DEF o
  <2> QED BY <1>0, <1>1, <2>1, <2>2, ReplyEnds, TurnMoves DEF IInv, Outcome
<1>2. CASE CloseExpired(t)
  <2>1. rows[r].hash = None
    BY <1>0, <1>2 DEF CloseExpired, IInv, TypeOK, WellFormed
  <2>2. rows' = [rows EXCEPT ![r].status = "CANCELLED", ![r].hash = None]
    BY <1>0, <1>2, <2>1 DEF CloseExpired, IInv, TypeOK, Row
  <2> QED BY <1>0, <1>2, <2>2, CloseKeepsIInv DEF CloseExpired
<1>3. CASE Acquires(t)
  BY <1>0, <1>3, AcquireKeepsIInv
<1> QED BY <1>1, <1>2, <1>3 DEF ClaimResolution

-----------------------------------------------------------------------------
(* The one follow-up of a claim: the turn has sent nothing before, and no  *)
(* other turn has its row.                                                 *)
LEMMA FollowUpKeepsIInv ==
  ASSUME IInv, NEW t \in Turn, FollowUp(t) PROVE IInv'
<1> USE DEF IInv
<1> DEFINE r == turns[t].run
           e == turns[t].entry
<1>0. /\ turns[t].step = "send" /\ r \in Run /\ e \in Answer /\ e \in Entry
      /\ turns[t].outcome = "none"
      /\ rows[r].status = "RESOLVING" /\ rows[r].hash = e
  BY DEF FollowUp, InHand, Claiming, ClaimIsHeld
<1>1. /\ UNCHANGED <<at, rows, pub, told>>
      /\ sent' = sent \cup {<<t, r, e>>}
      /\ (replied' = replied \/ replied' = replied \cup {<<r, e>>})
  BY DEF FollowUp
<1>2. /\ turns' \in [Turn -> TurnState]
      /\ \A u \in Turn \ {t} : turns'[u] = turns[u]
      /\ turns'[t].step \in {"complete", "done"}
      /\ turns'[t].outcome \in {"none", "failed"}
      /\ turns'[t].outcome # "none" => turns'[t].step = "done"
      /\ turns'[t].run = r /\ turns'[t].entry = e
  <2>1. CASE Continue(t, "complete")
    BY <1>0, <2>1, ContinueGoesOn
  <2>2. CASE Reply(t, "failed")
    BY <1>0, <2>2, ReplyEnds DEF Outcome
  <2> QED BY <2>1, <2>2 DEF FollowUp
<1>3. \/ /\ applied' = applied \cup {<<r, at, e>>}
         /\ at \in 1..Len(Questions) /\ ~waiting'
      \/ UNCHANGED <<applied, waiting>>
  <2>1. CASE StillAsked(rows[r].question)
    <3>1. at \in 1..Len(Questions)
      BY <2>1, QuestionFacts DEF StillAsked, TypeOK, Asked
    <3> QED BY <3>1 DEF FollowUp
  <2>2. CASE ~StillAsked(rows[r].question)
    BY <2>2 DEF FollowUp
  <2> QED BY <2>1, <2>2
<1>12. turns'[t].step = "complete" => <<r, e>> \in replied'
  <2>1. CASE Reply(t, "failed")
    BY <1>0, <2>1, ReplyEnds DEF Outcome
  <2>2. CASE replied' = replied \cup {<<r, e>>}
    BY <2>2
  <2> QED BY <2>1, <2>2 DEF FollowUp
<1>4. waiting' \in BOOLEAN
  BY DEF FollowUp, TypeOK
<1> HIDE DEF r, e
<1>5. TypeOK' /\ Asked' /\ PublishedMatchesRow'
  BY <1>0, <1>1, <1>2, <1>3, <1>4 DEF TypeOK, Asked, PublishedMatchesRow
<1>6. InHand' /\ ClaimIsHeld' /\ SoleClaim'
  BY <1>0, <1>1, <1>2 DEF r, e, InHand, Claiming, ClaimIsHeld, SoleClaim
<1>7. \A x \in sent : x[2] # r
  BY <1>0 DEF r, SentUnderClaim
<1>8. SentUnderClaim'
  <2>1. \A u \in Turn \ {t} : turns[u].step = "send" => turns[u].run # r
    BY <1>0 DEF r, Claiming, SoleClaim
  <2> QED BY <1>0, <1>1, <1>2, <2>1 DEF SentUnderClaim
<1>9. OneFollowUp'
  BY <1>1, <1>7 DEF OneFollowUp
<1>10. ToldByRow'
  BY <1>1, <1>2 DEF ToldByRow
<1>11. ResolvedIsReplied'
  <2>1. \A x \in replied : x \in replied'
    BY <1>1
  <2>2. \A p \in Run : rows'[p].status = "RESOLVED" => <<p, rows'[p].hash>> \in replied'
    BY <1>1, <2>1 DEF ResolvedIsReplied
  <2>3. \A u \in Turn \ {t} : turns'[u].step = "complete" =>
                              <<turns'[u].run, turns'[u].entry>> \in replied'
    BY <1>2, <2>1 DEF ResolvedIsReplied
  <2> QED BY <1>2, <1>12, <2>2, <2>3 DEF ResolvedIsReplied
<1> QED BY <1>5, <1>6, <1>8, <1>9, <1>10, <1>11

(* The completion of a claim: the row still is as the claim made it.       *)
LEMMA CompleteKeepsIInv ==
  ASSUME IInv, NEW t \in Turn, Complete(t) PROVE IInv'
<1> USE DEF IInv
<1> DEFINE r == turns[t].run
           e == turns[t].entry
<1>0. /\ turns[t].step = "complete" /\ r \in Run /\ e \in Answer
      /\ e \in Entry /\ rows[r].status = "RESOLVING" /\ rows[r].hash = e
      /\ UNCHANGED <<at, waiting, pub, told, sent, applied, replied>>
  BY DEF Complete, InHand, Claiming, ClaimIsHeld
<1>1. /\ turns' \in [Turn -> TurnState]
      /\ \A u \in Turn \ {t} : turns'[u] = turns[u]
      /\ turns'[t].step = "done" /\ turns'[t].outcome = "resolved"
      /\ turns'[t].run = r /\ turns'[t].entry = e
  BY <1>0, ReplyEnds DEF Complete, Outcome
<1>2. /\ rows' \in [Run -> Row] /\ \A p \in Run : WellFormed(rows'[p])
      /\ rows'[r].status = "RESOLVED" /\ rows'[r].hash = e
      /\ \A p \in Run \ {r} : rows'[p] = rows[p]
      /\ \A x \in told : rows'[x[1]].question = Questions[x[2]]
  <2>1. rows' = [rows EXCEPT ![r].status = "RESOLVED"]
    BY <1>0 DEF Complete
  <2>2. rows \in [Run -> Row]
    BY DEF TypeOK
  <2> HIDE DEF r, e
  <2>3. rows' = [rows EXCEPT ![r].status = "RESOLVED", ![r].hash = e]
    BY <1>0, <2>1, <2>2 DEF Row
  <2> QED BY <1>0, <2>3, RowChanges DEF r, e
<1>3. \A u \in Turn \ {t} : Claiming(u) => turns[u].run # r
  BY <1>0 DEF Claiming, SoleClaim
<1>4. <<r, e>> \in replied
  BY <1>0 DEF ResolvedIsReplied
<1> HIDE DEF r, e
<1>5. TypeOK' /\ Asked' /\ PublishedMatchesRow'
  BY <1>0, <1>1, <1>2 DEF TypeOK, Asked, PublishedMatchesRow
<1>6. InHand' /\ ClaimIsHeld' /\ SoleClaim'
  BY <1>0, <1>1, <1>2, <1>3 DEF InHand, Claiming, ClaimIsHeld, SoleClaim
<1>7. SentUnderClaim' /\ OneFollowUp'
  <2>1. \A x \in sent : x[2] \in Run
    BY DEF TypeOK
  <2> QED BY <1>0, <1>1, <1>2, <2>1 DEF SentUnderClaim, OneFollowUp
<1>8. ToldByRow'
  <2>1. \A u \in Turn : turns[u].outcome # "none" => turns[u].run \in Run
    BY DEF InHand
  <2> QED BY <1>0, <1>1, <1>2, <2>1 DEF ToldByRow
<1>9. ResolvedIsReplied'
  BY <1>0, <1>1, <1>2, <1>4 DEF ResolvedIsReplied
<1> QED BY <1>5, <1>6, <1>7, <1>8, <1>9

-----------------------------------------------------------------------------
LEMMA NextIInv == IInv /\ [Next]_vars => IInv'
<1> SUFFICES ASSUME IInv, [Next]_vars PROVE IInv'
  OBVIOUS
<1>1. CASE Ask \/ MoveOn
  BY <1>1, TaskKeepsIInv
<1>2. ASSUME NEW r \in Run, Expire(r) \/ Observe(r) \/ FindOpen(r) \/ Create(r)
      PROVE  IInv'
  BY <1>2, ExpireKeepsIInv, ObserveKeepsIInv, FindOpenKeepsIInv,
     CreateKeepsIInv
<1>3. ASSUME NEW t \in Turn, NEW r \in Run, NEW e \in Entry, Resume(t, r, e)
      PROVE  IInv'
  BY <1>3, ResumeKeepsIInv
<1>4. ASSUME NEW t \in Turn, Find(t) \/ CheckTask(t) \/ Crash(t) PROVE IInv'
  BY <1>4, LookKeepsIInv
<1>5. ASSUME NEW t \in Turn, CancelInterrupt(t) \/ ClaimResolution(t) PROVE IInv'
  BY <1>5, CancelKeepsIInv, ClaimKeepsIInv
<1>6. ASSUME NEW t \in Turn, FollowUp(t) \/ Complete(t) PROVE IInv'
  BY <1>6, FollowUpKeepsIInv, CompleteKeepsIInv
<1>7. CASE UNCHANGED vars
  BY <1>7
  DEF vars, IInv, TypeOK, InHand, Asked, Claiming, ClaimIsHeld, SoleClaim,
      SentUnderClaim, ToldByRow, ResolvedIsReplied, OneFollowUp,
      PublishedMatchesRow
<1> QED BY <1>1, <1>2, <1>3, <1>4, <1>5, <1>6, <1>7 DEF Next

LEMMA Invariance == Spec => []IInv
BY InitIInv, NextIInv, PTL DEF Spec

(* The interrupts, the runs that publish them and the turns that resume    *)
(* them always have their types, and every row is one the table accepts.   *)
THEOREM TypeCorrect == Spec => []TypeOK
<1>1. IInv => TypeOK
  BY DEF IInv
<1> QED BY <1>1, Invariance, PTL

(* The Task is sent at most one follow-up for an interrupt, whatever the   *)
(* number of resumes, retries, lost replies and crashes.                   *)
THEOREM OneFollowUpIsSent == Spec => []OneFollowUp
<1>1. IInv => OneFollowUp
  BY DEF IInv
<1> QED BY <1>1, Invariance, PTL

(* Whoever was told that an interrupt was cancelled or had expired can     *)
(* rely on it: nothing was sent for it and nothing will be.                *)
THEOREM CancelledStaysSilent == Spec => []CancelledSendsNothing
<1>1. IInv => CancelledSendsNothing
  BY DEF IInv, CancelledSendsNothing, ToldByRow, SentUnderClaim
<1> QED BY <1>1, Invariance, PTL

(* A resume reported as done, by its turn or by a replay, is an answer     *)
(* that SDAR replied to.                                                   *)
THEOREM WhatIsToldIsTrue == Spec => []ToldIsTrue
<1>1. IInv => ToldIsTrue
  <2> SUFFICES ASSUME IInv, NEW t \in Turn,
                      turns[t].outcome \in {"resolved", "replay"},
                      turns[t].entry # Cancel
               PROVE  <<turns[t].run, turns[t].entry>> \in replied
    BY DEF ToldIsTrue
  <2>1. turns[t].run \in Run
    BY DEF IInv, InHand
  <2>2. /\ rows[turns[t].run].status = "RESOLVED"
        /\ rows[turns[t].run].hash = turns[t].entry
    BY DEF IInv, ToldByRow
  <2> QED BY <2>1, <2>2 DEF IInv, ResolvedIsReplied
<1> QED BY <1>1, Invariance, PTL

(* The question a client was shown under an interrupt id is the one that   *)
(* the durable row will be resumed with.                                   *)
THEOREM PublishedIsDurable == Spec => []PublishedMatchesRow
<1>1. IInv => PublishedMatchesRow
  BY DEF IInv
<1> QED BY <1>1, Invariance, PTL
=============================================================================
