--------------------------- MODULE ConversationLog --------------------------
(***************************************************************************)
(* The messages and the summary of one conversation thread:                *)
(* chat_service.conversation_message and conversation_summary. The length  *)
(* of the log is next_message_sequence - 1 of the thread, whose row every  *)
(* insert and every save locks, so each operator below is atomic.          *)
(*                                                                         *)
(* An external id is that of a user message or of an assistant message; a  *)
(* content stands for its SHA-256 hash.                                    *)
(***************************************************************************)
EXTENDS Naturals, Sequences, FiniteSets

CONSTANTS Id, Content

VARIABLES
  log,     \* the messages of the thread, by sequence
  summary  \* version 0: there is none

LogRow == [id : Id, content : Content, truncated : BOOLEAN]
Summary == [version : Nat, through : Nat]

NoSummary == [version |-> 0, through |-> 0]

Sequences(id) == {s \in DOMAIN log : log[s].id = id}
Stored(id) == Sequences(id) # {}

(* insertMessage: a known external id must come with the content it has;   *)
(* it is a duplicate then, and else a conflict that throws.                *)
Clashes_Never(id, c) == FALSE  \* fault: ON CONFLICT DO NOTHING
Clashes(id, c) == \E s \in Sequences(id) : log[s].content # c

Insert(id, c, truncated) ==
  log' = IF Stored(id) THEN log
         ELSE Append(log, [id |-> id, content |-> c, truncated |-> truncated])

(* The sequence at which insertMessage finds, or puts, a message.          *)
SequenceOf_Next(id) == Len(log) + 1  \* fault: a duplicate gets a new sequence
SequenceOf(id) ==
  IF Stored(id) THEN CHOOSE s \in Sequences(id) : TRUE ELSE Len(log) + 1

(* loadRecentMessages: the newest rows of the thread, and the ones of them *)
(* that the assembler keeps: not summarized, and before the current one.   *)
Recent(limit) == {s \in DOMAIN log : s + limit > Len(log)}

Eligible(rows, through, current) == {s \in rows : s > through /\ s < current}

Newest(rows, n) == {s \in rows : Cardinality({u \in rows : u > s}) < n}

(* loadMessagesAfter                                                       *)
Unsummarized == {s \in DOMAIN log : s > summary.through}

(* saveSummary: compare-and-set on the version; it never goes back and     *)
(* never runs ahead of the log.                                            *)
SaveSummary(version, through) ==
  /\ version = summary.version
  /\ through \in summary.through..Len(log)
  /\ summary' = [version |-> version + 1, through |-> through]
=============================================================================
