----------------------------- MODULE MCChatTurn -----------------------------
(* Values for TLC: Turns may be permuted; the directory orders Tasks. A   *)
(* behaviour sees one of a Task that ends, a refresh and a death.          *)
EXTENDS ChatTurn, TLC

CONSTANTS t1, t2
MCOneBound == <<t1>>
MCTwoBound == <<t1, t2>>
Symmetry == Permutations(Turn)
Apart ==
  Cardinality({e \in {"ended", "refresh", "crash"} :
                 \/ e = "ended" /\ ended # {}
                 \/ e = "refresh" /\ (refresh.pc = "saving" \/ summary.version > 0)
                 \/ e = "crash" /\ crashes > 0}) <= 1
(* Nobody waits to hear an answer.                                         *)
Unheard ==
  /\ ended = {}
  /\ \A o \in Turn :
       /\ turn[o].op # "status"
       /\ turn[o].answer = None \/ turn[o].answer.amount = "none"
(* The Tasks of the list are the same throughout.                          *)
NoneEnds == ended = {} /\ Len(order) = 2
=============================================================================
