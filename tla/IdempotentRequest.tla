------------------------- MODULE IdempotentRequest --------------------------
(***************************************************************************)
(* What the request ledger promises to a client, with no leases, owners or *)
(* crashes: a request identity is decided at most once, for one content    *)
(* and with one result, and whoever is answered for that identity is       *)
(* answered with the decided result.                                       *)
(***************************************************************************)
CONSTANTS Key, Content, Asker, Result, None

VARIABLES
  decided,  \* per key: None, or the content and result it was decided with
  answer    \* per asker: None, or what it has been told about which key

Decision == [hash : Content, result : Result]
Answer   == [key : Key, hash : Content, result : Result]

Init ==
  /\ decided = [k \in Key |-> None]
  /\ answer = [a \in Asker |-> None]

(* The first answer for a key decides it.                                  *)
Decide(a, k, h, r) ==
  /\ decided[k] = None
  /\ answer[a] = None
  /\ decided' = [decided EXCEPT ![k] = [hash |-> h, result |-> r]]
  /\ answer' = [answer EXCEPT ![a] = [key |-> k, hash |-> h, result |-> r]]

(* A later asker with the same content gets the decided result.            *)
Repeat(a, k, h) ==
  /\ decided[k] # None
  /\ decided[k].hash = h
  /\ answer[a] = None
  /\ answer' = [answer EXCEPT ![a] =
                  [key |-> k, hash |-> h, result |-> decided[k].result]]
  /\ UNCHANGED decided

(* Askers forget: a turn ends, or the process that ran it dies.            *)
Forget(A) ==
  /\ answer' = [a \in Asker |-> IF a \in A THEN None ELSE answer[a]]
  /\ UNCHANGED decided

Next ==
  \/ \E a \in Asker, k \in Key, h \in Content :
       \/ Repeat(a, k, h)
       \/ \E r \in Result : Decide(a, k, h, r)
  \/ \E A \in SUBSET Asker : Forget(A)

Spec == Init /\ [][Next]_<<decided, answer>>
=============================================================================
