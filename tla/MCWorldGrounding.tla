-------------------------- MODULE MCWorldGrounding --------------------------
(* Model-checking instance of WorldGrounding: one turn is ambiguous, the   *)
(* other uses the references of the conversation.                          *)
EXTENDS WorldGrounding, TLC
CONSTANTS t1, t2
MCOutcomes == [k \in TurnKey |->
  IF k[2] = "validate" THEN {"COMPLETED", "CANCELLED"}
  ELSE IF k = <<t1, "ask">> THEN {"AMBIGUOUS"} ELSE {"COMPLETED"}]
(* What the resumed query brings is not usable any more.                   *)
MCBare == {<<t1, "resume">>}

(* Operational groundings share no key with turns: they are looked at      *)
(* before the first turn only.                                             *)
Apart == \/ \A k \in Operation : groundings[k].state = "ABSENT"
         \/ attempt = [a \in Attempt |-> IdleAttempt]
            /\ requests = [k \in TurnKey |-> NoRequest]

Symmetry == Permutations(Attempt)
=============================================================================
