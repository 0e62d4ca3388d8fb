---------------------------- MODULE MCPacketLoop ----------------------------
(***************************************************************************)
(* Packets that fail over and over, with one transient and one semantic    *)
(* failure class.                                                          *)
(***************************************************************************)
EXTENDS PacketLoop

MCPackets == {"p"}
MCClasses == {"timeout", "semantic"}
MCAction == [k \in MCClasses |-> IF k = "timeout" THEN "retry" ELSE "duty_review"]
MCMaxRetries == [k \in MCClasses |-> 1]

\* While a step holds the lock the others read only the ledger committed before it and append:
\* what they do in between they could do just after, with the same effect.
StepUninterrupted == stepper # "nobody" => ApplyEvent \/ StepEnds

\* A behaviour has an operator at retry.py or a replan, not both.
Replanned == \E p \in Packets : mem[p].replans > 0 \/ Unread(p, {"sol_replan"})
OneHand == ~(Replanned' /\ manual' > 0)
=============================================================================
