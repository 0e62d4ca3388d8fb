--------------------------- MODULE MCAcceptance ---------------------------
(***************************************************************************)
(* Two packets, one of them sampled, two evaluators and three evaluations: *)
(* enough to exceed a cap of one while they race and die.                  *)
(***************************************************************************)
EXTENDS Acceptance

MCPackets == {"p", "q"}
MCSampled == {"p"}
MCEvaluators == {"e1", "e2"}

\* One attempt for each action of the table, and one on a path of the rail.
MCArtifacts ==
  LET clean == [NoArtifacts EXCEPT !.rcs = <<0>>, !.added = 5, !.diff_budget = 10] IN
  {clean,
   [clean EXCEPT !.rcs = <<1, 0>>, !.attempts = 1],
   [clean EXCEPT !.rcs = <<0, 1, 0>>],
   [clean EXCEPT !.cmds = [i \in 1..10 |-> "make"]],
   [clean EXCEPT !.reviews = {"regex_no_match"}],
   [clean EXCEPT !.paths = {"migration"}]}

\* A result that passes, one that contradicts itself, one that asks, and two that break the contract.
MCDocuments ==
  {ShortResult("completed", "none", 0, "none", 0),
   ShortResult("completed", "redo", 1, "none", 0),
   ShortResult("completed", "redo", 0, "none", 0),
   ShortResult("blocked", "none", 0, "asked", 0),
   ShortResult("completed", "escalate_l2_5", 9, "none", 0),
   [ShortResult("completed", "none", 0, "none", 0) EXCEPT !.conclusion = "long"]}
=============================================================================
