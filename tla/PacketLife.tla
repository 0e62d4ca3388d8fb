----------------------------- MODULE PacketLife -----------------------------
(***************************************************************************)
(* What the packet loop promises of one packet: it waits, runs, is judged; *)
(* a failure is retried, referred to the duty officer or escalated; and no *)
(* chain of failures is endless, because the retries, the rulings that     *)
(* send a packet back to work and the replans are all bounded.  Packets    *)
(* live independently: one step may move several of them.                  *)
(***************************************************************************)
EXTENDS Integers

CONSTANTS Packets,     \* packet ids
          MaxTries,    \* the largest max_retries of the retry classes
          MaxReplans   \* the replan cap

VARIABLE life          \* life[p]: phase of packet p, and what it has used up

Phases == {"waiting", "running", "reported", "failed", "review", "escalated", "accepted"}

Lives == [phase : Phases, tries : 0..MaxTries, reviews : 0..1, replans : 0..MaxReplans]

Init == life = [p \in Packets |-> [phase |-> "waiting", tries |-> 0, reviews |-> 0, replans |-> 0]]

Moves(k, l, from, to) == k.phase \in from /\ l = [k EXCEPT !.phase = to]

Start(k, l)    == Moves(k, l, {"waiting"}, "running")
Report(k, l)   == Moves(k, l, {"running"}, "reported")
Accept(k, l)   == Moves(k, l, {"reported"}, "accepted")
Fail(k, l)     == Moves(k, l, {"running", "reported"}, "failed")
Refer(k, l)    == Moves(k, l, {"failed"}, "review")
Escalate(k, l) == Moves(k, l, Phases, "escalated")

Retry(k, l) ==
  /\ k.phase = "failed" /\ k.tries < MaxTries
  /\ l = [k EXCEPT !.phase = "waiting", !.tries = @ + 1]

\* The duty officer sends a packet back to work once in its life.
Resume(k, l) ==
  /\ k.phase = "review" /\ k.reviews = 0
  /\ l = [k EXCEPT !.phase = "running", !.reviews = 1]

Replan(k, l) ==
  /\ k.phase = "escalated" /\ k.replans < MaxReplans
  /\ l = [k EXCEPT !.phase = "waiting", !.replans = @ + 1]

Lived(k, l) ==
  \/ Start(k, l) \/ Report(k, l) \/ Accept(k, l) \/ Fail(k, l) \/ Refer(k, l)
  \/ Escalate(k, l) \/ Retry(k, l) \/ Resume(k, l) \/ Replan(k, l)

\* Every packet takes a step of its own or none.
Next ==
  /\ life' \in [Packets -> Lives]
  /\ \A p \in Packets : life'[p] = life[p] \/ Lived(life[p], life'[p])

Spec == Init /\ [][Next]_life
=============================================================================
