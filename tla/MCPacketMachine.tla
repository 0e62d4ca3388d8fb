-------------------------- MODULE MCPacketMachine --------------------------
(* Instances of PacketMachine for TLC: the events producers write.           *)
EXTENDS PacketMachine

CONSTANTS p1, p2, p3, l2v, r1, r2

EvOf(p, name, run, att, pre) ==
  [pid |-> p, name |-> name, run |-> run, att |-> att, prespawn |-> pre, src |-> "producer"]

Ev(name, run, att, pre) == EvOf(p1, name, run, att, pre)

\* An event without a generation, as people and verdict consumers write them.
Plain(name) == Ev(name, NoRun, NoAttempt, FALSE)

\* Packet p1, two runs that race for it: their stops and failures, the rejection
\* of its report and a retry.
Transport ==
  [runs |-> {r1}, events |-> 6, crashes |-> 1,
   inputs |->
     { Plain(n) : n \in {"planned", "dag_assert_pass", "acceptance_fail"} }
     \cup { Ev("dispatched", r, 0, FALSE) : r \in {r1, r2} }
     \cup { Ev("subagent_stop", r1, 0, FALSE), Ev("exec_failed", r1, 0, FALSE),
            Ev("exec_failed", r2, 0, TRUE), Ev("retry_dispatch", NoRun, 1, FALSE) }
     \cup { [Plain("subagent_stop") EXCEPT !.pid = l2v] }]

\* Packet p2, seeded DISPATCHABLE: timeouts, duty rulings and retries past the cap.
Retrying ==
  [runs |-> {r1}, events |-> 7, crashes |-> 1,
   inputs |->
     { EvOf(p2, n, NoRun, NoAttempt, FALSE) : n \in {"duty_triage", "duty_retryable"} }
     \cup { EvOf(p2, "dispatched", r1, a, FALSE) : a \in {0, 1} }
     \cup { EvOf(p2, "retry_dispatch", NoRun, a, FALSE) : a \in {1, 2} }]

\* Packet p3, adjudication: expansion, replans past the cap, dead-letter summaries.
Replanning ==
  [runs |-> {}, events |-> 13, crashes |-> 2,
   inputs |-> { EvOf(p3, n, NoRun, NoAttempt, FALSE) :
                  n \in {"skeleton_ready", "expansion_invalid", "sol_replan",
                         "dead_letter_summary"} }]

Scenario(p) == IF p = p1 THEN Transport ELSE IF p = p2 THEN Retrying ELSE Replanning

AllInputs == UNION { Scenario(p).inputs : p \in {p1, p2, p3} }

\* Nothing has happened to the packet.
Untouched(p) ==
  /\ disk.packets[p] = NewPkt(p) /\ led.packets[p] = NewPkt(p)
  /\ spawnTimes[p] = NoStamp
  /\ \A i \in 1..Len(log) : log[i].pid # p

\* ACTION_CONSTRAINT: a behaviour is about one packet and its scenario.
OneScenario ==
  LET end == disk.cursor + Len(log)
      appended == disk'.cursor + Len(log') > end
      e == log'[Len(log')]
      Alone(p) == \A q \in Packets \ {p} : Untouched(q)
  IN /\ appended /\ e.src = "producer" =>
          \E p \in Packets :
            e \in Scenario(p).inputs /\ end < Scenario(p).events /\ Alone(p)
     /\ \A p \in Packets : spawnTimes'[p] # spawnTimes[p] =>
          spawnTimes'[p].run \in Scenario(p).runs /\ Alone(p)
     /\ \A p \in Packets : Untouched(p) \/ crashes' <= Scenario(p).crashes

\* Verification of a report, with verifier failures, a redo and duty rulings.
VerifyInputs ==
  { Plain("l2_requested"), Plain("exec_failed"), Ev("dispatched", r1, 0, FALSE),
    Ev("dispatched", r1, 1, FALSE), Ev("retry_dispatch", NoRun, 1, FALSE),
    Ev("exec_failed", r1, 0, TRUE), Plain("duty_triage"), Plain("duty_retryable") }

\* A dispatcher whose births are throttled.
ThrottleInputs == { Ev("spawn_throttled", r1, 0, FALSE) }

============================================================================
