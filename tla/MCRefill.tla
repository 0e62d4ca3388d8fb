------------------------------ MODULE MCRefill ------------------------------
(***************************************************************************)
(* Two packets, one of a pool and a parent each, beside a Desktop child.   *)
(***************************************************************************)
EXTENDS Refill

MCPackets == 1..2
MCPoolOf == [p \in MCPackets |-> IF p = 2 THEN "k3" ELSE "v4"]
MCParents == {"s"}
MCParentOf == [p \in MCPackets |-> IF p = 1 THEN "none" ELSE "s"]
MCBuckets == <<"none", "s">>
MCTarget == [p \in Pool |-> 1]

\* The arithmetic over small queues and rosters: a pool is never given more than its work or
\* than the room there is, and work with room is given something.
Small == {Each(LAMBDA p : IF p = "v4" THEN a ELSE b) : a, b \in 0..2}
ASSUME SplitIsExact ==
  \A want \in 0..4, pending \in Small :
    /\ Total(Split(want, pending)) = Least(want, Total(pending))
    /\ \A p \in Pool : Split(want, pending)[p] \in 0..pending[p]

Seen(running, starting) ==
  [running |-> running, starting |-> starting, reclaimable |-> 0,
   parent |-> [s \in Parents |-> [running |-> 0, starting |-> 0]]]
Work(pending) == [pool |-> pending, parent |-> [s \in Parents |-> None]]
ASSUME DebtFitsRoom ==
  \A pending, running, starting \in Small :
    LET seen == Seen(running, starting)
        debt == Recompute(Work(pending), seen, FALSE, {}).deficit
        v1 == RecomputeV1(pending, seen, FALSE, TargetTotal, 8, FALSE).deficit
    IN /\ Total(debt) <= Capacity(seen)
       /\ \A p \in Pool : debt[p] <= pending[p]
       /\ Total(v1) <= Total(debt)
       /\ Total(pending) > 0 /\ Total(running) + Total(starting) = 0 /\ TargetTotal > 0 => Total(debt) > 0
=============================================================================
