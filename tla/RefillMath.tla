----------------------------- MODULE RefillMath -----------------------------
(***************************************************************************)
(* The arithmetic of sustained refill: how many children each pool and     *)
(* each parent session may still be given.  RefillControllerV2.recompute() *)
(* (harness/refill_controller_v2.py) drives the actuator; the v1           *)
(* controller (refill_controller.py) is what the Desktop hooks recompute.  *)
(***************************************************************************)
EXTENDS Integers, FiniteSets, Sequences, FiniteSetsExt

CONSTANTS
  Parents,        \* parent sessions that have registered
  Target, LowWater, \* of each pool
  TargetTotal,    \* all children together
  ParentTarget    \* children of one parent

Pool == {"v4", "k3"}
Each(N(_)) == [v4 |-> N("v4"), k3 |-> N("k3")]
None == Each(LAMBDA p : 0)

ASSUME TargetsOK ==
  /\ IsFiniteSet(Parents) /\ Target \in [Pool -> Nat] /\ LowWater \in [Pool -> Nat]
  /\ \A p \in Pool : LowWater[p] <= Target[p]
  /\ TargetTotal \in Nat /\ ParentTarget \in Nat

Least(a, b) == IF a <= b THEN a ELSE b
Most(a, b) == IF a <= b THEN b ELSE a
Positive(n) == Most(0, n)
Total(f) == f["v4"] + f["k3"]

\* _split_deficit(): largest remainder, v4 first when they are equal.
Split(total, pending) ==
  LET grand == Total(pending)
      Floor(p) == (total * pending[p]) \div grand
      Rest(p) == (total * pending[p]) % grand
      first == IF Rest("k3") > Rest("v4") THEN "k3" ELSE "v4"
      left == total - Floor("v4") - Floor("k3")
      Extra(p, n) == IF n > 0 /\ Floor(p) < pending[p] THEN 1 ELSE 0
      Bonus(p) == IF p = first THEN Extra(p, left)
                  ELSE Extra(p, left - Extra(first, left))
  IN IF total <= 0 \/ grand <= 0 THEN None
     ELSE Each(LAMBDA p : Least(Floor(p) + Bonus(p), pending[p]))

\* A pool alone with work borrows the reservation of the other.
Borrowed(pending, preferred, whole) ==
  LET active == {p \in Pool : pending[p] > 0}
  IN IF Cardinality(active) = 1 THEN Each(LAMBDA p : IF p \in active THEN whole ELSE 0)
     ELSE preferred

\* What a parent still misses: its work, up to its target.
ParentDebt(queued, seen) == Least(Total(queued), Positive(ParentTarget - seen.running))

\* Room for births; starting children reserve it.
Capacity(counts) == Positive(TargetTotal - Total(counts.running) - Total(counts.starting))

\* Mutant: starting children do not reserve room.
Capacity_RunningOnly(counts) == Positive(TargetTotal - Total(counts.running))

\* recompute(): work is [pool, parent], counts [running, starting, parent].
Recompute(work, counts, finalized, active) ==
  LET pending == work.pool
      targets == Borrowed(pending, Target, TargetTotal)
      debt == [s \in Parents |-> IF s \in active THEN ParentDebt(work.parent[s], counts.parent[s])
                                 ELSE 0]
      demand == Each(LAMBDA p : MapThenSumSet(LAMBDA s : Split(debt[s], work.parent[s])[p], Parents))
      required == {p \in Pool : /\ ~finalized /\ pending[p] > 0
                                /\ counts.running[p] < targets[p] \/ demand[p] > 0}
      rawDebt == Each(LAMBDA p :
                   IF p \in required
                   THEN Most(Least(pending[p], Positive(targets[p] - counts.running[p])), demand[p])
                   ELSE 0)
      rawSpawn == Each(LAMBDA p : Positive(rawDebt[p] - counts.starting[p]))
      room == Capacity(counts)
      Room(s) == Positive(ParentTarget - counts.parent[s].running - counts.parent[s].starting)
  IN [deficit |-> Split(Least(Total(rawSpawn), room), rawSpawn),
      spawnable |-> [s \in Parents |-> Split(Least(Least(debt[s], Room(s)), room), work.parent[s])],
      unfulfilled |-> rawDebt,
      finalized |-> finalized]

\* The v1 recompute(): required below low water; the host's cap, its starting children
\* and a spawn backoff (waits) bound the births.
RecomputeV1(pending, counts, finalized, cap, maxStarting, waits) ==
  LET targets == Borrowed(pending, Target, TargetTotal)
      lows == Borrowed(pending, LowWater, Least(TargetTotal, Total(LowWater)))
      required == {p \in Pool : ~finalized /\ pending[p] > 0 /\ counts.running[p] < lows[p]}
      rawDebt == Each(LAMBDA p :
                   IF p \in required THEN Least(pending[p], Positive(targets[p] - counts.running[p]))
                   ELSE 0)
      rawSpawn == Each(LAMBDA p : Positive(rawDebt[p] - counts.starting[p]))
      held == Total(counts.running) + Total(counts.starting)
      room == IF waits THEN 0
              ELSE Least(Least(Positive(cap - held - counts.reclaimable),
                               Positive(TargetTotal - held)),
                         Positive(maxStarting - Total(counts.starting)))
  IN [deficit |-> Split(Least(Total(rawSpawn), room), rawSpawn), unfulfilled |-> rawDebt]
=============================================================================
