----------------------------- MODULE MCDispatch -----------------------------
(* Two dispatchers, one with two packets, that race for one of them.           *)
EXTENDS Dispatch, TLC

CONSTANTS d1, d2, p1, p2

MCAgents == {d1, d2} \X {p1, p2}
MCWave == d1 :> <<p1, p2>> @@ d2 :> <<p1>>
MCCost == [r \in {"worker", "duty_officer", "verifier", "sol"} |-> IF r = "verifier" THEN 3 ELSE 2]
MCPlans == {[r \in {"worker", "duty_officer", "verifier", "sol"} |->
               IF r \in {"worker", "verifier"} THEN 1 ELSE 0]}

\* ACTION_CONSTRAINT: one run reports its usage and is extended.
OneReporter ==
  /\ used' = used \/ used' = [used EXCEPT ![<<d1, p1>>] = used'[<<d1, p1>>]] \/ task' # task
  /\ \A a \in Agents \ {<<d1, p1>>} :
       alloc'[a] = alloc[a] \/ alloc'[a] = 0 \/ alloc[a] = 0

\* ACTION_CONSTRAINT: only the first dispatcher is told to use a duty officer.
OneDuty == chosen'[d2].role # "duty_officer"
=============================================================================
