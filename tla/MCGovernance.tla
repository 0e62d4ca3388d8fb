---------------------------- MODULE MCGovernance ----------------------------
(* The policy moves first, then the world, then the hooks under what they are. *)
EXTENDS Governance

CONSTANTS h1, h2

HooksRest == \A h \in Hooks : at[h] = "idle"
CountersFresh == turns = 0 /\ recon = 0 /\ hyst = [band |-> "NORMAL", above |-> 0, below |-> 0, share |-> NoShare]
WorldFresh ==
  /\ ledger = [readable |-> TRUE, explicit |-> "none", attested |-> FALSE, derived |-> "planning"]
  /\ ~blown /\ meter = [status |-> "MISSING", share |-> NoShare]
NothingAsked == last = [call |-> "ungated", verdict |-> "allow"]

\* A policy under which the hooks run: none authorized, or layered as authorized.
Settled ==
  /\ gate = Idle /\ rehearsal = {} /\ unmet = {} /\ file.edit = 0 /\ loaded = "cold_start"
  /\ IF auth = {} THEN rehearsed = {} /\ hashed = {}
     ELSE file.mode = "layered" /\ rehearsed = hashed

\* ACTION_CONSTRAINT
PolicyFirst ==
  IF policy' # policy THEN HooksRest /\ CountersFresh /\ WorldFresh /\ NothingAsked
  ELSE Settled

\* ACTION_CONSTRAINT: conditions fail under a router that has layered in memory.
FewerPolicies ==
  /\ unmet' # unmet => loaded = "layered" /\ gate = Idle /\ rehearsal = {}
  /\ loaded' # loaded => gate = Idle /\ rehearsal = {} /\ rehearsed = hashed
  /\ rehearsal' # rehearsal \/ hashed' # hashed => loaded = "cold_start"
  /\ file'.mode = "shadow" => auth = {} /\ rehearsed = {} /\ hashed = {} /\ rehearsal' = {}
  /\ file'.edit # file.edit => gate # Idle \/ auth # {}

\* ACTION_CONSTRAINT: one thing is unusual at a time; reports matter in execution.
WorldThen ==
  /\ ledger' # ledger \/ blown' # blown =>
       /\ HooksRest /\ CountersFresh /\ NothingAsked /\ meter.status = "MISSING"
       /\ ledger'.explicit \in {"none", "planning", "execution"}
       /\ ~ledger'.readable \/ blown' => ledger'.explicit = "none" /\ ledger'.derived = "planning"
       /\ ledger'.explicit # "none" => ledger'.derived \in {"planning", "execution"}
  /\ meter' # meter =>
       /\ meter'.status = "OK" \/ hyst.share = NoShare
       /\ file.mode = "layered" /\ StateV2 = "execution" /\ ~blown /\ ledger.readable
       /\ ledger.explicit = "none"

\* ACTION_CONSTRAINT: what no gate looks at happens first.
PassesFirst ==
  last'.call \in (SpawnCalls \ {"spawn_pinned"}) =>
    last' = last \/ (CountersFresh /\ WorldFresh /\ HooksRest)

\* ACTION_CONSTRAINT: an odd call comes alone and first.
OddCallsFirst ==
  \A h \in Hooks : at[h] = "idle" /\ at'[h] # "idle" /\ call'[h] # "root" =>
     CountersFresh /\ HooksRest /\ h = h1

\* ACTION_CONSTRAINT: in shadow, which runs both gates, one hook.
ShadowAlone == file.mode = "shadow" => at'[h2] = "idle"
=============================================================================
