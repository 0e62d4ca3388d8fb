----------------------------- MODULE Governance -----------------------------
(***************************************************************************)
(* Who may use the layered graph and who may use a tool.  The policy file  *)
(* names the routing mode; harness/layered_gate.py authorizes the bytes of *)
(* a layered file, harness/routing_mode.py sets and rehearses the mode,    *)
(* routers (agent_router.py) that loaded the file some time ago decide     *)
(* under it.  Every tool call of a session runs a hook of its own process: *)
(* hooks/sol_tool_gate_router.py chooses by the mode between the v1 gate   *)
(* (sol_tool_gate.py) and the governor (root_turn_governor.py).            *)
(***************************************************************************)
EXTENDS Router, FiniteSets

CONSTANTS
  Hooks,        \* processes of one PreToolUse hook each
  Outages,      \* sets of gate conditions that can fail together
  MaxEdits,     \* bound: edits of the policy besides its mode
  LeaseTurns,   \* planning_max_turns()
  ReconThreshold, ReconCap,
  Shares, EnterHigh, LeaveHigh, Samples  \* the Sol share, in percent, and its hysteresis

\* Conditions of the layered gate that are not bound to the bytes of the policy.
Conditions == {"consumer_heartbeat", "exactly_once_canary", "k3_model_pinned",
               "validator_enabled", "statemachine_schema", "rollback_key",
               "default_adapter", "meter_v2_fresh", "plan_pipeline",
               "provider_health", "lifecycle_roster"}

ASSUME GovernanceOK ==
  /\ Outages \subseteq SUBSET Conditions
  /\ MaxEdits \in Nat /\ LeaseTurns \in Nat \ {0}
  /\ ReconThreshold \in Nat \ {0} /\ ReconCap \in Nat /\ ReconThreshold <= ReconCap
  /\ Shares \subseteq Nat /\ EnterHigh \in Nat /\ LeaveHigh \in Nat /\ LeaveHigh <= EnterHigh
  /\ Samples \in Nat /\ Samples >= 2

Bytes == [mode : RoutingMode, edit : 0..MaxEdits]
LoopStates == {"planning", "adjudication", "release_finalize", "execution"}
AllowedStates == LoopStates \ {"execution"}
MeterStatus == {"OK", "STALE", "MISSING", "MALFORMED", "INSUFFICIENT_DATA"}

VARIABLES
  file,       \* the policy file
  auth,       \* layered_authorization.json: none or [bytes, fresh]
  rehearsed, hashed,  \* the bytes that rollback_rehearsal and dual_plane_hash name
  rehearsal,  \* the bytes a rehearsal will restore, or none
  gate,       \* enable(): its place, and the bytes it hashed
  unmet,      \* conditions that fail now
  loaded,     \* the mode a router has in memory
  ledger,     \* readable, the explicit state and its attestation, the derived state
  blown,      \* the task budget is at DEGRADE or BREAK
  meter,      \* the report on the disk
  turns,      \* turns_used of the planning lease
  recon,      \* count of recon_gate.json, 0 once its window is over
  hyst,       \* hysteresis.json
  at, mode, call, seen,  \* a hook: its place, the mode and call it serves, what it read
  verdict,    \* what v1 decided for a hook in shadow
  last        \* the call that was answered last, and the answer

policy == <<file, auth, rehearsed, hashed, rehearsal, gate, unmet, loaded>>
world == <<ledger, blown, meter>>
counters == <<turns, recon, hyst>>
hook == <<at, mode, call, seen, verdict, last>>
vars == <<policy, world, counters, hook>>

Calls == {"root", "child", "ungated", "unknown_role", "unknown_model", "break_glass",
          "spawn_pinned", "spawn_unpinned", "spawn_by_leaf"}
RootCalls == {"root", "unknown_model", "break_glass"}  \* to v1 all alike
SpawnCalls == {"spawn_pinned", "spawn_unpinned", "spawn_by_leaf"}
NoShare == -1

Idle == [at |-> "idle", bytes |-> [mode |-> "cold_start", edit |-> 0]]

Init ==
  /\ file = [mode |-> "cold_start", edit |-> 0]
  /\ auth = {} /\ rehearsed = {} /\ hashed = {} /\ rehearsal = {}
  /\ gate = Idle /\ unmet = {}
  /\ loaded = "cold_start"
  /\ ledger = [readable |-> TRUE, explicit |-> "none", attested |-> FALSE, derived |-> "planning"]
  /\ blown = FALSE /\ meter = [status |-> "MISSING", share |-> NoShare]
  /\ turns = 0 /\ recon = 0
  /\ hyst = [band |-> "NORMAL", above |-> 0, below |-> 0, share |-> NoShare]
  /\ at = [h \in Hooks |-> "idle"]
  /\ mode = [h \in Hooks |-> "cold_start"] /\ call = [h \in Hooks |-> "ungated"]
  /\ seen = [h \in Hooks |-> 0]
  /\ verdict = [h \in Hooks |-> "none"]
  /\ last = [call |-> "ungated", verdict |-> "allow"]

-----------------------------------------------------------------------------
(* The mode and its authorization. *)

WithMode(bytes, m) == [bytes EXCEPT !.mode = m]

\* layered_authorization(): a marker of the last hour that names these bytes.
Authorizes(bytes) == \E m \in auth : m.fresh /\ m.bytes = bytes

OperatorSets(m) ==
  /\ m = "layered" => Authorizes(WithMode(file, "layered"))
  /\ file' = WithMode(file, m)
  /\ UNCHANGED <<auth, rehearsed, hashed, rehearsal, gate, unmet, loaded,
                 world, counters, hook>>

OperatorEdits ==
  /\ file.edit < MaxEdits
  /\ file' = [file EXCEPT !.edit = @ + 1]
  /\ UNCHANGED <<auth, rehearsed, hashed, rehearsal, gate, unmet, loaded,
                 world, counters, hook>>

\* rehearse(): to cold_start, and back to the bytes it read first.
RehearsalBegins ==
  /\ rehearsal = {}
  /\ rehearsal' = {file} /\ file' = WithMode(file, "cold_start")
  /\ UNCHANGED <<auth, rehearsed, hashed, gate, unmet, loaded,
                 world, counters, hook>>

RehearsalRestores ==
  /\ \E bytes \in rehearsal : file' = bytes /\ rehearsed' = {bytes}
  /\ rehearsal' = {}
  /\ UNCHANGED <<auth, hashed, gate, unmet, loaded, world, counters, hook>>

\* dual_plane_hash.py finds the planes equal.
PlanesCompared ==
  /\ hashed' = {file}
  /\ UNCHANGED <<file, auth, rehearsed, rehearsal, gate, unmet, loaded,
                 world, counters, hook>>

\* check_all(), when it passes: the skipped conditions of the policy are not in unmet.
GateChecks ==
  /\ gate.at = "idle" /\ unmet = {} /\ file \in rehearsed /\ file \in hashed
  /\ gate' = [gate EXCEPT !.at = "checked"]
  /\ UNCHANGED <<file, auth, rehearsed, hashed, rehearsal, unmet, loaded,
                 world, counters, hook>>

GateFlips ==
  /\ gate.at = "checked"
  /\ gate' = [gate EXCEPT !.at = "flipped"]
  /\ file' = WithMode(file, "layered")
  /\ UNCHANGED <<auth, rehearsed, hashed, rehearsal, unmet, loaded,
                 world, counters, hook>>

GateHashes ==
  /\ gate.at = "flipped"
  /\ gate' = [at |-> "hashed", bytes |-> file]
  /\ UNCHANGED <<file, auth, rehearsed, hashed, rehearsal, unmet, loaded,
                 world, counters, hook>>

GateAuthorizes ==
  /\ gate.at = "hashed"
  /\ auth' = {[bytes |-> gate.bytes, fresh |-> TRUE]}
  /\ gate' = Idle
  /\ UNCHANGED <<file, rehearsed, hashed, rehearsal, unmet, loaded,
                 world, counters, hook>>

\* enable() is killed between two of its steps.
GateDies ==
  /\ gate.at # "idle"
  /\ gate' = Idle
  /\ UNCHANGED <<file, auth, rehearsed, hashed, rehearsal, unmet, loaded,
                 world, counters, hook>>

AuthorizationAges ==
  /\ \E m \in auth : m.fresh /\ auth' = {[m EXCEPT !.fresh = FALSE]}
  /\ UNCHANGED <<file, rehearsed, hashed, rehearsal, gate, unmet, loaded,
                 world, counters, hook>>

ConditionsChange ==
  /\ unmet' \in Outages
  /\ UNCHANGED <<file, auth, rehearsed, hashed, rehearsal, gate, loaded,
                 world, counters, hook>>

-----------------------------------------------------------------------------
(* Routers. *)

\* The guard of the router that looks at what a condition of the gate looks at.
GuardOf(condition) == CASE condition = "consumer_heartbeat" -> "consumer_heartbeat_fresh"
                        [] condition = "k3_model_pinned" -> "k3_verifier_model_pinned"
                        [] condition = "rollback_key" -> "rollback_key_available"
                        [] OTHER -> "none"

\* check_layered_gate_guards() for a router that has layered in memory: canary and
\* validator are markers that stay, the schema is that of the module.
Guards == GateGuard \ ({GuardOf(c) : c \in unmet}
                       \cup IF Authorizes(file) THEN {} ELSE {"layered_authorization_current"})

RouterLoads ==
  /\ loaded' = file.mode
  /\ UNCHANGED <<file, auth, rehearsed, hashed, rehearsal, gate, unmet,
                 world, counters, hook>>

\* The mode a router acts in when it is asked about a packet; its decision is for its
\* caller and changes no state.
ActsIn == EffectiveMode(loaded, Guards)

-----------------------------------------------------------------------------
(* What the hooks read. *)

\* loop_state_set(): the attestation is in its log before the ledger names the state.
StateSet(s) ==
  /\ ledger' = [ledger EXCEPT !.explicit = s, !.attested = TRUE]
  /\ UNCHANGED <<policy, blown, meter, counters, hook>>

\* Somebody writes loop_state into the ledger without the harness.
BareKeySet(s) ==
  /\ ledger' = [ledger EXCEPT !.explicit = s, !.attested = FALSE]
  /\ UNCHANGED <<policy, blown, meter, counters, hook>>

PacketsMove ==
  /\ \E s \in LoopStates, r \in BOOLEAN :
       ledger' = [ledger EXCEPT !.derived = s, !.readable = r]
  /\ UNCHANGED <<policy, blown, meter, counters, hook>>

BudgetMoves ==
  /\ blown' = ~blown
  /\ UNCHANGED <<policy, ledger, meter, counters, hook>>

MeterReports ==
  /\ meter' \in {[status |-> "OK", share |-> share] : share \in Shares}
               \cup {[status |-> status, share |-> NoShare] : status \in MeterStatus \ {"OK"}}
  /\ UNCHANGED <<policy, ledger, blown, counters, hook>>

\* renew-lease, the only caller of PlanningLease.renew().
LeaseRenewed ==
  /\ turns' = 0
  /\ UNCHANGED <<policy, world, recon, hyst, hook>>

\* The window of recon_gate.json is over: the next hook starts from nothing.
ReconExpires ==
  /\ recon' = 0
  /\ UNCHANGED <<policy, world, turns, hyst, hook>>

\* v1 takes the explicit state as it is; the governor asks for its attestation.
StateV1 == IF ledger.explicit # "none" THEN ledger.explicit ELSE ledger.derived
StateV2 == IF ledger.explicit # "none" /\ ledger.attested THEN ledger.explicit
           ELSE ledger.derived

-----------------------------------------------------------------------------
(* One call of a tool. *)

\* The verdict is printed and the process is gone.
Finish(h, v) ==
  /\ at' = [at EXCEPT ![h] = "idle"]
  /\ last' = [call |-> call[h], verdict |-> v]
  /\ mode' = [mode EXCEPT ![h] = "cold_start"] /\ call' = [call EXCEPT ![h] = "ungated"]
  /\ seen' = [seen EXCEPT ![h] = 0] /\ verdict' = [verdict EXCEPT ![h] = "none"]

\* v1 has decided: shadow also runs the governor.
ConcludeV1(h, v) ==
  IF mode[h] = "shadow"
  THEN /\ at' = [at EXCEPT ![h] = "v2"]
       /\ verdict' = [verdict EXCEPT ![h] = v]
       /\ seen' = [seen EXCEPT ![h] = 0]
       /\ UNCHANGED <<mode, call, last>>
  ELSE Finish(h, v)

\* The governor has decided: shadow only records it.
ConcludeV2(h, v) == Finish(h, IF mode[h] = "shadow" THEN verdict[h] ELSE v)

Pause(h, place, value) ==
  /\ at' = [at EXCEPT ![h] = place]
  /\ seen' = [seen EXCEPT ![h] = value]
  /\ UNCHANGED <<mode, call, verdict, last>>

\* The spawn gates: a leaf spawns nobody, the root only with the pins of its profile.
SpawnVerdict(c) == IF c = "spawn_pinned" THEN "allow" ELSE "deny"

\* A tool the gates do not look at, or a spawn, which is the delegation v1 asks for.
HookPasses(c) ==
  /\ c \in SpawnCalls \cup {"ungated"}
  /\ last' = [call |-> c, verdict |-> IF c \in SpawnCalls THEN SpawnVerdict(c) ELSE "allow"]
  /\ recon' = IF c \in SpawnCalls /\ file.mode # "layered" THEN 0 ELSE recon
  /\ UNCHANGED <<policy, world, turns, hyst, at, mode, call, seen, verdict>>

\* read_mode().
HookStarts(h, c) ==
  /\ at[h] = "idle" /\ c \in Calls \ (SpawnCalls \cup {"ungated"})
  /\ call' = [call EXCEPT ![h] = c]
  /\ mode' = [mode EXCEPT ![h] = file.mode]
  /\ at' = [at EXCEPT ![h] = IF file.mode = "layered" THEN "auth" ELSE "v1"]
  /\ UNCHANGED <<policy, world, counters, seen, verdict, last>>

\* layered_authorized() of the hook.
HookAuthorized(h) ==
  /\ at[h] = "auth"
  /\ IF Authorizes(file) THEN Pause(h, "v2", 0) ELSE Finish(h, "deny")
  /\ UNCHANGED <<policy, world, counters>>

\* sol_tool_gate.py up to recon_enforce().
HookV1(h) ==
  /\ at[h] = "v1"
  /\ CASE call[h] = "child" -> ConcludeV1(h, "allow")
       [] call[h] = "unknown_role" -> ConcludeV1(h, "deny")
       [] OTHER -> IF ~ledger.readable THEN ConcludeV1(h, "allow")
                   ELSE IF StateV1 = "planning" THEN Pause(h, "recon", recon)
                   ELSE ConcludeV1(h, IF StateV1 \in AllowedStates THEN "allow" ELSE "deny")
  /\ UNCHANGED <<policy, world, counters>>

\* Mutant: the count stops at the cap.
Counted_Capped(n) == IF n < ReconCap THEN n + 1 ELSE ReconCap

\* The count as far as it matters: all counts past the cap are alike.
Counted(n) == IF n <= ReconCap THEN n + 1 ELSE n

\* recon_enforce() writes what it read, and one.
HookRecon(h) ==
  /\ at[h] = "recon"
  /\ LET count == Counted(seen[h])
     IN /\ recon' = count
        /\ ConcludeV1(h, IF count \in ReconThreshold..ReconCap THEN "deny" ELSE "allow")
  /\ UNCHANGED <<policy, world, turns, hyst>>

\* evaluate() up to what it writes.
HookV2(h) ==
  /\ at[h] = "v2"
  /\ CASE call[h] = "child" -> ConcludeV2(h, "allow")
       [] call[h] = "unknown_model" -> ConcludeV2(h, "deny")
       [] call[h] = "break_glass" -> ConcludeV2(h, "allow")
       [] OTHER ->
            IF ~ledger.readable \/ blown THEN ConcludeV2(h, "deny")
            ELSE IF StateV2 = "planning"
            THEN IF turns >= LeaseTurns THEN ConcludeV2(h, "deny") ELSE Pause(h, "lease", turns)
            ELSE IF StateV2 \in AllowedStates THEN ConcludeV2(h, "allow")
            ELSE IF meter.status = "OK" THEN Pause(h, "observe", meter.share)
            ELSE ConcludeV2(h, "deny")
  /\ UNCHANGED <<policy, world, counters>>

\* consume_turn() saves what load() read, and one.
HookLease(h) ==
  /\ at[h] = "lease"
  /\ turns' = seen[h] + 1
  /\ ConcludeV2(h, "allow")
  /\ UNCHANGED <<policy, world, recon, hyst>>

\* Mutant: every look at a report is a sample.
Observe_EveryLook(share) ==
  LET above == IF share > EnterHigh THEN hyst.above + 1 ELSE 0
      below == IF share < LeaveHigh THEN hyst.below + 1 ELSE 0
      Fresh(band) == [band |-> band, above |-> 0, below |-> 0, share |-> share]
  IN IF hyst.band = "NORMAL"
     THEN IF above >= Samples THEN Fresh("HIGH")
          ELSE [band |-> "NORMAL", above |-> above, below |-> hyst.below, share |-> share]
     ELSE IF below >= Samples THEN Fresh("NORMAL")
     ELSE [band |-> "HIGH", above |-> hyst.above, below |-> below, share |-> share]

\* observe(): the share is the name of the sample.
Observe(share) ==
  LET above == IF share > EnterHigh THEN hyst.above + 1 ELSE 0
      below == IF share < LeaveHigh THEN hyst.below + 1 ELSE 0
      Fresh(band) == [band |-> band, above |-> 0, below |-> 0, share |-> share]
  IN IF share = hyst.share THEN hyst
     ELSE IF hyst.band = "NORMAL"
     THEN IF above >= Samples THEN Fresh("HIGH")
          ELSE [band |-> "NORMAL", above |-> above, below |-> hyst.below, share |-> share]
     ELSE IF below >= Samples THEN Fresh("NORMAL")
     ELSE [band |-> "HIGH", above |-> hyst.above, below |-> below, share |-> share]

\* In execution the root is refused whatever the band.
HookObserves(h) ==
  /\ at[h] = "observe"
  /\ hyst' = Observe(seen[h])
  /\ ConcludeV2(h, "deny")
  /\ UNCHANGED <<policy, world, turns, recon>>

\* A gate exits with an error: v1 opens, the governor of layered closes.
HookCrashes(h) ==
  /\ at[h] \in {"v1", "recon", "v2", "lease", "observe"}
  /\ IF at[h] \in {"v1", "recon"} THEN ConcludeV1(h, "allow") ELSE ConcludeV2(h, "deny")
  /\ UNCHANGED <<policy, world, counters>>

\* A gate takes more than 8 s: the exception ends the hook with nothing printed, but
\* in layered.
HookTimesOut(h) ==
  /\ at[h] \in {"v1", "recon", "v2", "lease", "observe"}
  /\ Finish(h, IF mode[h] = "layered" THEN "deny" ELSE "allow")
  /\ UNCHANGED <<policy, world, counters>>

HookStep(h) ==
  \/ HookAuthorized(h) \/ HookV1(h) \/ HookRecon(h) \/ HookV2(h) \/ HookLease(h)
  \/ HookObserves(h)

Next ==
  \/ \E m \in RoutingMode : OperatorSets(m)
  \/ OperatorEdits \/ RehearsalBegins \/ RehearsalRestores \/ PlanesCompared
  \/ GateChecks \/ GateFlips \/ GateHashes \/ GateAuthorizes \/ GateDies
  \/ AuthorizationAges \/ ConditionsChange
  \/ RouterLoads
  \/ \E s \in LoopStates : StateSet(s) \/ BareKeySet(s)
  \/ PacketsMove \/ BudgetMoves \/ MeterReports \/ LeaseRenewed \/ ReconExpires
  \/ \E c \in Calls : HookPasses(c) \/ \E h \in Hooks : HookStarts(h, c)
  \/ \E h \in Hooks : HookStep(h) \/ HookCrashes(h) \/ HookTimesOut(h)

-----------------------------------------------------------------------------
(* What the governance promises. *)

\* What a router answers about a packet, by its mode and the packet's risk.
Routed ==
  {[mode |-> m, highRisk |-> risk, decision |-> RouteAction(m, action, uncertain, suited, risk)] :
     m \in RoutingMode, action \in Action, uncertain \in BOOLEAN, suited \in BOOLEAN,
     risk \in BOOLEAN}

\* A router with layered in memory acts on it only while the bytes on the disk are the
\* authorized ones and no guard fails; otherwise everything but the human gate reaches
\* Sol.  Sol is asked only for a reason of the closed list, and a packet of high risk
\* is never merged or left to K3 (agent_router.py:112, 361-378).
RoutesJustified ==
  LET m == ActsIn
  IN \A r \in {answer \in Routed : answer.mode = m} :
    LET d == r.decision
    IN /\ d.route \notin {"sol_adjudicate", "l4_human"} =>
            loaded = "layered" /\ Authorizes(file) /\ \A c \in unmet : GuardOf(c) = "none"
       /\ d.route = "sol_adjudicate" => d.reason \in SolReasons
       /\ r.highRisk => d.route \in {"sol_adjudicate", "l4_human"}

\* The band changes only on two different reports in a row on the far side of its
\* threshold, however many hooks look at them and however late (root_turn_governor.py:
\* 189-216, "a chatty hook cannot fast-forward the sample counters").
BandNeedsTwoReports ==
  [][hyst'.band # hyst.band =>
       /\ hyst'.share # hyst.share
       /\ IF hyst'.band = "HIGH" THEN hyst'.share > EnterHigh /\ hyst.share > EnterHigh
          ELSE hyst'.share < LeaveHigh /\ hyst.share < LeaveHigh]_vars

Spec == Init /\ [][Next]_vars

\* A hook is a process of its own and runs to its end.
FairSpec == Spec /\ \A h \in Hooks : WF_vars(HookStep(h))

PlanningUnderV1 == ledger.readable /\ StateV1 = "planning" /\ file.mode = "cold_start"

\* A root that goes on reading in planning is let through again and again, although
\* racing hooks lose counts ("never paralyze root", sol_tool_gate.py:29).
RootNotParalysed ==
  <>[]PlanningUnderV1 /\ []<>(\E h \in Hooks : at[h] = "recon" /\ call[h] = "root")
    => []<>(last.call \in RootCalls /\ last.verdict = "allow")

=============================================================================
