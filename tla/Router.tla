------------------------------- MODULE Router -------------------------------
(***************************************************************************)
(* harness/agent_router.py: from the verdict of the trigger table to one   *)
(* route of a closed set.  The layered graph is used only while seven      *)
(* observations of the disk hold; any failure downgrades to shadow, which  *)
(* executes what cold start executes.                                      *)
(***************************************************************************)
EXTENDS Integers

RoutingMode == {"cold_start", "shadow", "layered"}
Route == {"v4_direct", "k3_expand", "k3_verify", "k3_rank", "sol_adjudicate",
          "l4_human", "merge_queue"}
SolReasons == {"sol_high_risk", "sol_off_table", "sol_l2_escalation", "cold_start_upgrade"}
K3Routes == {"k3_verify", "k3_expand", "k3_rank"}
\* What the trigger table may say, and a word it should not.
Action == {"pass", "annotated_pass", "send_l2", "spawn_duty_officer", "direct_l3", "direct_l4",
           "unknown"}
GateGuard == {"consumer_heartbeat_fresh", "exactly_once_canary", "k3_verifier_model_pinned",
              "short_result_validator_enabled", "statemachine_schema_compatible",
              "rollback_key_available", "layered_authorization_current"}

\* Outcomes recorded for a fingerprint; 2 * (escalated + 1) >= total + 2 is the
\* smoothed p_escalate() >= ESCALATE_THRESHOLD.
Uncertain(history) == 2 * (history.escalated + 1) >= history.total + 2

\* Mutant: any one guard is enough.
EffectiveMode_Any(requested, guards) ==
  IF requested = "layered" /\ guards = {} THEN "shadow" ELSE requested

\* effective_mode(): guards are those of GateGuard that hold.
EffectiveMode(requested, guards) ==
  IF requested = "layered" /\ guards # GateGuard THEN "shadow" ELSE requested

\* _layered_route(): [route, reason, action], action is what is executed.
LayeredRoute(action, uncertain, suited, highRisk) ==
  LET To(route, reason, effective) == [route |-> route, reason |-> reason, action |-> effective]
  IN IF highRisk THEN To("sol_adjudicate", "sol_high_risk", "direct_l3")
     ELSE CASE action = "direct_l3" -> To("sol_adjudicate", "sol_l2_escalation", "direct_l3")
            [] action = "direct_l4" -> To("l4_human", "l4_cap_exceeded", "direct_l4")
            [] action = "send_l2" -> To("k3_verify", "table_send_l2", "send_l2")
            [] action = "spawn_duty_officer" -> To("v4_direct", "table_pass", action)
            [] action \in {"pass", "annotated_pass"} ->
                 IF suited THEN To("k3_verify", "k3_suited_class", "send_l2")
                 ELSE IF uncertain THEN To("k3_verify", "sampled_verification", "send_l2")
                 ELSE To("merge_queue", IF action = "pass" THEN "table_pass"
                                        ELSE "table_annotated_pass", action)
            [] OTHER -> To("sol_adjudicate", "sol_off_table", "direct_l3")

Upgraded(action) == IF action \in {"direct_l3", "direct_l4"} THEN action ELSE "direct_l3"

\* Cold start and shadow: everything but the human gate reaches Sol.
LegacyRoute(action, highRisk) ==
  [route |-> IF Upgraded(action) = "direct_l4" THEN "l4_human" ELSE "sol_adjudicate",
   reason |-> IF highRisk THEN "sol_high_risk"
              ELSE IF Upgraded(action) # action THEN "cold_start_upgrade" ELSE "sol_off_table",
   action |-> Upgraded(action)]

\* route_action().
RouteAction(m, action, uncertain, suited, highRisk) ==
  IF m = "layered" THEN LayeredRoute(action, uncertain, suited, highRisk)
  ELSE LegacyRoute(action, highRisk)
=============================================================================
