---------------------------- MODULE PacketTable ----------------------------
(***************************************************************************)
(* The packet transition table of harness/statemachine_v2.py: the states,  *)
(* the rows t1-t25 and t27-t39, the audit-only events, and the structural  *)
(* facts that validate_transition_table() asserts when it is imported.     *)
(***************************************************************************)
EXTENDS Integers, FiniteSets

STATES ==
  { "NONE", "PLANNED", "DISPATCHABLE", "RUNNING", "REPORTED", "ACCEPTED",
    "FAILED", "TIMED_OUT", "DUTY_REVIEW", "DEAD_LETTER", "MERGED",
    "MERGE_CONFLICT", "WAVE_DONE", "SOL_ADJUDICATE", "DONE",
    "EXPAND_K3", "L2_VERIFY", "L2_RANK" }

TERMINAL == { "MERGED", "DEAD_LETTER", "DONE" }

L2_STATES == { "EXPAND_K3", "L2_VERIFY", "L2_RANK" }

\* Caps of statemachine_v2.py.
REPLAN_CAP            == 2
TIMEOUT_RETRY_MAX     == 1
L2_ATTEMPTS_MAX       == 1
PRE_SPAWN_FAILURE_MAX == 3

\* One row: in state `from`, the event `on` leads to state `to`; `num` is the t-number.
Row(from, on, to, num) == [from |-> from, on |-> on, to |-> to, num |-> num]

T ==
  { Row("NONE",           "planned",               "PLANNED",         1),
    Row("PLANNED",        "dag_assert_pass",       "DISPATCHABLE",    2),
    Row("DISPATCHABLE",   "dispatched",            "RUNNING",         3),
    Row("RUNNING",        "subagent_stop",         "REPORTED",        4),
    Row("RUNNING",        "timeout",               "TIMED_OUT",       5),
    Row("RUNNING",        "exec_failed",           "FAILED",          6),
    Row("REPORTED",       "acceptance_pass",       "ACCEPTED",        7),
    Row("REPORTED",       "acceptance_fail",       "FAILED",          8),
    Row("FAILED",         "retry_dispatch",        "DISPATCHABLE",    9),
    Row("FAILED",         "duty_review",           "DUTY_REVIEW",    10),
    Row("TIMED_OUT",      "duty_review",           "DUTY_REVIEW",    39),
    Row("DUTY_REVIEW",    "duty_retryable",        "RUNNING",        11),
    Row("DUTY_REVIEW",    "duty_fixable",          "RUNNING",        12),
    Row("DUTY_REVIEW",    "duty_terminal",         "DEAD_LETTER",    13),
    Row("TIMED_OUT",      "budget_exhausted",      "DEAD_LETTER",    14),
    Row("FAILED",         "budget_exhausted",      "DEAD_LETTER",    15),
    Row("ACCEPTED",       "merged",                "MERGED",         16),
    Row("ACCEPTED",       "merge_conflict",        "MERGE_CONFLICT", 17),
    Row("MERGED",         "wave_complete",         "WAVE_DONE",      18),
    Row("DEAD_LETTER",    "dead_letter_summary",   "SOL_ADJUDICATE", 19),
    Row("MERGE_CONFLICT", "conflict_pointer",      "SOL_ADJUDICATE", 20),
    Row("WAVE_DONE",      "wave_summary",          "SOL_ADJUDICATE", 21),
    Row("SOL_ADJUDICATE", "sol_replan",            "PLANNED",        22),
    Row("SOL_ADJUDICATE", "release_merge",         "DONE",           23),
    Row("REPORTED",       "review_verdict_pass",   "SOL_ADJUDICATE", 24),
    Row("REPORTED",       "review_verdict_fail",   "SOL_ADJUDICATE", 25),
    Row("NONE",           "skeleton_ready",        "EXPAND_K3",      27),
    Row("EXPAND_K3",      "expansion_valid",       "PLANNED",        28),
    Row("EXPAND_K3",      "expansion_invalid",     "SOL_ADJUDICATE", 29),
    Row("REPORTED",       "l2_requested",          "L2_VERIFY",      30),
    Row("L2_VERIFY",      "verdict_pass",          "ACCEPTED",       31),
    Row("L2_VERIFY",      "verdict_redo",          "FAILED",         32),
    Row("L2_VERIFY",      "verdict_escalate_l2_5", "L2_RANK",        33),
    Row("L2_VERIFY",      "verdict_escalate_l3",   "SOL_ADJUDICATE", 34),
    Row("L2_VERIFY",      "exec_failed",           "FAILED",         35),
    Row("L2_RANK",        "best_candidate",        "L2_VERIFY",      36),
    Row("TIMED_OUT",      "retry_dispatch",        "DISPATCHABLE",   37),
    Row("DEAD_LETTER",    "duty_triage",           "DUTY_REVIEW",    38) }

OnTable(state, name) == \E r \in T : r.from = state /\ r.on = name

\* Audit events that apply_event returns None for.
INFO_EVENTS ==
  { "worktree_allocated", "worktree_released", "SubagentStart",
    "SubagentStartRecovered", "SubagentStop", "exec_spawned",
    "exec_supervisor_started", "exec_exited", "exec_killed",
    "dispatch_refused", "spawn_health_gate_passed", "spawn_lost",
    "parent_stop", "close_requested", "lifecycle_reconciled",
    "dispatch_dry_run", "sol_budget_blocked", "l2_consumer_stale",
    "l2_claim_reaped", "governor.fail_closed", "governor.break_glass",
    "governor.state_key_unattested", "budget_state_change",
    "route_decision" }

\* Audit events that dispatch.py, dispatch_v2.py and the worktree pool append to the
\* same log and that INFO_EVENTS does not list.
UNLISTED_EVENTS ==
  { "spawn_throttled", "spawn_health_gate_failed", "spawn_initializing_timeout",
    "post_spawn_accounting_degraded", "merge_queue_enqueued", "l4_queued",
    "sol_adjudication_requested", "worktree_dirty_preserved",
    "worktree_dirty_archived" }

EventNames == { r.on : r \in T } \cup INFO_EVENTS \cup UNLISTED_EVENTS

Outbound(state) == { r \in T : r.from = state }

(***************************************************************************)
(* validate_transition_table(): what the module checks at import.          *)
(***************************************************************************)
validate_transition_table ==
  /\ \A r \in T : r.from \in STATES /\ r.to \in STATES
  /\ \A r, s \in T : r.num = s.num => r = s
  /\ \A r, s \in T : r.from = s.from /\ r.on = s.on => r = s
  /\ { r.num : r \in T } = (1..25) \cup (27..39)
  /\ "SOL_ADJUDICATE" \notin TERMINAL
  /\ { r.num : r \in Outbound("SOL_ADJUDICATE") } = {22, 23}
  /\ \A s \in L2_STATES : \A r \in Outbound(s) : r.to \notin {"MERGED", "DONE"}
  /\ { r.num : r \in Outbound("DEAD_LETTER") } = {19, 38}
  /\ { r.num : r \in Outbound("MERGED") } = {18}
  /\ Outbound("DONE") = {}
  /\ \A s \in STATES \ TERMINAL : Outbound(s) # {}
  /\ OnTable("TIMED_OUT", "retry_dispatch")

ASSUME TableIsValid == validate_transition_table
=============================================================================
