------------------------------ MODULE Triggers ------------------------------
(***************************************************************************)
(* The L1 trigger table: the signals that harness/signals_collect.py       *)
(* assembles, and derive, PREDICATES and evaluate_table of harness/        *)
(* trigger_eval_v2.py with the rules of config/triggers.yaml.              *)
(*                                                                         *)
(* The signals of a packet are a record.  A path is known by its kind, a   *)
(* number that may be missing is Missing, and commands and observations    *)
(* stand for what is counted of them.                                      *)
(***************************************************************************)
EXTENDS Integers, Sequences, FiniteSets, FiniteSetsExt

Missing == -1

\* What L0 leaves of an attempt when every file is missing: of the packet's constraints, the
\* diff validator, the acceptance replay, the ledger, the event log and the diff.
NoArtifacts ==
  [diff_budget |-> Missing, min_tests |-> Missing,
   added |-> 0, removed |-> 0, tests |-> <<Missing, Missing>>, boundary |-> FALSE,
   rcs |-> <<>>, cmds |-> <<>>, replayed_tests |-> Missing,
   attempts |-> 0, reviews |-> {}, paths |-> {}, observations |-> <<>>]

\* signals_collect.py: nobody sets the flags of the other rules, nor counts deleted files.
signals_collect(a) ==
  [exit_codes |-> a.rcs, commands |-> a.cmds, observations |-> a.observations,
   retry_count |-> a.attempts, run_level_budget |-> 6,
   diff_lines |-> a.added + a.removed, deleted_lines |-> a.removed, file_deletions |-> 0,
   diff_budget |-> a.diff_budget,
   path_boundary_attempts |-> IF a.boundary THEN 1 ELSE 0,
   tests_before |-> a.tests[1],
   tests_after |-> IF a.tests[2] = Missing THEN a.replayed_tests ELSE a.tests[2],
   min_tests |-> a.min_tests, paths |-> a.paths,
   flags |-> (IF "2_consecutive_same_class" \in a.reviews
              THEN {"consecutive_same_type_failures"} ELSE {})
             \cup (IF "regex_no_match" \in a.reviews THEN {"retry_regex_no_match"} ELSE {})]

Elements(s) == {s[i] : i \in DOMAIN s}
Count(s, x) == Cardinality({i \in DOMAIN s : s[i] = x})

\* derive(): what the predicates read off the raw signals.
derive(d) ==
  [loop_max |-> Max({Count(d.commands, c) : c \in Elements(d.commands)} \cup {0}),
   obs_over_3000 |-> Count(d.observations, "long"),
   high_risk_path_hits |-> d.paths \cap {"migration", "credential", "ci", "hook"},
   flapping |-> /\ Len(d.exit_codes) >= 3
                /\ Cardinality({i \in 2..Len(d.exit_codes) :
                                  (d.exit_codes[i] = 0) # (d.exit_codes[i - 1] = 0)}) >= 2]

\* PREDICATES: the names of those that hold.  A predicate that reads one flag is that flag.
Holding(d) ==
  LET x == derive(d)
      codes == Elements(d.exit_codes)
      n == Len(d.exit_codes)
      budget == d.diff_budget
      budgeted == budget # Missing
      counted == d.tests_before # Missing /\ d.tests_after # Missing
      When(P, name) == IF P THEN {name} ELSE {}
  IN UNION {
    When(d.exit_codes = <<0>>, "exit_clean_single_run"),
    When(n >= 2 /\ d.exit_codes[n] = 0 /\ codes # {0}, "exit_nonzero_then_clean"),
    When(x.flapping, "exit_flapping"),
    When(codes \cap {137, 139, 143} # {}, "exit_signal_kill"),
    When(n >= 2 /\ d.exit_codes[n] # 0 /\ d.exit_codes[n] = d.exit_codes[n - 1],
         "exit_persistent_failure"),
    When(d.retry_count = 0, "retry_none"),
    When(d.retry_count = 1, "retry_single"),
    When(d.retry_count = 2, "retry_double"),
    When(d.retry_count >= d.run_level_budget, "retry_exhausted"),
    When(budgeted /\ d.diff_lines \in 1..budget, "diff_within_budget"),
    When(budgeted /\ d.diff_lines > budget /\ 10 * d.diff_lines <= 12 * budget,
         "diff_near_budget"),
    When(budgeted /\ 10 * d.diff_lines > 12 * budget /\ d.diff_lines <= 2 * budget,
         "diff_over_budget"),
    When(budgeted /\ d.diff_lines > 2 * budget, "diff_runaway"),
    When(d.diff_lines = 0, "diff_empty"),
    When(d.path_boundary_attempts > 0, "path_boundary_attempt"),
    When(counted /\ d.tests_after > d.tests_before, "test_count_increased"),
    When(counted /\ d.tests_after = d.tests_before /\ "requires_new_tests" \in d.flags,
         "test_count_unchanged"),
    When(counted /\ d.tests_after < d.tests_before, "test_count_decreased"),
    When(d.min_tests # Missing /\ d.tests_after # Missing /\ d.tests_after < d.min_tests,
         "test_below_min_count"),
    When("migration" \in d.paths, "high_risk_migration_path"),
    When("credential" \in d.paths, "high_risk_credential_path"),
    When("ci" \in d.paths, "high_risk_ci_path"),
    When(d.deleted_lines > 200 \/ d.file_deletions > 0, "high_risk_mass_deletion"),
    When(d.paths \cap {"hook", "config"} # {}, "high_risk_hook_or_config"),
    When(x.obs_over_3000 >= 1, "observation_oversize"),
    When(x.obs_over_3000 >= 3, "observation_oversize_repeated"),
    When(x.loop_max \in 3..4, "loop_fingerprint_warn"),
    When(x.loop_max >= 5, "loop_fingerprint_hit"),
    When(x.loop_max >= 10, "loop_fingerprint_hard"),
    d.flags \cap {"path_boundary_probe_in_log", "test_assertions_modified",
                  "consecutive_same_type_failures", "retry_regex_no_match",
                  "low_confidence_ruling", "evidence_missing"}}

SEVERITY == [pass |-> 0, annotated_pass |-> 1, spawn_duty_officer |-> 2,
             send_l2 |-> 3, direct_l3 |-> 4, direct_l4 |-> 5]

DutyRules == {"consecutive_same_type_failures", "retry_regex_no_match", "low_confidence_ruling",
              "evidence_missing"}

HighRiskRules == {"path_boundary_attempt", "test_count_decreased", "test_assertions_modified",
                  "high_risk_migration_path", "high_risk_credential_path", "high_risk_ci_path",
                  "high_risk_mass_deletion", "high_risk_hook_or_config"}

\* The shipped table: its rules by what they ask for, and those of high risk.
Shipped ==
  [rules |->
     [pass |-> {"exit_clean_single_run", "retry_none", "diff_within_budget",
                "test_count_increased"},
      annotated_pass |-> {"exit_nonzero_then_clean", "retry_single", "diff_near_budget",
                          "test_count_unchanged", "observation_oversize",
                          "loop_fingerprint_warn"},
      spawn_duty_officer |-> DutyRules,
      send_l2 |-> {"exit_flapping", "exit_signal_kill", "exit_persistent_failure",
                   "retry_double", "diff_over_budget", "diff_empty",
                   "path_boundary_probe_in_log", "test_below_min_count",
                   "observation_oversize_repeated", "loop_fingerprint_hit"},
      direct_l3 |-> {"retry_exhausted", "diff_runaway", "loop_fingerprint_hard"}
                    \cup HighRiskRules,
      direct_l4 |-> {}],
   high_risk |-> HighRiskRules]

\* The fallback when triggers.yaml cannot be opened: every packet is off the table.
NoTable == [rules |-> [a \in DOMAIN SEVERITY |-> {}], high_risk |-> {}]

\* The rail: a rule of the table, or the paths themselves whatever the table says.
HighRisk(d, table) ==
  \/ Holding(d) \cap table.high_risk # {}
  \/ derive(d).high_risk_path_hits # {}

\* evaluate_table(): the most severe action of the rules hit; send_l2 off the table.
evaluate_table(d, table) ==
  LET asked == {a \in DOMAIN SEVERITY : table.rules[a] \cap Holding(d) # {}} IN
  IF HighRisk(d, table) THEN "direct_l3"
  ELSE IF asked = {} THEN "send_l2"
  ELSE CHOOSE a \in asked : \A b \in asked : SEVERITY[b] <= SEVERITY[a]
=============================================================================
