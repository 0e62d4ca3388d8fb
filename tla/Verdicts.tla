------------------------------ MODULE Verdicts ------------------------------
(***************************************************************************)
(* Results as values: the short-result contract of harness/                *)
(* short_result_validator.py, the publish path of harness/                 *)
(* lifecycle_supervisor_v2.py and the reduction of harness/                *)
(* result_reducer.py.  A document says of each group of fields what        *)
(* validate() finds there; "none" is a verdict that is absent.             *)
(***************************************************************************)
EXTENDS Integers, FiniteSets

\* Strictness, ascending.
RANK == [pass |-> 0, redo |-> 1, escalate_l2_5 |-> 2, escalate_l3 |-> 3]
L2Verdicts == DOMAIN RANK

Strictest(verdicts) ==
  LET known == (verdicts \cap L2Verdicts) \cup {"pass"} IN
  CHOOSE v \in known : \A u \in known : RANK[u] <= RANK[v]

Statuses == {"completed", "failed", "blocked", "cancelled", "stale_revision"}

\* A document that meets the contract, if status and verdict are legal.
ShortResult(status, verdict, findings, needs, rev) ==
  [fields |-> "exact", status |-> status, verdict |-> verdict, conclusion |-> "short",
   findings |-> findings, needs |-> needs, revision |-> rev]

MAX_FINDINGS == 8

\* validate(): everything that is wrong with a document.
Violations(doc, expected) ==
  LET When(P, code) == IF P THEN {code} ELSE {} IN
  UNION {
    When(doc.fields = "extra", "EXTRA_FIELD"),
    When(doc.fields = "missing", "MISSING_FIELD"),
    When(doc.fields = "mistyped" \/ doc.revision < 1, "TYPE_ERROR"),
    When(doc.fields = "blank" \/ doc.conclusion = "blank", "EMPTY_FIELD"),
    When(doc.status \notin Statuses, "BAD_STATUS"),
    When(doc.verdict \notin L2Verdicts \cup {"none"}, "BAD_VERDICT"),
    When(doc.conclusion = "long", "OVERSIZE"),
    When(doc.findings > MAX_FINDINGS, "TOO_MANY_FINDINGS"),
    When(doc.needs = "malformed", "BAD_NEEDS_DECISION"),
    When(doc.revision >= 1 /\ doc.revision # expected, "STALE_REVISION")}

\* The publish path: nothing but a valid report of a child that exited with 0 is a success.
\* The revision is looked at last and the first violation is the one that counts.
finalize_child(rc, report, doc, expected) ==
  IF rc # 0 THEN "nonzero_exit"
  ELSE IF report = "missing" THEN "missing_report"
  ELSE IF report = "unreadable" THEN "short_result_invalid"
  ELSE IF Violations(doc, expected) = {} THEN "published"
  ELSE IF Violations(doc, expected) = {"STALE_REVISION"} THEN "stale_revision"
  ELSE "short_result_invalid"

-----------------------------------------------------------------------------
(***************************************************************************)
(* The reducer's records: a short result or an L2 completion.              *)
(***************************************************************************)
\* What one record weighs, and whether it contradicts itself.
Weights(rec) ==
  IF rec.kind = "completion"
  THEN {IF rec.verdict \in L2Verdicts THEN rec.verdict ELSE "escalate_l3"}
  ELSE (CASE rec.doc.verdict \in L2Verdicts -> {rec.doc.verdict}
          [] rec.doc.verdict \notin L2Verdicts /\ rec.doc.status = "completed" -> {"pass"}
          [] rec.doc.verdict \notin L2Verdicts /\ rec.doc.status = "cancelled" -> {"escalate_l3"}
          [] OTHER -> {"redo"})
       \cup (IF rec.doc.needs = "asked" THEN {"escalate_l3"} ELSE {})

Inconsistent(rec) ==
  IF rec.kind = "completion" THEN ~rec.valid
  ELSE rec.doc.verdict \in L2Verdicts \ {"pass"} /\ rec.doc.findings = 0

\* consolidate(): nothing at all, and anything inconsistent, goes to the last instance.
consolidate(records) ==
  IF records = {} \/ \E rec \in records : Inconsistent(rec) THEN "escalate_l3"
  ELSE Strictest(UNION {Weights(rec) : rec \in records})
=============================================================================
