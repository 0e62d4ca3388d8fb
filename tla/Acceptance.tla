----------------------------- MODULE Acceptance -----------------------------
(***************************************************************************)
(* From a child's report to a verdict: the publish path                    *)
(* (harness/lifecycle_supervisor_v2.py), the trigger evaluator             *)
(* (harness/trigger_eval.py and trigger_eval_v2.py), the answers of the L2 *)
(* queue and the reducer (harness/result_reducer.py) that they end in.     *)
(*                                                                         *)
(* Every evaluator is a process that somebody starts for a published       *)
(* attempt and may start again.  It writes three files without a lock: the *)
(* L2 queue, after it looked whether its key is there; the L3 counters,    *)
(* read and replaced as a whole; the escalation log, last.  It may die     *)
(* before any of them.  The reducer is one object in memory.               *)
(***************************************************************************)
EXTENDS Triggers, Verdicts

CONSTANTS Packets,
          Artifacts,   \* what L0 may leave of an attempt
          Documents,   \* what a child may leave as its report, but for the revision
          Sampled,     \* packets that sampled_for_verification() picks
          Cap,         \* levels.L3.per_packet_call_cap
          Evaluators,  \* trigger_eval processes
          MaxAttempt,  \* bound: the last attempt of a packet
          MaxRevision, \* bound: control packet revisions
          MaxEvals,    \* bound: evaluations started
          MaxResults,  \* bound: records of the reducer
          MaxFaults    \* bound: evaluators killed, counters unwritable

ASSUME AcceptanceConstants ==
  /\ Sampled \subseteq Packets /\ IsFiniteSet(Evaluators)
  /\ Cap \in Nat /\ MaxAttempt \in Nat /\ MaxRevision \in Nat
  /\ MaxEvals \in Nat /\ MaxResults \in Nat /\ MaxFaults \in Nat

\* The routing mode as an evaluator finds it (an operator may change it, and a failing gate
\* guard makes layered shadow); under cold_start also v1's passthrough switch.
Modes == {"cold_start", "passthrough", "shadow", "layered"}
Keys == Packets \X (0..MaxAttempt)
Idle == [at |-> "idle"]

VARIABLES
  revision,    \* the current control packet revision
  attempt,     \* attempt[p]: the attempt under way
  published,   \* published[p]: its report was accepted
  pending,     \* pending[k]: lines of l2_queue/pending.ndjsonl with k's key
  counters,    \* l3_counters.json
  requested,   \* keys whose send_l2 is in escalation_log.jsonl (layered mode)
  calls,       \* calls[p]: direct_l3 lines of p in escalation_log.jsonl
  eval,        \* eval[e]: what evaluator e is about to do
  results,     \* the reducer's records
  clobbered,   \* a counters file was replaced that had changed since it was read
  evals, faults

attempts == <<revision, attempt, published, results>>
files == <<pending, counters, requested, calls, clobbered>>
vars == <<attempts, files, eval, evals, faults>>

Init ==
  /\ revision = 1
  /\ attempt = [p \in Packets |-> 0] /\ published = [p \in Packets |-> FALSE]
  /\ pending = [k \in Keys |-> 0] /\ counters = [p \in Packets |-> 0]
  /\ requested = {} /\ calls = [p \in Packets |-> 0]
  /\ eval = [e \in Evaluators |-> Idle]
  /\ results = {} /\ clobbered = FALSE
  /\ evals = 0 /\ faults = 0

-----------------------------------------------------------------------------
(***************************************************************************)
(* The reducer keeps the first record of a key.                            *)
(***************************************************************************)
\* Mutant: a later record takes the place of an earlier one.
Adds_Latest(rec) == results' = {r \in results : r.key # rec.key} \cup {rec}

Adds(rec) ==
  results' = IF \E r \in results : r.key = rec.key THEN results ELSE results \cup {rec}

\* The key of a short result says nothing of the attempt or of the verdict.
add_short_result(p, doc) ==
  Adds([key |-> <<"sr", p, doc.revision, doc.status>>, kind |-> "short_result", doc |-> doc])

add_completion(k, verdict, valid) ==
  Adds([key |-> <<"l2", k[1], k[2]>>, kind |-> "completion", verdict |-> verdict, valid |-> valid])

-----------------------------------------------------------------------------
(***************************************************************************)
(* Children and verifiers.                                                 *)
(***************************************************************************)
\* What may come of a child under revision r: its report may still be of the one before.
Endings ==
  [r \in 1..MaxRevision |->
     UNION {{[outcome |-> finalize_child(rc, report, doc, r), doc |-> doc] :
               rc \in {0, 1}, report \in {"present", "missing", "unreadable"}} :
            doc \in {[d EXCEPT !.revision = n] : d \in Documents, n \in {r, r - 1}}}]

\* The child of p ends.  A failure is tried again; a success may be evaluated.
FinalizeChild(p) ==
  /\ ~published[p]
  /\ \E end \in Endings[revision] :
       IF end.outcome = "published"
       THEN /\ published' = [published EXCEPT ![p] = TRUE]
            /\ add_short_result(p, end.doc)
            /\ UNCHANGED attempt
       ELSE /\ attempt[p] < MaxAttempt
            /\ attempt' = [attempt EXCEPT ![p] = @ + 1]
            /\ UNCHANGED <<published, results>>
  /\ Cardinality(results') <= MaxResults
  /\ UNCHANGED <<revision, files, eval, evals, faults>>

\* The plan is superseded: reports of the old revision are stale from now on.
Supersede ==
  /\ revision < MaxRevision /\ revision' = revision + 1
  /\ UNCHANGED <<attempt, published, results, files, eval, evals, faults>>

\* The verifier's one completion for a request, valid or not; "redo" sends the packet back.
Completes(k) ==
  /\ pending[k] > 0
  /\ \A r \in results : r.key # <<"l2", k[1], k[2]>>
  /\ \E verdict \in L2Verdicts \cup {"illegal"}, valid \in BOOLEAN :
       /\ add_completion(k, verdict, valid)
       /\ IF valid /\ verdict = "redo" /\ attempt[k[1]] = k[2] /\ k[2] < MaxAttempt
          THEN /\ attempt' = [attempt EXCEPT ![k[1]] = @ + 1]
               /\ published' = [published EXCEPT ![k[1]] = FALSE]
          ELSE UNCHANGED <<attempt, published>>
  /\ Cardinality(results') <= MaxResults
  /\ UNCHANGED <<revision, files, eval, evals, faults>>

-----------------------------------------------------------------------------
(***************************************************************************)
(* The evaluator.                                                          *)
(***************************************************************************)
Go(e, step) == eval' = [eval EXCEPT ![e] = step]
EvalFrame == UNCHANGED <<attempts, evals>>

\* What the table, or the fallback without one, may say of the signals.
RawActions ==
  {evaluate_table(signals_collect(a), table) : a \in Artifacts, table \in {Shipped, NoTable}}

\* apply_routing_mode(): what becomes of the table's action.
Routed(p, raw, mode) ==
  CASE mode = "passthrough" -> raw
    [] mode \in {"cold_start", "shadow"} ->
         IF raw \in {"direct_l3", "direct_l4"} THEN raw ELSE "direct_l3"
    [] mode = "layered" -> IF raw = "pass" /\ p \in Sampled THEN "send_l2" ELSE raw

\* Mutant: the escalation log is written before the request.
Follows_LogFirst(action, mode) ==
  CASE action = "send_l2" -> "logs" [] action = "direct_l3" -> "reads" [] OTHER -> "logs"

\* What follows on the routing: a request (only layered writes one), the L3 counter, the log.
Follows(action, mode) ==
  CASE action = "send_l2" /\ mode = "layered" -> "looks"
    [] action = "direct_l3" -> "reads"
    [] OTHER -> "logs"

\* Of a line of the escalation log: whether it speaks of a request or of a call of L3.
Line(action, mode) ==
  CASE action = "send_l2" /\ mode = "layered" -> "send_l2"
    [] action = "direct_l3" -> "direct_l3"
    [] OTHER -> "other"

Evaluates(e) ==
  /\ eval[e] = Idle /\ evals < MaxEvals /\ evals' = evals + 1
  /\ \E p \in Packets, raw \in RawActions, mode \in Modes :
       /\ published[p]
       /\ LET action == Routed(p, raw, mode) IN
          Go(e, [at |-> Follows(action, mode), k |-> <<p, attempt[p]>>,
                 line |-> Line(action, mode)])
  /\ UNCHANGED <<attempts, files, faults>>

\* _l2_record_exists(): the queue is read ...
Looks(e) ==
  /\ eval[e].at = "looks"
  /\ Go(e, [eval[e] EXCEPT !.at = IF pending[eval[e].k] > 0 THEN "logs" ELSE "appends"])
  /\ UNCHANGED <<files, faults>> /\ EvalFrame

\* ... and the record appended if its key was not there.
Appends(e) ==
  /\ eval[e].at = "appends"
  /\ pending' = [pending EXCEPT ![eval[e].k] = @ + 1]
  /\ Go(e, [eval[e] EXCEPT !.at = "logs"])
  /\ UNCHANGED <<counters, requested, calls, clobbered, faults>> /\ EvalFrame

\* bump_l3_counter(): all counters are read ...
Reads(e) ==
  /\ eval[e].at = "reads"
  /\ Go(e, [at |-> "bumps", k |-> eval[e].k, seen |-> counters])
  /\ UNCHANGED <<files, faults>> /\ EvalFrame

\* Mutant: the call after the last one is let through.
Exceeded_Late(count) == count > Cap + 1

Exceeded(count) == count > Cap

\* ... and written back with one more for this packet.  Over the cap, or when that fails, the
\* line says direct_l4: a person's turn.
Bumps(e) ==
  /\ eval[e].at = "bumps"
  /\ LET p == eval[e].k[1]
         count == eval[e].seen[p] + 1
         logs(line) == Go(e, [at |-> "logs", k |-> eval[e].k, line |-> line]) IN
     \/ /\ counters' = [eval[e].seen EXCEPT ![p] = count]
        /\ clobbered' = (clobbered \/ counters # eval[e].seen)
        /\ logs(IF Exceeded(count) THEN "other" ELSE "direct_l3")
        /\ UNCHANGED faults
     \/ /\ faults < MaxFaults /\ faults' = faults + 1
        /\ logs("other") /\ UNCHANGED <<counters, clobbered>>
  /\ UNCHANGED <<pending, requested, calls>> /\ EvalFrame

\* main() ends with the line of the escalation log.
Logs(e) ==
  /\ eval[e].at = "logs"
  /\ LET k == eval[e].k IN
       /\ requested' = IF eval[e].line = "send_l2" THEN requested \cup {k} ELSE requested
       /\ calls' = [calls EXCEPT ![k[1]] = IF eval[e].line = "direct_l3" THEN @ + 1 ELSE @]
  /\ Go(e, Idle)
  /\ UNCHANGED <<pending, counters, clobbered, faults>> /\ EvalFrame

\* An evaluator is killed.
Dies(e) ==
  /\ eval[e] # Idle /\ faults < MaxFaults /\ faults' = faults + 1
  /\ Go(e, Idle)
  /\ UNCHANGED files /\ EvalFrame

-----------------------------------------------------------------------------
Evaluation(e) ==
  Evaluates(e) \/ Looks(e) \/ Appends(e) \/ Reads(e) \/ Bumps(e) \/ Logs(e) \/ Dies(e)

Next ==
  \/ \E p \in Packets : FinalizeChild(p)
  \/ \E k \in Keys : Completes(k)
  \/ \E e \in Evaluators : Evaluation(e)
  \/ Supersede

Spec == Init /\ [][Next]_vars

-----------------------------------------------------------------------------
\* A verification that the escalation log speaks of is in the queue: no crash, and no second
\* evaluator that found the key there, leaves the log alone with it (trigger_eval_v2.py:311).
RequestBehindLog == \A k \in requested : pending[k] > 0

\* A packet goes to L3 at most Cap times, whatever dies half way and however the modes change -
\* as long as no two evaluators replaced the counters over each other (trigger_eval_v2.py:352).
L3CapHeld == ~clobbered => \A p \in Packets : calls[p] <= Cap

\* Once there is something to reduce, nothing that comes later - a repeated result, a late
\* completion, a report of the next revision - makes the verdict milder
\* (result_reducer.py:299 strictest verdict wins).
VerdictOnlyStricter ==
  [][results # {} => RANK[consolidate(results')] >= RANK[consolidate(results)]]_vars
=============================================================================
