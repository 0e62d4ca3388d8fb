-------------------------- MODULE AcceptanceProofs --------------------------
(***************************************************************************)
(* What holds of evaluators and reducer for any packets, table, cap and    *)
(* number of evaluators and deaths.  The log may be last because every way *)
(* to a send_l2 line passes the queue; the cap holds because each line of  *)
(* L3, written or about to be, stands for a count of its own - as long as  *)
(* no counters file was replaced unseen; and the reducer's verdict climbs  *)
(* because its records are never dropped.                                  *)
(***************************************************************************)
EXTENDS Acceptance, FiniteSetTheorems, TLAPS

-----------------------------------------------------------------------------
(* consolidate() over more records. *)

LEMMA Ranks ==
  /\ L2Verdicts = {"pass", "redo", "escalate_l2_5", "escalate_l3"}
  /\ RANK["pass"] = 0 /\ RANK["redo"] = 1 /\ RANK["escalate_l2_5"] = 2 /\ RANK["escalate_l3"] = 3
BY DEF L2Verdicts, RANK

\* The strictest of some verdicts is one of them, or "pass", and none is stricter.
LEMMA StrictestIs ==
  ASSUME NEW V
  PROVE  LET known == (V \cap L2Verdicts) \cup {"pass"} IN
         /\ Strictest(V) \in known
         /\ \A u \in known : RANK[u] <= RANK[Strictest(V)]
<1> DEFINE known == (V \cap L2Verdicts) \cup {"pass"}
           top(v) == v \in known /\ \A u \in known : RANK[u] <= RANK[v]
<1>0. \A u \in known : u \in {"pass", "redo", "escalate_l2_5", "escalate_l3"}  BY Ranks
<1>1. "pass" \in known  OBVIOUS
<1> HIDE DEF known
<1>2. \E v : top(v)
  <2>1. CASE "escalate_l3" \in known  BY <1>0, <2>1, Ranks
  <2>2. CASE "escalate_l3" \notin known /\ "escalate_l2_5" \in known  BY <1>0, <2>2, Ranks
  <2>3. CASE "escalate_l3" \notin known /\ "escalate_l2_5" \notin known /\ "redo" \in known
    BY <1>0, <2>3, Ranks
  <2>4. CASE "escalate_l3" \notin known /\ "escalate_l2_5" \notin known /\ "redo" \notin known
    BY <1>0, <1>1, <2>4, Ranks
  <2> QED  BY <2>1, <2>2, <2>3, <2>4
<1>3. Strictest(V) = CHOOSE v \in known : \A u \in known : RANK[u] <= RANK[v]
  BY DEF Strictest, known
<1> QED  BY <1>2, <1>3 DEF known

LEMMA VerdictClimbs ==
  ASSUME NEW S, NEW T, S \subseteq T, S # {}
  PROVE  RANK[consolidate(T)] >= RANK[consolidate(S)]
<1> DEFINE W(R) == UNION {Weights(rec) : rec \in R}
           known(R) == (W(R) \cap L2Verdicts) \cup {"pass"}
<1>1. known(S) \subseteq known(T)  OBVIOUS
<1>2. \A R : \A u \in known(R) : u \in {"pass", "redo", "escalate_l2_5", "escalate_l3"}  BY Ranks
<1>3. \A R : Strictest(W(R)) \in known(R)
             /\ \A u \in known(R) : RANK[u] <= RANK[Strictest(W(R))]
  <2> SUFFICES ASSUME NEW R PROVE Strictest(W(R)) \in known(R)
             /\ \A u \in known(R) : RANK[u] <= RANK[Strictest(W(R))]  OBVIOUS
  <2> QED  BY StrictestIs
<1>4. \A R : RANK[Strictest(W(R))] \in 0..3
  <2> SUFFICES ASSUME NEW R PROVE RANK[Strictest(W(R))] \in 0..3  OBVIOUS
  <2>1. Strictest(W(R)) \in {"pass", "redo", "escalate_l2_5", "escalate_l3"}  BY <1>2, <1>3
  <2> QED  BY <2>1, Ranks
<1>5. RANK[Strictest(W(S))] <= RANK[Strictest(W(T))]  BY <1>1, <1>3
<1>6. CASE \E rec \in T : Inconsistent(rec)
  <2>1. consolidate(T) = "escalate_l3"  BY <1>6 DEF consolidate
  <2>2. consolidate(S) = "escalate_l3" \/ consolidate(S) = Strictest(W(S))  BY DEF consolidate
  <2> QED  BY <1>4, <2>1, <2>2, Ranks
<1>7. CASE ~\E rec \in T : Inconsistent(rec)
  <2>1. consolidate(T) = Strictest(W(T))  BY <1>7 DEF consolidate
  <2>2. consolidate(S) = Strictest(W(S))  BY <1>7 DEF consolidate
  <2> QED  BY <1>4, <1>5, <2>1, <2>2
<1> QED  BY <1>6, <1>7

\* add_short_result() and add_completion() drop nothing; nobody else touches the records.
LEMMA RecordsKept == [Next]_vars => results \subseteq results'
BY DEF Next, vars, attempts, FinalizeChild, Completes, add_short_result, add_completion, Adds,
       Supersede, Evaluation, Evaluates, Looks, Appends, Reads, Bumps, Logs, Dies, EvalFrame

\* Nothing that comes later makes the reducer's verdict milder (result_reducer.py:299).
THEOREM StricterOnly == Spec => VerdictOnlyStricter
<1>1. [Next]_vars => (results # {} => RANK[consolidate(results')] >= RANK[consolidate(results)])
  BY RecordsKept, VerdictClimbs
<1> QED  BY <1>1, PTL DEF Spec, VerdictOnlyStricter
-----------------------------------------------------------------------------
(* The files and the evaluators. *)

Steps == {"idle", "looks", "appends", "reads", "bumps", "logs"}

\* What evaluator e has in hand, by its place.
InHand(e) ==
  /\ eval[e].at \in Steps
  /\ eval[e].at # "idle" => eval[e].k \in Keys
  /\ eval[e].at \in {"looks", "appends", "reads", "logs"} =>
       /\ eval[e] = [at |-> eval[e].at, k |-> eval[e].k, line |-> eval[e].line]
       /\ eval[e].line \in {"send_l2", "direct_l3", "other"}
  /\ eval[e].at \in {"looks", "appends"} => eval[e].line = "send_l2"
  /\ eval[e].at = "logs" /\ eval[e].line = "send_l2" => pending[eval[e].k] > 0
  /\ eval[e].at = "bumps" => eval[e].seen \in [Packets -> Nat]

\* Evaluators that are about to write a line of L3 for p.
Calling(p) ==
  {e \in Evaluators : eval[e].at = "logs" /\ eval[e].line = "direct_l3" /\ eval[e].k[1] = p}

FilesTyped ==
  /\ pending \in [Keys -> Nat] /\ counters \in [Packets -> Nat]
  /\ requested \subseteq Keys /\ calls \in [Packets -> Nat]
  /\ attempt \in [Packets -> 0..MaxAttempt]
  /\ clobbered \in BOOLEAN
  /\ eval = [e \in Evaluators |-> eval[e]] /\ \A e \in Evaluators : InHand(e)

\* Every line of L3, written or on its way, has a count of its own, none above the cap.
Counts(p) ==
  /\ calls[p] + Cardinality(Calling(p)) <= counters[p]
  /\ calls[p] + Cardinality(Calling(p)) <= Cap
Counted == ~clobbered => \A p \in Packets : Counts(p)

Evaluable == FilesTyped /\ RequestBehindLog /\ Counted

LEMMA CallingFinite ==
  ASSUME IsFiniteSet(Evaluators), NEW p
  PROVE  IsFiniteSet(Calling(p)) /\ Cardinality(Calling(p)) \in Nat
BY FS_Subset, FS_CardinalityType DEF Calling

LEMMA CallingEmpty ==
  ASSUME NEW p, Calling(p) = {} PROVE Cardinality(Calling(p)) = 0
BY FS_EmptySet

\* Who leaves the counts alone: nobody new is about to write a line of L3.
LEMMA CountsKept ==
  ASSUME AcceptanceConstants, Evaluable, ~clobbered,
         \A p \in Packets : Calling(p)' \subseteq Calling(p),
         UNCHANGED <<counters, calls>>
  PROVE  \A p \in Packets : Counts(p)'
<1> SUFFICES ASSUME NEW p \in Packets PROVE Counts(p)'  OBVIOUS
<1>1. /\ IsFiniteSet(Calling(p)) /\ Cardinality(Calling(p)) \in Nat
      /\ calls[p] \in Nat /\ counters[p] \in Nat /\ Cap \in Nat
  BY CallingFinite DEF AcceptanceConstants, Evaluable, FilesTyped
<1>2. /\ Cardinality(Calling(p)') <= Cardinality(Calling(p)) /\ Cardinality(Calling(p)') \in Nat
  BY <1>1, FS_Subset, FS_CardinalityType
<1>3. Counts(p)  BY DEF Evaluable, Counted
<1> QED  BY <1>1, <1>2, <1>3 DEF Counts

LEMMA Moved ==
  ASSUME NEW a, NEW k, NEW l, NEW x
  PROVE  [[at |-> a, k |-> k, line |-> l] EXCEPT !.at = x] = [at |-> x, k |-> k, line |-> l]
OBVIOUS

LEMMA EvaluableInit == ASSUME AcceptanceConstants PROVE Init => Evaluable
<1> SUFFICES ASSUME Init PROVE Evaluable  OBVIOUS
<1>1. Idle.at = "idle"  BY DEF Idle
<1>2. FilesTyped
  <2>1. eval = [e \in Evaluators |-> eval[e]] /\ \A e \in Evaluators : eval[e].at = "idle"
    BY <1>1 DEF Init
  <2>2. \A e \in Evaluators : InHand(e)  BY <2>1 DEF InHand, Steps
  <2>3. attempt \in [Packets -> 0..MaxAttempt]  BY DEF Init, AcceptanceConstants
  <2>4. clobbered \in BOOLEAN  BY DEF Init
  <2>5. pending \in [Keys -> Nat] /\ counters \in [Packets -> Nat]
        /\ requested \subseteq Keys /\ calls \in [Packets -> Nat]
    BY DEF Init
  <2> QED  BY <2>1, <2>2, <2>3, <2>4, <2>5 DEF FilesTyped
<1>3. RequestBehindLog  BY DEF Init, RequestBehindLog
<1>4. Counted
  <2> SUFFICES ASSUME NEW p \in Packets PROVE Counts(p)  BY DEF Counted
  <2>1. Calling(p) = {}  BY <1>1 DEF Init, Calling
  <2> QED  BY <2>1, CallingEmpty DEF Init, Counts, AcceptanceConstants
<1> QED  BY <1>2, <1>3, <1>4 DEF Evaluable

LEMMA FinalizeKeeps ==
  ASSUME AcceptanceConstants, Evaluable, NEW p \in Packets, FinalizeChild(p)
  PROVE  Evaluable'
<1> USE DEF Evaluable
<1>1. FilesTyped'  BY DEF FinalizeChild, files, FilesTyped, InHand, AcceptanceConstants
<1>2. RequestBehindLog'  BY DEF RequestBehindLog, FilesTyped, FinalizeChild, files
<1>3. Counted'
  <2> SUFFICES ASSUME ~clobbered' PROVE \A q \in Packets : Counts(q)'  BY DEF Counted
  <2>1. ~clobbered /\ UNCHANGED <<counters, calls>>  BY DEF FinalizeChild, files
  <2>2. \A q \in Packets : Calling(q)' \subseteq Calling(q)
    BY DEF FinalizeChild, files, Calling, FilesTyped
  <2> QED  BY <2>1, <2>2, CountsKept
<1> QED  BY <1>1, <1>2, <1>3

LEMMA SupersedeKeeps ==
  ASSUME AcceptanceConstants, Evaluable, Supersede
  PROVE  Evaluable'
<1> USE DEF Evaluable
<1>1. FilesTyped'  BY DEF Supersede, files, FilesTyped, InHand
<1>2. RequestBehindLog'  BY DEF RequestBehindLog, FilesTyped, Supersede, files
<1>3. Counted'
  <2> SUFFICES ASSUME ~clobbered' PROVE \A p \in Packets : Counts(p)'  BY DEF Counted
  <2>1. ~clobbered /\ UNCHANGED <<counters, calls>>  BY DEF Supersede, files
  <2>2. \A p \in Packets : Calling(p)' \subseteq Calling(p)
    BY DEF Supersede, files, Calling, FilesTyped
  <2> QED  BY <2>1, <2>2, CountsKept
<1> QED  BY <1>1, <1>2, <1>3

LEMMA CompletesKeeps ==
  ASSUME AcceptanceConstants, Evaluable, NEW k \in Keys, Completes(k)
  PROVE  Evaluable'
<1> USE DEF Evaluable
<1>1. FilesTyped'  BY DEF Completes, files, FilesTyped, InHand, AcceptanceConstants, Keys
<1>2. RequestBehindLog'  BY DEF RequestBehindLog, FilesTyped, Completes, files
<1>3. Counted'
  <2> SUFFICES ASSUME ~clobbered' PROVE \A p \in Packets : Counts(p)'  BY DEF Counted
  <2>1. ~clobbered /\ UNCHANGED <<counters, calls>>  BY DEF Completes, files
  <2>2. \A p \in Packets : Calling(p)' \subseteq Calling(p)
    BY DEF Completes, files, Calling, FilesTyped
  <2> QED  BY <2>1, <2>2, CountsKept
<1> QED  BY <1>1, <1>2, <1>3

\* A new evaluation never starts with a line of L3 or of a request.
LEMMA EvaluatesKeeps ==
  ASSUME AcceptanceConstants, Evaluable, NEW e \in Evaluators, Evaluates(e)
  PROVE  Evaluable'
<1> USE DEF Evaluable
<1>1. FilesTyped'
  <2>1. PICK p \in Packets, raw \in RawActions, mode \in Modes :
          LET action == Routed(p, raw, mode) IN
          Go(e, [at |-> Follows(action, mode), k |-> <<p, attempt[p]>>, line |-> Line(action, mode)])
    BY DEF Evaluates
  <2> DEFINE action == Routed(p, raw, mode)
             new == [at |-> Follows(action, mode), k |-> <<p, attempt[p]>>, line |-> Line(action, mode)]
  <2>2. /\ new.at \in {"looks", "reads", "logs"} /\ new.line \in {"send_l2", "direct_l3", "other"}
        /\ new.at = "looks" => new.line = "send_l2"
        /\ new.at = "logs" => new.line = "other"
    BY DEF Follows, Line
  <2>3. new.k \in Keys /\ new = [at |-> new.at, k |-> new.k, line |-> new.line]
    BY DEF FilesTyped, Keys
  <2>4. eval' = [eval EXCEPT ![e] = new] /\ UNCHANGED <<attempt, pending, counters, requested, calls, clobbered>>
    BY <2>1 DEF Evaluates, Go, attempts, files
  <2> HIDE DEF new
  <2> QED  BY <2>2, <2>3, <2>4 DEF FilesTyped, InHand, Steps
<1>2. RequestBehindLog'  BY DEF RequestBehindLog, FilesTyped, Evaluates, files
<1>3. Counted'
  <2> SUFFICES ASSUME ~clobbered' PROVE \A p \in Packets : Counts(p)'  BY DEF Counted
  <2>1. ~clobbered /\ UNCHANGED <<counters, calls>>  BY DEF Evaluates, files
  <2>2. PICK q \in Packets, raw \in RawActions, mode \in Modes :
          LET action == Routed(q, raw, mode) IN
          Go(e, [at |-> Follows(action, mode), k |-> <<q, attempt[q]>>, line |-> Line(action, mode)])
    BY DEF Evaluates
  <2> DEFINE action == Routed(q, raw, mode)
             new == [at |-> Follows(action, mode), k |-> <<q, attempt[q]>>, line |-> Line(action, mode)]
  <2>3. ~(new.at = "logs" /\ new.line = "direct_l3")  BY DEF Follows, Line
  <2>4. eval' = [eval EXCEPT ![e] = new]  BY <2>2 DEF Go
  <2> HIDE DEF new
  <2>5. \A p \in Packets : Calling(p)' \subseteq Calling(p)  BY <2>3, <2>4 DEF Calling, FilesTyped
  <2> QED  BY <2>1, <2>5, CountsKept
<1> QED  BY <1>1, <1>2, <1>3

\* _l2_record_exists() sends the evaluator on to the log only past a record.
LEMMA LooksKeeps ==
  ASSUME AcceptanceConstants, Evaluable, NEW e \in Evaluators, Looks(e)
  PROVE  Evaluable'
<1> USE DEF Evaluable
<1>p. eval[e] = [at |-> eval[e].at, k |-> eval[e].k, line |-> eval[e].line] /\ eval[e].line = "send_l2"
      /\ eval[e].k \in Keys
  BY DEF FilesTyped, InHand, Looks
<1>1. FilesTyped'
  <2> DEFINE new == [at |-> IF pending[eval[e].k] > 0 THEN "logs" ELSE "appends",
                     k |-> eval[e].k, line |-> eval[e].line]
  <2>0. [eval[e] EXCEPT !.at = IF pending[eval[e].k] > 0 THEN "logs" ELSE "appends"] = new
    <3> DEFINE x == IF pending[eval[e].k] > 0 THEN "logs" ELSE "appends"
    <3>1. \A a, k, l : eval[e] = [at |-> a, k |-> k, line |-> l]
                         => [eval[e] EXCEPT !.at = x] = [at |-> x, k |-> k, line |-> l]
      BY Moved
    <3> QED  BY <1>p, <3>1
  <2>1. eval' = [eval EXCEPT ![e] = new]  BY <2>0 DEF Looks, Go
  <2>2. /\ new.at \in {"logs", "appends"} /\ new.k = eval[e].k /\ new.line = "send_l2"
        /\ new = [at |-> new.at, k |-> new.k, line |-> new.line]
        /\ new.at = "logs" => pending[new.k] > 0
    BY <1>p
  <2> HIDE DEF new
  <2> QED  BY <1>p, <2>1, <2>2 DEF FilesTyped, InHand, Steps, Looks, files, EvalFrame, attempts
<1>2. RequestBehindLog'  BY DEF RequestBehindLog, FilesTyped, Looks, files
<1>3. Counted'
  <2> SUFFICES ASSUME ~clobbered' PROVE \A p \in Packets : Counts(p)'  BY DEF Counted
  <2>1. ~clobbered /\ UNCHANGED <<counters, calls>>  BY DEF Looks, files
  <2>2. eval'[e].line = "send_l2" /\ \A f \in Evaluators \ {e} : eval'[f] = eval[f]
    BY <1>p DEF Looks, Go, FilesTyped
  <2>3. \A p \in Packets : Calling(p)' \subseteq Calling(p)  BY <2>2 DEF Calling
  <2> QED  BY <2>1, <2>3, CountsKept
<1> QED  BY <1>1, <1>2, <1>3

LEMMA AppendsKeeps ==
  ASSUME AcceptanceConstants, Evaluable, NEW e \in Evaluators, Appends(e)
  PROVE  Evaluable'
<1> USE DEF Evaluable
<1>p. eval[e] = [at |-> eval[e].at, k |-> eval[e].k, line |-> eval[e].line] /\ eval[e].line = "send_l2"
      /\ eval[e].k \in Keys
  BY DEF FilesTyped, InHand, Appends
<1>1. FilesTyped'
  <2> DEFINE new == [at |-> "logs", k |-> eval[e].k, line |-> eval[e].line]
  <2>0. [eval[e] EXCEPT !.at = "logs"] = new
    <3>1. \A a, k, l : eval[e] = [at |-> a, k |-> k, line |-> l]
                         => [eval[e] EXCEPT !.at = "logs"] = [at |-> "logs", k |-> k, line |-> l]
      BY Moved
    <3> QED  BY <1>p, <3>1
  <2>1. eval' = [eval EXCEPT ![e] = new]  BY <2>0 DEF Appends, Go
  <2>2. /\ new.at = "logs" /\ new.k = eval[e].k /\ new.line = "send_l2"
        /\ new = [at |-> new.at, k |-> new.k, line |-> new.line]
    BY <1>p
  <2>3. /\ pending' \in [Keys -> Nat] /\ pending'[eval[e].k] > 0
        /\ \A k \in Keys : pending[k] > 0 => pending'[k] > 0
    BY <1>p DEF Appends, FilesTyped
  <2> HIDE DEF new
  <2> QED  BY <1>p, <2>1, <2>2, <2>3 DEF FilesTyped, InHand, Steps, Appends, EvalFrame, attempts
<1>2. RequestBehindLog'  BY DEF RequestBehindLog, FilesTyped, Appends, files
<1>3. Counted'
  <2> SUFFICES ASSUME ~clobbered' PROVE \A p \in Packets : Counts(p)'  BY DEF Counted
  <2>1. ~clobbered /\ UNCHANGED <<counters, calls>>  BY DEF Appends
  <2>2. eval'[e].line = "send_l2" /\ \A f \in Evaluators \ {e} : eval'[f] = eval[f]
    BY <1>p DEF Appends, Go, FilesTyped
  <2>3. \A p \in Packets : Calling(p)' \subseteq Calling(p)  BY <2>2 DEF Calling
  <2> QED  BY <2>1, <2>3, CountsKept
<1> QED  BY <1>1, <1>2, <1>3

LEMMA ReadsKeeps ==
  ASSUME AcceptanceConstants, Evaluable, NEW e \in Evaluators, Reads(e)
  PROVE  Evaluable'
<1> USE DEF Evaluable
<1> DEFINE new == [at |-> "bumps", k |-> eval[e].k, seen |-> counters]
<1>1. FilesTyped'
  <2>1. eval' = [eval EXCEPT ![e] = new]  BY DEF Reads, Go
  <2>2. new.at = "bumps" /\ new.k = eval[e].k /\ new.seen = counters  OBVIOUS
  <2>3. eval[e].k \in Keys  BY DEF FilesTyped, InHand, Reads
  <2> HIDE DEF new
  <2> QED  BY <2>1, <2>2, <2>3 DEF FilesTyped, InHand, Steps, Reads, files, EvalFrame, attempts
<1>2. RequestBehindLog'  BY DEF RequestBehindLog, FilesTyped, Reads, files
<1>3. Counted'
  <2> SUFFICES ASSUME ~clobbered' PROVE \A p \in Packets : Counts(p)'  BY DEF Counted
  <2>1. ~clobbered /\ UNCHANGED <<counters, calls>>  BY DEF Reads, files
  <2>2. eval'[e].at = "bumps" /\ \A f \in Evaluators \ {e} : eval'[f] = eval[f]
    BY DEF Reads, Go, FilesTyped
  <2>3. \A p \in Packets : Calling(p)' \subseteq Calling(p)  BY <2>2 DEF Calling
  <2> QED  BY <2>1, <2>3, CountsKept
<1> QED  BY <1>1, <1>2, <1>3

LEMMA DiesKeeps ==
  ASSUME AcceptanceConstants, Evaluable, NEW e \in Evaluators, Dies(e)
  PROVE  Evaluable'
<1> USE DEF Evaluable
<1>1. FilesTyped'
  <2>1. eval' = [eval EXCEPT ![e] = Idle] /\ Idle.at = "idle"  BY DEF Dies, Go, Idle
  <2> QED  BY <2>1 DEF FilesTyped, InHand, Steps, Dies, files, EvalFrame, attempts
<1>2. RequestBehindLog'  BY DEF RequestBehindLog, FilesTyped, Dies, files
<1>3. Counted'
  <2> SUFFICES ASSUME ~clobbered' PROVE \A p \in Packets : Counts(p)'  BY DEF Counted
  <2>1. ~clobbered /\ UNCHANGED <<counters, calls>>  BY DEF Dies, files
  <2>2. eval'[e].at = "idle" /\ \A f \in Evaluators \ {e} : eval'[f] = eval[f]
    BY DEF Dies, Go, FilesTyped, Idle
  <2>3. \A p \in Packets : Calling(p)' \subseteq Calling(p)  BY <2>2 DEF Calling
  <2> QED  BY <2>1, <2>3, CountsKept
<1> QED  BY <1>1, <1>2, <1>3

\* bump_l3_counter() lets a line of L3 through only with the next count.
LEMMA BumpsKeeps ==
  ASSUME AcceptanceConstants, Evaluable, NEW e \in Evaluators, Bumps(e)
  PROVE  Evaluable'
<1> USE DEF Evaluable
<1>b. eval[e].k \in Keys /\ eval[e].k[1] \in Packets /\ eval[e].seen \in [Packets -> Nat]
      /\ eval[e].at = "bumps"
  BY DEF FilesTyped, InHand, Bumps, Keys
<1> DEFINE count == eval[e].seen[eval[e].k[1]] + 1
<1>c. \E l \in {"direct_l3", "other"} :
        /\ eval' = [eval EXCEPT ![e] = [at |-> "logs", k |-> eval[e].k, line |-> l]]
        /\ \/ /\ counters' = [eval[e].seen EXCEPT ![eval[e].k[1]] = count]
              /\ clobbered' = (clobbered \/ counters # eval[e].seen)
              /\ l = "direct_l3" => ~Exceeded(count)
           \/ l = "other" /\ UNCHANGED <<counters, clobbered>>
  BY DEF Bumps, Go
<1>c0. PICK line \in {"direct_l3", "other"} :
        /\ eval' = [eval EXCEPT ![e] = [at |-> "logs", k |-> eval[e].k, line |-> line]]
        /\ \/ /\ counters' = [eval[e].seen EXCEPT ![eval[e].k[1]] = count]
              /\ clobbered' = (clobbered \/ counters # eval[e].seen)
              /\ line = "direct_l3" => ~Exceeded(count)
           \/ line = "other" /\ UNCHANGED <<counters, clobbered>>
  BY <1>c
<1> DEFINE new == [at |-> "logs", k |-> eval[e].k, line |-> line]
<1>d. /\ new.at = "logs" /\ new.k = eval[e].k /\ new.line = line
      /\ new = [at |-> new.at, k |-> new.k, line |-> new.line]
  OBVIOUS
<1>e. eval' = [eval EXCEPT ![e] = new]  BY <1>c0
<1>f. counters' \in [Packets -> Nat] /\ clobbered' \in BOOLEAN
  <2>1. count \in Nat  BY <1>b
  <2>2. [eval[e].seen EXCEPT ![eval[e].k[1]] = count] \in [Packets -> Nat]  BY <1>b, <2>1
  <2> HIDE DEF count
  <2>3. counters' \in [Packets -> Nat]  BY <1>c0, <2>2 DEF FilesTyped
  <2>4. clobbered' \in BOOLEAN  BY <1>c0, Zenon DEF FilesTyped
  <2> QED  BY <2>3, <2>4
<1> HIDE DEF new
<1>1. FilesTyped'
  <2> QED  BY <1>b, <1>d, <1>e, <1>f DEF FilesTyped, InHand, Steps, Bumps, EvalFrame, attempts
<1>2. RequestBehindLog'  BY DEF RequestBehindLog, FilesTyped, Bumps, files
<1>3. Counted'
  <2> SUFFICES ASSUME ~clobbered', NEW p \in Packets PROVE Counts(p)'  BY DEF Counted
  <2>0. /\ ~clobbered
        /\ \/ /\ counters = eval[e].seen
              /\ counters' = [eval[e].seen EXCEPT ![eval[e].k[1]] = count]
              /\ line = "direct_l3" => ~Exceeded(count)
           \/ line = "other" /\ counters' = counters
    <3> HIDE DEF count
    <3>1. CASE /\ counters' = [eval[e].seen EXCEPT ![eval[e].k[1]] = count]
               /\ clobbered' = (clobbered \/ counters # eval[e].seen)
               /\ line = "direct_l3" => ~Exceeded(count)
      <4>1. ~(clobbered \/ counters # eval[e].seen)  BY <3>1, Zenon
      <4> QED  BY <3>1, <4>1, Zenon
    <3>2. CASE line = "other" /\ UNCHANGED <<counters, clobbered>>
      <4>1. clobbered' = clobbered /\ counters' = counters  BY <3>2
      <4>2. clobbered \in BOOLEAN  BY DEF FilesTyped
      <4>3. ~clobbered  BY <4>1, <4>2, SMT
      <4> QED  BY <3>2, <4>1, <4>3, Zenon
    <3> QED  BY <1>c0, <3>1, <3>2, Zenon
  <2>1. ~clobbered /\ UNCHANGED calls
    <3>1. UNCHANGED calls  BY DEF Bumps
    <3> QED  BY <2>0, <3>1
  <2>2. /\ IsFiniteSet(Calling(p)) /\ Cardinality(Calling(p)) \in Nat
        /\ calls[p] \in Nat /\ counters[p] \in Nat /\ Cap \in Nat
    BY CallingFinite DEF AcceptanceConstants, FilesTyped
  <2>3. Counts(p)  BY <2>1 DEF Counted
  <2>4. CASE line = "direct_l3" /\ eval[e].k[1] = p
    <3>1. counters = eval[e].seen /\ counters'[p] = counters[p] + 1 /\ counters[p] + 1 <= Cap
      BY <1>b, <2>0, <2>2, <2>4 DEF Exceeded, FilesTyped
    <3>2. Calling(p)' = Calling(p) \cup {e} /\ e \notin Calling(p)
      BY <1>b, <1>d, <1>e, <2>4 DEF Calling, FilesTyped, Bumps
    <3>3. Cardinality(Calling(p)') = Cardinality(Calling(p)) + 1  BY <2>2, <3>2, FS_AddElement
    <3> QED  BY <2>1, <2>2, <2>3, <3>1, <3>3 DEF Counts
  <2>5. CASE ~(line = "direct_l3" /\ eval[e].k[1] = p)
    <3>1. Calling(p)' = Calling(p)
      BY <1>b, <1>d, <1>e, <2>5 DEF Calling, FilesTyped, Bumps
    <3>2. counters'[p] >= counters[p] /\ counters'[p] \in Nat
      BY <1>b, <2>0, <2>2 DEF FilesTyped
    <3> QED  BY <2>1, <2>2, <2>3, <3>1, <3>2 DEF Counts
  <2> QED  BY <2>4, <2>5
<1> QED  BY <1>1, <1>2, <1>3

\* The line is written: what was about to be a call is one.
LEMMA LogsKeeps ==
  ASSUME AcceptanceConstants, Evaluable, NEW e \in Evaluators, Logs(e)
  PROVE  Evaluable'
<1> USE DEF Evaluable
<1>q. /\ eval[e].k \in Keys /\ eval[e].k[1] \in Packets
      /\ eval[e].line = "send_l2" => pending[eval[e].k] > 0
  BY DEF FilesTyped, InHand, Logs, Keys
<1>r. eval' = [eval EXCEPT ![e] = Idle] /\ Idle.at = "idle"  BY DEF Logs, Go, Idle
<1>s. /\ calls' = [calls EXCEPT ![eval[e].k[1]] = IF eval[e].line = "direct_l3" THEN @ + 1 ELSE @]
      /\ requested' = IF eval[e].line = "send_l2" THEN requested \cup {eval[e].k} ELSE requested
  BY DEF Logs
<1>1. FilesTyped'
  <2> QED  BY <1>q, <1>r, <1>s DEF FilesTyped, InHand, Steps, Logs, EvalFrame, attempts
<1>2. RequestBehindLog'  BY <1>q DEF RequestBehindLog, Logs
<1>3. Counted'
  <2> SUFFICES ASSUME ~clobbered', NEW p \in Packets PROVE Counts(p)'  BY DEF Counted
  <2>1. ~clobbered /\ UNCHANGED counters  BY DEF Logs
  <2>2. /\ IsFiniteSet(Calling(p)) /\ Cardinality(Calling(p)) \in Nat
        /\ calls[p] \in Nat /\ counters[p] \in Nat /\ Cap \in Nat
    BY CallingFinite DEF AcceptanceConstants, FilesTyped
  <2>3. Counts(p)  BY <2>1 DEF Counted
  <2>4. Calling(p)' = Calling(p) \ {e}  BY <1>r DEF Calling, FilesTyped
  <2>5. CASE e \in Calling(p)
    <3>1. calls'[p] = calls[p] + 1  BY <1>q, <1>s, <2>2, <2>5 DEF Calling, FilesTyped
    <3>2. Cardinality(Calling(p)') = Cardinality(Calling(p)) - 1
      BY <2>2, <2>4, <2>5, FS_RemoveElement
    <3> QED  BY <2>1, <2>2, <2>3, <3>1, <3>2 DEF Counts
  <2>6. CASE e \notin Calling(p)
    <3>1. calls'[p] = calls[p]  BY <1>q, <1>s, <2>2, <2>6 DEF Calling, FilesTyped, Logs
    <3>2. Calling(p)' = Calling(p)  BY <2>4, <2>6
    <3> QED  BY <2>1, <2>2, <2>3, <3>1, <3>2 DEF Counts
  <2> QED  BY <2>5, <2>6
<1> QED  BY <1>1, <1>2, <1>3

LEMMA EvaluableStep == ASSUME AcceptanceConstants, Evaluable, [Next]_vars PROVE Evaluable'
<1>1. ASSUME UNCHANGED vars PROVE Evaluable'
  <2>1. UNCHANGED <<attempt, pending, counters, requested, calls, clobbered, eval>>
    BY <1>1 DEF vars, attempts, files
  <2>2. FilesTyped' /\ RequestBehindLog'
    BY <2>1 DEF Evaluable, FilesTyped, InHand, RequestBehindLog
  <2>3. Counted'  BY <2>1 DEF Evaluable, Counted, Counts, Calling
  <2> QED  BY <2>2, <2>3 DEF Evaluable
<1> QED  BY <1>1, FinalizeKeeps, SupersedeKeeps, CompletesKeeps, EvaluatesKeeps, LooksKeeps,
            AppendsKeeps, ReadsKeeps, BumpsKeeps, LogsKeeps, DiesKeeps
         DEF Next, Evaluation

\* Files and evaluators keep the invariant, for any table, cap and number of evaluators.
THEOREM EvaluatorsSound == Spec => []Evaluable
<1>1. AcceptanceConstants  BY AcceptanceConstants
<1> QED  BY <1>1, EvaluableInit, EvaluableStep, PTL DEF Spec

\* apply_routing_mode() has the request in the queue before main() logs it, whoever dies.
THEOREM LogAfterRequest == Spec => []RequestBehindLog
<1>1. Evaluable => RequestBehindLog  BY DEF Evaluable
<1> QED  BY <1>1, EvaluatorsSound, PTL

\* bump_l3_counter() keeps a packet's calls of L3 under the cap while no two evaluators
\* replaced the counters over each other.
THEOREM CapKept == Spec => []L3CapHeld
<1>1. Evaluable => L3CapHeld
  <2> SUFFICES ASSUME Evaluable, ~clobbered, NEW p \in Packets PROVE calls[p] <= Cap
    BY DEF L3CapHeld
  <2>1. Cardinality(Calling(p)) \in Nat /\ calls[p] \in Nat /\ Cap \in Nat
    BY AcceptanceConstants, CallingFinite DEF AcceptanceConstants, Evaluable, FilesTyped
  <2>2. Counts(p)  BY DEF Evaluable, Counted
  <2> QED  BY <2>1, <2>2 DEF Counts
<1> QED  BY <1>1, EvaluatorsSound, PTL
=============================================================================
