------------------------------- MODULE L2Queue -------------------------------
(***************************************************************************)
(* The verification queue of harness/l2_consumer.py.  Requests wait in     *)
(* pending.ndjsonl; drainers claim them by creating claims/<key>.json      *)
(* exclusively, announce them to the state machine and launch one verifier *)
(* job each; reapers move stale claims to reaped/; the supervisor of a     *)
(* verifier publishes the completion.  The files are the only state, and   *)
(* any of these processes may die between two of its writes.               *)
(***************************************************************************)
EXTENDS Integers, FiniteSets

CONSTANTS Keys,       \* idempotency keys, one per semantic request
          Drainers,   \* processes in drain()
          Reapers,    \* processes in reap_stale_claims()
          Jobs,       \* verifier processes with their supervisors
          NoKey,
          claim_max_reclaims,
          MaxCrashes  \* bound: deaths of drainers, reapers and supervisors

ASSUME QueueOK ==
  /\ NoKey \notin Keys /\ IsFiniteSet(Reapers)
  /\ claim_max_reclaims \in Nat /\ MaxCrashes \in Nat

VARIABLES
  pending,            \* keys in pending.ndjsonl
  aged,               \* those older than l2_max_age_s
  claims,             \* claims/<key>.json
  reaped,             \* numbers of the files reaped/<key>.<n>.json; 0: .corrupt
  completions,        \* completions/<key>.json
  events,             \* events of a key's packet in events.ndjson
  births,             \* keys with a birth claim .claim-l2v-<key>.json
  at, rec,            \* a drainer's place and record
  rat, rkey, rnum,    \* a reaper's place, claim and number for reaped/
  jat, jkey, jres,    \* a verifier's place, key and validated result
  handed,             \* how often a key was handed to the dispatcher
  crashes

queue == <<pending, aged, claims, completions, events>>
drainer == <<at, rec, handed>>
reaper == <<rat, rkey, rnum, reaped>>
jobs == <<jat, jkey, jres, births>>
vars == <<queue, drainer, reaper, jobs, crashes>>

Claims == {"none", "empty", "empty_old", "fresh", "stale"}
Completions == {"none", "verdict", "invalid", "unreadable", "escalated_l3", "stale_escalated"}
Results == {"verdict", "invalid", "unreadable"}
Events == {"l2_requested", "verdict", "exec_failed", "verdict_escalate_l3",
           "l2_claim_reaped", "l2_consumer_stale"}
AtStates == {"idle", "checked", "opened", "claimed", "announced", "dispatching",
             "unclaimed", "incomplete", "marked"}
RatStates == {"idle", "seen", "moved", "escalating"}
JatStates == {"unborn", "running", "checked", "marked", "emitted", "ended"}

Init ==
  /\ pending = {} /\ aged = {}
  /\ claims = [k \in Keys |-> "none"]
  /\ reaped = [k \in Keys |-> {}]
  /\ completions = [k \in Keys |-> "none"]
  /\ events = [k \in Keys |-> {}]
  /\ births = {}
  /\ at = [d \in Drainers |-> "idle"] /\ rec = [d \in Drainers |-> NoKey]
  /\ rat = [p \in Reapers |-> "idle"] /\ rkey = [p \in Reapers |-> NoKey]
  /\ rnum = [p \in Reapers |-> 0]
  /\ jat = [j \in Jobs |-> "unborn"] /\ jkey = [j \in Jobs |-> NoKey]
  /\ jres = [j \in Jobs |-> "none"]
  /\ handed = [k \in Keys |-> 0]
  /\ crashes = 0

Completed(k) == completions[k] # "none"
Emit(k, e) == events' = [events EXCEPT ![k] = @ \cup {e}]
GoD(d, place) == at' = [at EXCEPT ![d] = place]
GoR(p, place) == rat' = [rat EXCEPT ![p] = place]
GoJ(j, place) == jat' = [jat EXCEPT ![j] = place]

\* A drainer that is past the exclusive create and not yet through the dispatch.
Working(d, k) == rec[d] = k /\ at[d] \in {"opened", "claimed", "announced", "dispatching"}
\* A verifier that runs or is publishing.
Verifying(j, k) == jkey[j] = k /\ jat[j] \notin {"unborn", "ended"}

-----------------------------------------------------------------------------
(* Producers and the clock. *)

\* enqueue(): the key decides, so a second line with it changes nothing.
enqueue(k) ==
  /\ k \notin pending
  /\ pending' = pending \cup {k}
  /\ UNCHANGED <<aged, claims, completions, events, drainer, reaper, jobs, crashes>>

RecordAges(k) ==
  /\ k \in pending \ aged
  /\ aged' = aged \cup {k}
  /\ UNCHANGED <<pending, claims, completions, events, drainer, reaper, jobs, crashes>>

\* claim_stale_after_s pass without a heartbeat: no drainer is at work on the
\* claim (a drainer takes seconds up to its heartbeat thread).
ClaimAges(k) ==
  /\ claims[k] \in {"fresh", "empty"}
  /\ \A d \in Drainers : ~Working(d, k)
  /\ claims' = [claims EXCEPT ![k] = IF @ = "fresh" THEN "stale" ELSE "empty_old"]
  /\ UNCHANGED <<pending, aged, completions, events, drainer, reaper, jobs, crashes>>

\* dispatch.py takes a birth claim over after two hours; a verifier is stopped
\* after half an hour.
BirthClaimAges(k) ==
  /\ k \in births
  /\ \A j \in Jobs : ~Verifying(j, k)
  /\ \A d \in Drainers : rec[d] # k
  /\ births' = births \ {k}
  /\ UNCHANGED <<queue, drainer, reaper, jat, jkey, jres, crashes>>

-----------------------------------------------------------------------------
(* drain(), one record at a time: the records are independent. *)

CheckRecord(d, k) ==
  /\ at[d] = "idle" /\ k \in pending /\ ~Completed(k)
  /\ GoD(d, "checked")
  /\ rec' = [rec EXCEPT ![d] = k]
  /\ UNCHANGED <<queue, handed, reaper, jobs, crashes>>

\* Mutant: look whether the file exists, then write it.
try_claim_Overwrites(d) ==
  /\ at[d] = "checked"
  /\ claims' = [claims EXCEPT ![rec[d]] = "empty"]
  /\ GoD(d, "opened")
  /\ UNCHANGED <<pending, aged, completions, events, rec, handed, reaper, jobs, crashes>>

\* os.open(O_CREAT | O_EXCL).
try_claim(d) ==
  /\ at[d] = "checked" /\ claims[rec[d]] = "none"
  /\ claims' = [claims EXCEPT ![rec[d]] = "empty"]
  /\ GoD(d, "opened")
  /\ UNCHANGED <<pending, aged, completions, events, rec, handed, reaper, jobs, crashes>>

AlreadyClaimed(d) ==
  /\ at[d] = "checked" /\ claims[rec[d]] # "none"
  /\ GoD(d, "idle")
  /\ rec' = [rec EXCEPT ![d] = NoKey]
  /\ UNCHANGED <<queue, handed, reaper, jobs, crashes>>

WriteClaim(d) ==
  /\ at[d] = "opened"
  /\ claims' = [claims EXCEPT ![rec[d]] = "fresh"]
  /\ GoD(d, "claimed")
  /\ UNCHANGED <<pending, aged, completions, events, rec, handed, reaper, jobs, crashes>>

\* The l2_requested event and the demand record.
Announce(d) ==
  /\ at[d] = "claimed"
  /\ Emit(rec[d], "l2_requested")
  /\ GoD(d, "announced")
  /\ UNCHANGED <<pending, aged, claims, completions, rec, handed, reaper, jobs, crashes>>

\* Enter the heartbeat guard and call the dispatcher.
HandToDispatcher(d) ==
  /\ at[d] = "announced"
  /\ handed' = [handed EXCEPT ![rec[d]] = @ + 1]
  /\ GoD(d, "dispatching")
  /\ UNCHANGED <<queue, rec, reaper, jobs, crashes>>

\* The heartbeat thread: it read the claim earlier and now replaces it.
Beat(d) ==
  /\ at[d] = "dispatching"
  /\ claims' = [claims EXCEPT ![rec[d]] = "fresh"]
  /\ UNCHANGED <<pending, aged, completions, events, drainer, reaper, jobs, crashes>>

Done(d) ==
  /\ GoD(d, "idle")
  /\ rec' = [rec EXCEPT ![d] = NoKey]

\* Mutant: a birth does not ask for the birth claim.
Birth_Unclaimed(d, j) ==
  /\ at[d] = "dispatching" /\ jat[j] = "unborn"
  /\ births' = births \cup {rec[d]}
  /\ GoJ(j, "running")
  /\ jkey' = [jkey EXCEPT ![j] = rec[d]]
  /\ Done(d)
  /\ UNCHANGED <<queue, handed, reaper, jres, crashes>>

\* dispatch_single() of the job l2v-<key>: the verifier is born under its birth
\* claim and lives on after the guard is left.
Birth(d, j) ==
  /\ at[d] = "dispatching" /\ rec[d] \notin births /\ jat[j] = "unborn"
  /\ births' = births \cup {rec[d]}
  /\ GoJ(j, "running")
  /\ jkey' = [jkey EXCEPT ![j] = rec[d]]
  /\ Done(d)
  /\ UNCHANGED <<queue, handed, reaper, jres, crashes>>

\* Refused, throttled or not launched; an error between the birth claim and the
\* launch leaves the birth claim behind.  The claim of the record stays.
DispatchFails(d) ==
  /\ at[d] = "dispatching"
  /\ births' \in {births, births \cup {rec[d]}}
  /\ Done(d)
  /\ UNCHANGED <<queue, handed, reaper, jat, jkey, jres, crashes>>

-----------------------------------------------------------------------------
(* check_stale_pending(), at the end of a pass. *)

StaleUnclaimed(d, k) ==
  /\ at[d] = "idle" /\ k \in aged /\ claims[k] = "none"
  /\ GoD(d, "unclaimed")
  /\ rec' = [rec EXCEPT ![d] = k]
  /\ UNCHANGED <<queue, handed, reaper, jobs, crashes>>

StaleCheck(d) ==
  /\ at[d] = "unclaimed"
  /\ \/ Completed(rec[d]) /\ Done(d)
     \/ ~Completed(rec[d]) /\ GoD(d, "incomplete") /\ UNCHANGED rec
  /\ UNCHANGED <<queue, handed, reaper, jobs, crashes>>

StaleMark(d) ==
  /\ at[d] = "incomplete"
  /\ completions' = [completions EXCEPT ![rec[d]] = "stale_escalated"]
  /\ GoD(d, "marked")
  /\ UNCHANGED <<pending, aged, claims, events, rec, handed, reaper, jobs, crashes>>

\* The event and the wake file.
StaleEmit(d) ==
  /\ at[d] = "marked"
  /\ Emit(rec[d], "l2_consumer_stale")
  /\ Done(d)
  /\ UNCHANGED <<pending, aged, claims, completions, handed, reaper, jobs, crashes>>

-----------------------------------------------------------------------------
(* reap_stale_claims() *)

\* Mutant: a claim that does not parse is passed over.
ReapCorrupt_Skips(p, k) ==
  /\ rat[p] = "idle" /\ claims[k] = "empty_old"
  /\ UNCHANGED vars

\* A claim without a body.
ReapCorrupt(p, k) ==
  /\ rat[p] = "idle" /\ claims[k] = "empty_old"
  /\ claims' = [claims EXCEPT ![k] = "none"]
  /\ reaped' = [reaped EXCEPT ![k] = @ \cup {0}]
  /\ UNCHANGED <<pending, aged, completions, events, drainer, rat, rkey, rnum, jobs, crashes>>

reclaim_count(k) == Cardinality(reaped[k])

ReapSee(p, k) ==
  /\ rat[p] = "idle" /\ claims[k] = "stale" /\ ~Completed(k)
  /\ GoR(p, "seen")
  /\ rkey' = [rkey EXCEPT ![p] = k]
  /\ rnum' = [rnum EXCEPT ![p] = reclaim_count(k) + 1]
  /\ UNCHANGED <<queue, drainer, reaped, jobs, crashes>>

\* os.replace(claim, reaped/<key>.<n>.json), which fails if the claim is gone.
ReapMove(p) ==
  /\ rat[p] = "seen"
  /\ LET k == rkey[p]
     IN \/ /\ claims[k] = "none"
           /\ GoR(p, "idle")
           /\ UNCHANGED <<claims, reaped>>
        \/ /\ claims[k] # "none"
           /\ claims' = [claims EXCEPT ![k] = "none"]
           /\ reaped' = [reaped EXCEPT ![k] = @ \cup {rnum[p]}]
           /\ GoR(p, "moved")
  /\ UNCHANGED <<pending, aged, completions, events, drainer, rkey, rnum, jobs, crashes>>

ReapReport_Endless(p) ==
  /\ rat[p] = "moved"
  /\ Emit(rkey[p], "l2_claim_reaped")
  /\ GoR(p, "idle")
  /\ UNCHANGED <<pending, aged, claims, completions, drainer, rkey, rnum, reaped, jobs, crashes>>

\* Within the budget the record may be claimed again.
ReapReport(p) ==
  /\ rat[p] = "moved" /\ rnum[p] <= claim_max_reclaims
  /\ Emit(rkey[p], "l2_claim_reaped")
  /\ GoR(p, "idle")
  /\ UNCHANGED <<pending, aged, claims, completions, drainer, rkey, rnum, reaped, jobs, crashes>>

\* Past it: first the event, then the poison-pill completion (and the wake file).
EscalateEmit(p) ==
  /\ rat[p] = "moved" /\ rnum[p] > claim_max_reclaims
  /\ Emit(rkey[p], "verdict_escalate_l3")
  /\ GoR(p, "escalating")
  /\ UNCHANGED <<pending, aged, claims, completions, drainer, rkey, rnum, reaped, jobs, crashes>>

EscalateMark(p) ==
  /\ rat[p] = "escalating"
  /\ completions' = [completions EXCEPT ![rkey[p]] = "escalated_l3"]
  /\ GoR(p, "idle")
  /\ UNCHANGED <<pending, aged, claims, events, drainer, rkey, rnum, reaped, jobs, crashes>>

-----------------------------------------------------------------------------
(* complete(), called by the supervisor of a verifier that left a report. *)

CompleteCheck(j) ==
  /\ jat[j] = "running"
  /\ GoJ(j, IF Completed(jkey[j]) THEN "ended" ELSE "checked")
  /\ UNCHANGED <<queue, drainer, reaper, jkey, jres, births, crashes>>

\* The verifier failed, timed out or left no report: complete() is not called.
VerifierFails(j) ==
  /\ jat[j] = "running"
  /\ GoJ(j, "ended")
  /\ UNCHANGED <<queue, drainer, reaper, jkey, jres, births, crashes>>

\* The immutable marker, whatever the validation said.
CompleteMark(j) ==
  /\ jat[j] = "checked"
  /\ \E result \in Results :
       /\ completions' = [completions EXCEPT ![jkey[j]] = result]
       /\ jres' = [jres EXCEPT ![j] = result]
  /\ GoJ(j, "marked")
  /\ UNCHANGED <<pending, aged, claims, events, drainer, reaper, jkey, births, crashes>>

\* The event goes to the packet that the report names: an unreadable report
\* names none.
CompleteEmit(j) ==
  /\ jat[j] = "marked"
  /\ \/ jres[j] = "verdict" /\ Emit(jkey[j], "verdict")
     \/ jres[j] = "invalid" /\ Emit(jkey[j], "exec_failed")
     \/ jres[j] = "unreadable" /\ UNCHANGED events
  /\ GoJ(j, "emitted")
  /\ UNCHANGED <<pending, aged, claims, completions, drainer, reaper, jkey, jres, births, crashes>>

CompleteUnlink(j) ==
  /\ jat[j] = "emitted"
  /\ claims' = [claims EXCEPT ![jkey[j]] = "none"]
  /\ GoJ(j, "ended")
  /\ UNCHANGED <<pending, aged, completions, events, drainer, reaper, jkey, jres, births, crashes>>

-----------------------------------------------------------------------------
(* Deaths. *)

DrainerDies(d) ==
  /\ at[d] # "idle" /\ crashes < MaxCrashes
  /\ Done(d)
  /\ crashes' = crashes + 1
  /\ UNCHANGED <<queue, handed, reaper, jobs>>

ReaperDies(p) ==
  /\ rat[p] # "idle" /\ crashes < MaxCrashes
  /\ GoR(p, "idle")
  /\ crashes' = crashes + 1
  /\ UNCHANGED <<queue, drainer, rkey, rnum, reaped, jobs>>

\* Inside complete(); before it, the death is VerifierFails.
SupervisorDies(j) ==
  /\ jat[j] \in {"checked", "marked", "emitted"} /\ crashes < MaxCrashes
  /\ GoJ(j, "ended")
  /\ crashes' = crashes + 1
  /\ UNCHANGED <<queue, drainer, reaper, jkey, jres, births>>

-----------------------------------------------------------------------------
drain(d) ==
  \/ \E k \in Keys : CheckRecord(d, k)
  \/ try_claim(d) \/ AlreadyClaimed(d) \/ WriteClaim(d) \/ Announce(d)
  \/ HandToDispatcher(d) \/ DispatchFails(d)
  \/ \E j \in Jobs : Birth(d, j)

check_stale_pending(d) ==
  \/ \E k \in Keys : StaleUnclaimed(d, k)
  \/ StaleCheck(d) \/ StaleMark(d) \/ StaleEmit(d)

reap_stale_claims(p) ==
  \/ \E k \in Keys : ReapCorrupt(p, k) \/ ReapSee(p, k)
  \/ ReapMove(p) \/ ReapReport(p) \/ EscalateEmit(p) \/ EscalateMark(p)

complete(j) ==
  CompleteCheck(j) \/ CompleteMark(j) \/ CompleteEmit(j) \/ CompleteUnlink(j)

Next ==
  \/ \E k \in Keys : enqueue(k) \/ RecordAges(k) \/ ClaimAges(k) \/ BirthClaimAges(k)
  \/ \E d \in Drainers : drain(d) \/ check_stale_pending(d) \/ Beat(d) \/ DrainerDies(d)
  \/ \E p \in Reapers : reap_stale_claims(p) \/ ReaperDies(p)
  \/ \E j \in Jobs : complete(j) \/ VerifierFails(j) \/ SupervisorDies(j)

Spec == Init /\ [][Next]_vars

\* Somebody keeps running `l2_consumer.py recover': passes of the reaper and of
\* the drainer come again and again and run to their end, verifiers end, and
\* claims without a heartbeat grow old.
FairSpec ==
  /\ Spec
  /\ \A d \in Drainers : WF_vars(drain(d) \/ check_stale_pending(d))
  /\ \A p \in Reapers : WF_vars(reap_stale_claims(p))
  /\ \A j \in Jobs : WF_vars(complete(j) \/ VerifierFails(j))
  /\ \A k \in Keys : WF_vars(ClaimAges(k))

-----------------------------------------------------------------------------
TypeOK ==
  /\ pending \subseteq Keys /\ aged \subseteq Keys
  /\ claims \in [Keys -> Claims] /\ completions \in [Keys -> Completions]
  /\ reaped \in [Keys -> SUBSET Nat] /\ events \in [Keys -> SUBSET Events]
  /\ births \subseteq Keys
  /\ at \in [Drainers -> AtStates] /\ rec \in [Drainers -> Keys \cup {NoKey}]
  /\ rat \in [Reapers -> RatStates] /\ rkey \in [Reapers -> Keys \cup {NoKey}]
  /\ rnum \in [Reapers -> Nat]
  /\ jat \in [Jobs -> JatStates] /\ jkey \in [Jobs -> Keys \cup {NoKey}]
  /\ jres \in [Jobs -> Results \cup {"none"}]
  /\ handed \in [Keys -> Nat] /\ crashes \in Nat

\* The exclusive create is the exactly-once gate: a request that was neither
\* reaped nor completed was handed to the dispatcher at most once.
ExactlyOnceGate ==
  \A k \in Keys : reaped[k] = {} /\ ~Completed(k) => handed[k] <= 1

\* Never two verifiers of one request at the same time, through reaping,
\* re-claiming and late completions.
OneVerifier ==
  \A k \in Keys : \A i, j \in Jobs : Verifying(i, k) /\ Verifying(j, k) => i = j

\* The state machine hears of the request before it hears of its verdict
\* (transition 30 before 31 to 34).
VerdictAfterRequest ==
  \A k \in Keys : "verdict" \in events[k] => "l2_requested" \in events[k]

\* A request given up for good was escalated to the packet first, even if the
\* reaper died in between.
EscalationVisible ==
  \A k \in Keys :
    completions[k] = "escalated_l3" => "verdict_escalate_l3" \in events[k]

\* A request is reclaimed claim_max_reclaims times, and then once by every reaper at most - they
\* look for the completion before they move the claim and write it after - and once more for
\* every death (l2_consumer.py:758 reap_stale_claims).
ReclaimBudget ==
  \A k \in Keys : reclaim_count(k) <= claim_max_reclaims + Cardinality(Reapers) + crashes

(* What makes these inductive. *)

\* A process at work has its key; a marker exists before its event and unlink.
Placed ==
  /\ \A d \in Drainers : at[d] # "idle" => rec[d] \in Keys
  /\ \A p \in Reapers : rat[p] # "idle" => rkey[p] \in Keys
  /\ \A j \in Jobs :
       /\ jat[j] # "unborn" => jkey[j] \in Keys
       /\ jat[j] \in {"marked", "emitted"} => Completed(jkey[j])
  /\ \A k \in Keys : IsFiniteSet(reaped[k])

\* A drainer that has the claim and has not yet used it.
Holding(d, k) == rec[d] = k /\ at[d] \in {"opened", "claimed", "announced"}

\* While a request is neither reaped nor completed its claim file stays, one
\* drainer at most holds it, and it is used once.
Gate ==
  \A k \in Keys : reaped[k] = {} /\ ~Completed(k) =>
    /\ handed[k] <= 1
    /\ handed[k] = 1 => claims[k] # "none"
    /\ \A d \in Drainers : Holding(d, k) => claims[k] # "none" /\ handed[k] = 0
    /\ \A d, e \in Drainers : Holding(d, k) /\ Holding(e, k) => d = e

\* Whoever could cause a verdict has announced the request.
Heard ==
  /\ \A d \in Drainers :
       at[d] \in {"announced", "dispatching"} => "l2_requested" \in events[rec[d]]
  /\ \A j \in Jobs : jat[j] # "unborn" => "l2_requested" \in events[jkey[j]]
  /\ \A p \in Reapers :
       rat[p] = "escalating" => "verdict_escalate_l3" \in events[rkey[p]]

\* A verifier at work has its birth claim.
Born == \A k \in Keys : \A j \in Jobs : Verifying(j, k) => k \in births

Sound ==
  /\ TypeOK /\ Placed /\ Gate
  /\ Heard /\ VerdictAfterRequest /\ EscalationVisible
  /\ Born /\ OneVerifier

\* A claim file without a body is a dead drainer's, or of one that is about to write it.
Opened(k) == \E d \in Drainers : rec[d] = k /\ at[d] = "opened"
Abandoned(k) == 0 \in reaped[k] \/ (claims[k] \in {"empty", "empty_old"} /\ ~Opened(k))

Looking(k) == {p \in Reapers : rkey[p] = k /\ rat[p] = "seen"}
Answering(k) ==
  {p \in Reapers : rkey[p] = k /\ rat[p] \in {"moved", "escalating"} /\ rnum[p] > claim_max_reclaims}
PastBudget(k) == {n \in reaped[k] : n > claim_max_reclaims}

\* A move past the budget is answered for by the reaper that made it, until there is a
\* completion; then only those that looked before may still move, once each.
ReclaimsSound ==
  /\ \A k \in Keys : claims[k] = "empty_old" => ~Opened(k)
  /\ \A p \in Reapers : rat[p] = "seen" => rnum[p] > 0
  /\ \A k \in Keys :
       LET spent == Cardinality(PastBudget(k)) + IF Abandoned(k) THEN 1 ELSE 0
       IN IF Completed(k) THEN spent + Cardinality(Looking(k)) <= Cardinality(Reapers) + crashes
          ELSE spent <= Cardinality(Answering(k)) + crashes

\* Every request ends in a completion marker.
EveryRequestSettles ==
  \A k \in Keys : (k \in pending) ~> Completed(k)

==============================================================================
