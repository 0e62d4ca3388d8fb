------------------------------ MODULE WorkerRun ------------------------------
(***************************************************************************)
(* The runs of one packet, from dispatch to outcome:                       *)
(* dispatch_single() in harness/dispatch.py takes the packet's birth claim *)
(* and launches a supervisor; run() in harness/lifecycle_supervisor.py     *)
(* owns the worker process, the packet's row of exec_roster.json and the   *)
(* outcome event; the session hooks of hooks/subagent_lifecycle.py ask for *)
(* cancellation and clean up after supervisors that died.                  *)
(***************************************************************************)
EXTENDS Integers, FiniteSets

CONSTANTS Runs,      \* run ids, each dispatched at most once
          NoRun,
          MaxFaults  \* bound: deaths of processes and failed writes

ASSUME RunsOK == NoRun \notin Runs /\ MaxFaults \in Nat

VARIABLES
  ledger,        \* progress_ledger.json: the packet's state, attempts, current_run_id;
                 \* seen: runs whose dispatched event is behind the cursor
  claim,         \* .claim-<packet>.json
  dat, datt,     \* a dispatcher's place and the attempt it read
  sat, out,      \* a supervisor's place and the outcome it is recording
  start, clock,  \* started_at of a supervisor; the wall clock
  worker,        \* the process group of a run
  row,           \* the packet's row of exec_roster.json; pid names the run whose os_pid it has
  cancel,        \* cancel/<packet>.json: the run it names
  events,        \* the outcome and dispatch events of a run in events.ndjson
  published,     \* runs whose report was published
  hat, hrun, hpid, hclean,  \* the SessionStart hook: place, candidate, its os_pid, cleaned
  pat, prun, asked,         \* the Stop hook: place, run to cancel; runs ever asked to stop
  faults

dispatcher == <<claim, dat, datt>>
supervisor == <<sat, out, start, clock>>
hooks == <<hat, hrun, hpid, hclean, pat, prun, asked>>
vars == <<ledger, dispatcher, supervisor, worker, row, cancel, events, published, hooks, faults>>

Outcomes == {"completed", "failed", "timed_out", "cancelled", "error"}
OutcomeEvents == {"subagent_stop", "exec_failed", "timeout"}
Events == OutcomeEvents \cup {"dispatched", "pre_spawn"}
LiveRows == {"starting", "running"}
TERMINAL_STATES == {"completed", "failed", "timed_out", "cancelled", "spawn_failed"}
DatStates == {"new", "ready", "created", "exists", "overtaking", "granted", "announced", "ended"}
SatStates == {"unborn", "launched", "begun", "registered", "spawned", "running",
              "deciding", "recorded", "logged", "ended", "dead"}

NoClaim == [run |-> NoRun, att |-> 0, body |-> FALSE, old |-> FALSE]

Init ==
  /\ ledger = [state |-> "DISPATCHABLE", attempts |-> 0, run |-> NoRun, seen |-> {}]
  /\ claim = NoClaim
  /\ dat = [r \in Runs |-> "new"] /\ datt = [r \in Runs |-> 0]
  /\ sat = [r \in Runs |-> "unborn"] /\ out = [r \in Runs |-> "failed"]
  /\ start = [r \in Runs |-> 0] /\ clock = 0
  /\ worker = [r \in Runs |-> "unborn"]
  /\ row = [run |-> NoRun, state |-> "none", start |-> 0, pid |-> NoRun]
  /\ cancel = NoRun
  /\ events = [r \in Runs |-> {}]
  /\ published = {}
  /\ hat = "idle" /\ hrun = NoRun /\ hpid = NoRun /\ hclean = FALSE
  /\ pat = "idle" /\ prun = NoRun /\ asked = {}
  /\ faults = 0

GoD(r, place) == dat' = [dat EXCEPT ![r] = place]
GoS(r, place) == sat' = [sat EXCEPT ![r] = place]
Emit(r, new) == events' = [events EXCEPT ![r] = @ \cup new]

SupervisorAlive(r) == r \in Runs /\ sat[r] \notin {"unborn", "ended", "dead"}

-----------------------------------------------------------------------------
(* The ledger, as the state machine moves it for this packet. *)

\* A dispatched event is drained, once: t3, or a duplicate or stale generation.
Admit(r) ==
  /\ "dispatched" \in events[r] /\ r \notin ledger.seen
  /\ LET fresh == ledger.state = "DISPATCHABLE" /\ datt[r] = ledger.attempts
     IN ledger' = [state |-> IF fresh THEN "RUNNING" ELSE ledger.state,
                   attempts |-> ledger.attempts,
                   run |-> IF fresh THEN r ELSE ledger.run,
                   seen |-> ledger.seen \cup {r}]
  /\ UNCHANGED <<dispatcher, supervisor, worker, row, cancel, events, published, hooks, faults>>

\* A pre-spawn failure of the admitted run: queued again within the attempt.
Requeue(r) ==
  /\ ledger.state = "RUNNING" /\ ledger.run = r
  /\ "pre_spawn" \in events[r]
  /\ ledger' = [state |-> "DISPATCHABLE", attempts |-> ledger.attempts, run |-> NoRun,
                seen |-> ledger.seen]
  /\ UNCHANGED <<dispatcher, supervisor, worker, row, cancel, events, published, hooks, faults>>

\* t9, t37: the admitted run failed, or nobody owns it when the watchdog looks;
\* the packet is queued again as a new attempt.
Retry(r) ==
  /\ ledger.state = "RUNNING" /\ ledger.run = r
  /\ events[r] \cap {"subagent_stop", "pre_spawn"} = {}
  /\ \/ events[r] \cap {"exec_failed", "timeout"} # {}
     \/ dat[r] = "ended" /\ ~SupervisorAlive(r)
  /\ ledger' = [state |-> "DISPATCHABLE", attempts |-> ledger.attempts + 1, run |-> NoRun,
                seen |-> ledger.seen]
  /\ UNCHANGED <<dispatcher, supervisor, worker, row, cancel, events, published, hooks, faults>>

-----------------------------------------------------------------------------
(* dispatch_single() for this packet. *)

\* dispatchable(), then packet_attempt().
ReadAttempt(r) ==
  /\ dat[r] = "new" /\ ledger.state = "DISPATCHABLE"
  /\ GoD(r, "ready")
  /\ datt' = [datt EXCEPT ![r] = ledger.attempts]
  /\ UNCHANGED <<ledger, claim, supervisor, worker, row, cancel, events, published, hooks, faults>>

\* before_spawn() refuses: nothing was taken yet.
Throttled(r) ==
  /\ dat[r] = "ready"
  /\ GoD(r, "ended")
  /\ UNCHANGED <<ledger, claim, datt, supervisor, worker, row, cancel, events, published, hooks, faults>>

\* claim_dispatch_slot(): os.open(O_CREAT | O_EXCL), the file is empty ...
CreateClaim(r) ==
  /\ dat[r] = "ready" /\ claim = NoClaim
  /\ claim' = [run |-> r, att |-> datt[r], body |-> FALSE, old |-> FALSE]
  /\ GoD(r, "created")
  /\ UNCHANGED <<ledger, datt, supervisor, worker, row, cancel, events, published, hooks, faults>>

\* ... until its body is written, into a file that may have been replaced since.
WriteClaim(r) ==
  /\ dat[r] = "created"
  /\ claim' = IF claim.run = r THEN [claim EXCEPT !.body = TRUE] ELSE claim
  /\ GoD(r, "granted")
  /\ UNCHANGED <<ledger, datt, supervisor, worker, row, cancel, events, published, hooks, faults>>

ClaimExists(r) ==
  /\ dat[r] = "ready" /\ claim # NoClaim
  /\ GoD(r, "exists")
  /\ UNCHANGED <<ledger, claim, datt, supervisor, worker, row, cancel, events, published, hooks, faults>>

SameGeneration(r) ==
  claim # NoClaim /\ claim.body /\ claim.att = datt[r] /\ ~claim.old

\* dispatch_refused, or the way to take the claim over.
ReadClaim(r) ==
  /\ dat[r] = "exists"
  /\ GoD(r, IF SameGeneration(r) THEN "ended" ELSE "overtaking")
  /\ UNCHANGED <<ledger, claim, datt, supervisor, worker, row, cancel, events, published, hooks, faults>>

TakeOver(r) ==
  /\ dat[r] = "overtaking"
  /\ claim' = [run |-> r, att |-> datt[r], body |-> TRUE, old |-> FALSE]
  /\ GoD(r, "granted")
  /\ UNCHANGED <<ledger, datt, supervisor, worker, row, cancel, events, published, hooks, faults>>

\* Two hours: longer than any run.
ClaimAges ==
  /\ claim # NoClaim /\ ~claim.old
  /\ dat[claim.run] = "ended" /\ ~SupervisorAlive(claim.run)
  /\ claim' = [claim EXCEPT !.old = TRUE]
  /\ UNCHANGED <<ledger, dat, datt, supervisor, worker, row, cancel, events, published, hooks, faults>>

\* The worktree pool is empty: sys.exit, and the claim stays.
WorktreeFails(r) ==
  /\ dat[r] = "granted"
  /\ GoD(r, "ended")
  /\ UNCHANGED <<ledger, claim, datt, supervisor, worker, row, cancel, events, published, hooks, faults>>

\* The spawn stamp and the dispatched event precede the birth.
Announce(r) ==
  /\ dat[r] = "granted"
  /\ Emit(r, {"dispatched"})
  /\ GoD(r, "announced")
  /\ UNCHANGED <<ledger, claim, datt, supervisor, worker, row, cancel, published, hooks, faults>>

Launch(r) ==
  /\ dat[r] = "announced"
  /\ GoD(r, "ended")
  /\ GoS(r, "launched")
  /\ UNCHANGED <<ledger, claim, datt, out, start, clock, worker, row, cancel, events, published, hooks, faults>>

\* Popen fails: the claim file, whoever's it is by now, is removed.
LaunchFails(r) ==
  /\ dat[r] = "announced" /\ faults < MaxFaults
  /\ faults' = faults + 1
  /\ claim' = NoClaim
  /\ Emit(r, {"exec_failed", "pre_spawn"})
  /\ GoD(r, "ended")
  /\ UNCHANGED <<ledger, datt, supervisor, worker, row, cancel, published, hooks>>

DispatcherDies(r) ==
  /\ dat[r] \in {"created", "granted", "announced"} /\ faults < MaxFaults
  /\ faults' = faults + 1
  /\ GoD(r, "ended")
  /\ UNCHANGED <<ledger, claim, datt, supervisor, worker, row, cancel, events, published, hooks>>

-----------------------------------------------------------------------------
(* Store.update(): the row under the roster lock. *)

\* Only the owner, or a `starting' record that is not older, changes the row.
\* The os_pid of the run before stays until it is written anew.
Updated(r, state, pid) ==
  IF row.run \in {r, NoRun} \/ (state = "starting" /\ start[r] >= row.start)
  THEN [run |-> r, state |-> state,
        start |-> IF state = "starting" THEN start[r] ELSE row.start, pid |-> pid]
  ELSE row

-----------------------------------------------------------------------------
(* The supervisor's run(). *)

Begin(r) ==
  /\ sat[r] = "launched"
  /\ clock' = clock + 1
  /\ start' = [start EXCEPT ![r] = clock + 1]
  /\ GoS(r, "begun")
  /\ UNCHANGED <<ledger, dispatcher, out, worker, row, cancel, events, published, hooks, faults>>

Register(r) ==
  /\ sat[r] = "begun"
  /\ row' = Updated(r, "starting", row.pid)
  /\ GoS(r, "registered")
  /\ UNCHANGED <<ledger, dispatcher, out, start, clock, worker, cancel, events, published, hooks, faults>>

Spawn(r) ==
  /\ sat[r] = "registered"
  /\ worker' = [worker EXCEPT ![r] = "alive"]
  /\ GoS(r, "spawned")
  /\ UNCHANGED <<ledger, dispatcher, out, start, clock, row, cancel, events, published, hooks, faults>>

RecordSpawn(r) ==
  /\ sat[r] = "spawned"
  /\ row' = Updated(r, "running", r)
  /\ GoS(r, "running")
  /\ UNCHANGED <<ledger, dispatcher, out, start, clock, worker, cancel, events, published, hooks, faults>>

Heartbeat(r) ==
  /\ sat[r] = "running" /\ worker[r] = "alive"
  /\ row' = Updated(r, "running", row.pid)
  /\ UNCHANGED <<ledger, dispatcher, supervisor, worker, cancel, events, published, hooks, faults>>

\* The worker ends: with its report, or without one or with an error.
WorkerExits(r) ==
  /\ worker[r] = "alive"
  /\ \E w \in {"reported", "failed"} : worker' = [worker EXCEPT ![r] = w]
  /\ UNCHANGED <<ledger, dispatcher, supervisor, row, cancel, events, published, hooks, faults>>

\* The loop is left with this outcome to record.
Decide(r, o) ==
  /\ out' = [out EXCEPT ![r] = o]
  /\ GoS(r, "deciding")

\* publish_report(), then the completion.
Complete(r) ==
  /\ sat[r] = "running" /\ worker[r] = "reported"
  /\ published' = published \cup {r}
  /\ Decide(r, "completed")
  /\ UNCHANGED <<ledger, dispatcher, start, clock, worker, row, cancel, events, hooks, faults>>

WorkerFailed(r) ==
  /\ sat[r] = "running" /\ worker[r] = "failed"
  /\ Decide(r, "failed")
  /\ UNCHANGED <<ledger, dispatcher, start, clock, worker, row, cancel, events, published, hooks, faults>>

\* cancel_request(): the file names this run and attempt.
CancelRequest(r) == cancel = r

\* Mutant: no timeout.
StopWorker_NoTimeout(r) ==
  /\ sat[r] = "running" /\ worker[r] = "alive" /\ CancelRequest(r)
  /\ worker' = [worker EXCEPT ![r] = "gone"]
  /\ Decide(r, "cancelled")
  /\ UNCHANGED <<ledger, dispatcher, start, clock, row, cancel, events, published, hooks, faults>>

\* A cancel request or the timeout: the process tree is killed.
StopWorker(r) ==
  /\ sat[r] = "running" /\ worker[r] = "alive"
  /\ worker' = [worker EXCEPT ![r] = "gone"]
  /\ Decide(r, IF CancelRequest(r) THEN "cancelled" ELSE "timed_out")
  /\ UNCHANGED <<ledger, dispatcher, start, clock, row, cancel, events, published, hooks, faults>>

RowState(r) ==
  IF out[r] # "error" THEN out[r] ELSE IF worker[r] = "unborn" THEN "spawn_failed" ELSE "failed"

Record(r) ==
  /\ sat[r] = "deciding"
  /\ row' = Updated(r, RowState(r), row.pid)
  /\ GoS(r, "recorded")
  /\ UNCHANGED <<ledger, dispatcher, out, start, clock, worker, cancel, events, published, hooks, faults>>

\* The outcome's event; an error before the birth is marked pre_spawn.
OutcomeEvent(r) ==
  CASE out[r] = "completed" -> {"subagent_stop"}
    [] out[r] = "timed_out" -> {"timeout"}
    [] out[r] = "error" /\ worker[r] = "unborn" -> {"exec_failed", "pre_spawn"}
    [] OTHER -> {"exec_failed"}

\* Mutant: the event may go out before the row is updated, which is then skipped.
Log_SkipsRow(r) ==
  /\ sat[r] \in {"deciding", "recorded"}
  /\ Emit(r, OutcomeEvent(r))
  /\ GoS(r, "logged")
  /\ UNCHANGED <<ledger, dispatcher, out, start, clock, worker, row, cancel, published, hooks, faults>>

\* append_event_once(): an event the log has already is not written again.
Log(r) ==
  /\ sat[r] = "recorded"
  /\ Emit(r, OutcomeEvent(r))
  /\ GoS(r, "logged")
  /\ UNCHANGED <<ledger, dispatcher, out, start, clock, worker, row, cancel, published, hooks, faults>>

\* finally: kill what is left of the group, drop the own cancel request, ask for
\* the terminal epilogue (TerminalEpilogue) and give the budget back.
Finish(r) ==
  /\ sat[r] = "logged"
  /\ worker' = [worker EXCEPT ![r] = IF @ = "unborn" THEN @ ELSE "gone"]
  /\ cancel' = IF cancel = r THEN NoRun ELSE cancel
  /\ GoS(r, "ended")
  /\ UNCHANGED <<ledger, dispatcher, out, start, clock, row, events, published, hooks, faults>>

\* Mutant: an exception after the outcome is logged is reported, too.
StepFails_Again(r) ==
  /\ sat[r] \in {"registered", "spawned", "running", "deciding", "recorded", "logged"}
  /\ faults < MaxFaults
  /\ faults' = faults + 1
  /\ Decide(r, "error")
  /\ UNCHANGED <<ledger, dispatcher, start, clock, worker, row, cancel, events, published, hooks>>

\* A step of run() raises: the handler records and logs the error; what the
\* handler itself cannot write it leaves out.
StepFails(r) ==
  /\ faults < MaxFaults
  /\ faults' = faults + 1
  /\ \/ /\ sat[r] \in {"registered", "spawned", "running"}
        /\ Decide(r, "error")
     \/ /\ sat[r] \in {"deciding", "recorded"} /\ out[r] # "error"
        /\ Decide(r, "error")
     \/ /\ sat[r] = "logged" /\ out[r] = "cancelled"  \* consume_cancel()
        /\ Decide(r, "error")
     \/ /\ sat[r] = "deciding" /\ out[r] = "error"
        /\ GoS(r, "recorded") /\ UNCHANGED out
     \/ /\ sat[r] = "recorded" /\ out[r] = "error"
        /\ GoS(r, "logged") /\ UNCHANGED out
  /\ UNCHANGED <<ledger, dispatcher, start, clock, worker, row, cancel, events, published, hooks>>

\* The supervisor is killed; its worker lives on.
SupervisorDies(r) ==
  /\ SupervisorAlive(r) /\ faults < MaxFaults
  /\ faults' = faults + 1
  /\ GoS(r, "dead")
  /\ UNCHANGED <<ledger, dispatcher, out, start, clock, worker, row, cancel, events, published, hooks>>

-----------------------------------------------------------------------------
(* The Stop hook: parent_stop() reads the roster, then writes cancel files. *)

ParentStop ==
  /\ pat = "idle" /\ row.state \in LiveRows
  /\ pat' = "seen" /\ prun' = row.run
  /\ UNCHANGED <<ledger, dispatcher, supervisor, worker, row, cancel, events, published,
                 hat, hrun, hpid, hclean, asked, faults>>

WriteCancel ==
  /\ pat = "seen"
  /\ cancel' = prun /\ asked' = asked \cup {prun}
  /\ pat' = "idle" /\ prun' = NoRun
  /\ UNCHANGED <<ledger, dispatcher, supervisor, worker, row, events, published,
                 hat, hrun, hpid, hclean, faults>>

-----------------------------------------------------------------------------
(* The SessionStart hook: cold_reconcile_exec(). *)

HookEnds == hat' = "idle" /\ hrun' = NoRun /\ hpid' = NoRun /\ hclean' = FALSE

\* Mutant: rows in state running are left alone.
Orphaned_Starting == row.state = "starting" /\ ~SupervisorAlive(row.run)

\* A live row without a live supervisor.
Orphaned == row.state \in LiveRows /\ ~SupervisorAlive(row.run)

Scan ==
  /\ hat = "idle" /\ Orphaned
  /\ hat' = "scanned" /\ hrun' = row.run /\ hpid' = row.pid
  /\ UNCHANGED <<ledger, dispatcher, supervisor, worker, row, cancel, events, published,
                 hclean, pat, prun, asked, faults>>

\* Kill the group that the row's os_pid names; without one nothing is known.
KillGroup ==
  /\ hat = "scanned"
  /\ hclean' = (hpid # NoRun)
  /\ worker' = IF hpid = NoRun THEN worker
               ELSE [worker EXCEPT ![hpid] = IF @ = "unborn" THEN @ ELSE "gone"]
  /\ hat' = "cleaned"
  /\ UNCHANGED <<ledger, dispatcher, supervisor, row, cancel, events, published,
                 hrun, hpid, pat, prun, asked, faults>>

\* Under the roster lock, if the row is still that generation's.
MarkLost ==
  /\ hat = "cleaned"
  /\ \/ /\ hclean /\ row.run = hrun /\ Orphaned
        /\ row' = [run |-> row.run, state |-> "lost", start |-> row.start, pid |-> row.pid]
        /\ hat' = "marked"
        /\ UNCHANGED <<hrun, hpid, hclean>>
     \/ /\ ~(hclean /\ row.run = hrun /\ Orphaned)
        /\ HookEnds
        /\ UNCHANGED row
  /\ UNCHANGED <<ledger, dispatcher, supervisor, worker, cancel, events, published,
                 pat, prun, asked, faults>>

LogLost ==
  /\ hat = "marked"
  /\ Emit(hrun, {"exec_failed"})
  /\ HookEnds
  /\ UNCHANGED <<ledger, dispatcher, supervisor, worker, row, cancel, published,
                 pat, prun, asked, faults>>

HookDies ==
  /\ hat # "idle" /\ faults < MaxFaults
  /\ faults' = faults + 1
  /\ HookEnds
  /\ UNCHANGED <<ledger, dispatcher, supervisor, worker, row, cancel, events, published,
                 pat, prun, asked>>

-----------------------------------------------------------------------------
Machine(r) == Admit(r) \/ Requeue(r) \/ Retry(r)

dispatch_single(r) ==
  \/ ReadAttempt(r) \/ CreateClaim(r) \/ WriteClaim(r) \/ ClaimExists(r)
  \/ ReadClaim(r) \/ TakeOver(r) \/ Announce(r) \/ Launch(r)

\* The supervisor up to its loop, and from the loop's end on.
run(r) ==
  \/ Begin(r) \/ Register(r) \/ Spawn(r) \/ RecordSpawn(r)
  \/ Complete(r) \/ WorkerFailed(r) \/ StopWorker(r)
  \/ Record(r) \/ Log(r) \/ Finish(r)

cold_reconcile_exec == Scan \/ KillGroup \/ MarkLost \/ LogLost

Next ==
  \/ ClaimAges
  \/ \E r \in Runs :
       \/ Machine(r) \/ dispatch_single(r) \/ Throttled(r) \/ WorktreeFails(r)
       \/ LaunchFails(r) \/ DispatcherDies(r)
       \/ run(r) \/ Heartbeat(r) \/ WorkerExits(r) \/ StepFails(r) \/ SupervisorDies(r)
  \/ ParentStop \/ WriteCancel
  \/ cold_reconcile_exec \/ HookDies

Spec == Init /\ [][Next]_vars

\* A dispatcher and a supervisor that are not killed run on (the timeout ends
\* every loop), and sessions keep starting.
FairSpec ==
  /\ Spec
  /\ \A r \in Runs : WF_vars(dispatch_single(r)) /\ WF_vars(run(r))
  /\ WF_vars(cold_reconcile_exec)

-----------------------------------------------------------------------------
TypeOK ==
  /\ ledger \in [state : {"DISPATCHABLE", "RUNNING"}, attempts : Nat, run : Runs \cup {NoRun},
                seen : SUBSET Runs]
  /\ claim \in [run : Runs \cup {NoRun}, att : Nat, body : BOOLEAN, old : BOOLEAN]
  /\ dat \in [Runs -> DatStates] /\ datt \in [Runs -> Nat]
  /\ sat \in [Runs -> SatStates] /\ out \in [Runs -> Outcomes]
  /\ start \in [Runs -> Nat] /\ clock \in Nat
  /\ worker \in [Runs -> {"unborn", "alive", "reported", "failed", "gone"}]
  /\ row \in [run : Runs \cup {NoRun}, state : LiveRows \cup TERMINAL_STATES \cup {"none", "lost"},
              start : Nat, pid : Runs \cup {NoRun}]
  /\ cancel \in Runs \cup {NoRun}
  /\ events \in [Runs -> SUBSET Events]
  /\ published \subseteq Runs
  /\ hat \in {"idle", "scanned", "cleaned", "marked"}
  /\ hrun \in Runs \cup {NoRun} /\ hpid \in Runs \cup {NoRun} /\ hclean \in BOOLEAN
  /\ pat \in {"idle", "seen"} /\ prun \in Runs \cup {NoRun} /\ asked \subseteq Runs
  /\ faults \in 0..MaxFaults

Ended(r) == events[r] \cap OutcomeEvents # {}

\* Whatever fails on the way, the log never tells two different endings of a run.
OneOutcome ==
  \A r \in Runs : \A e, f \in events[r] \cap OutcomeEvents : e = f

\* A stop event is believed by the state machine only with a report; it is never
\* written before the run's report is in place.
StopAfterReport ==
  \A r \in Runs : "subagent_stop" \in events[r] => r \in published

\* A run is cancelled only if a parent's stop named that very run, however late
\* the cancel file is and whichever run is current by then.
CancelledWasAsked ==
  \A r \in Runs : out[r] = "cancelled" => r \in asked

\* Capacity counts live rows: unless a write failed or a process died, a run
\* whose ending is in the log is not live in the roster.
RosterNotBehind ==
  \A r \in Runs : faults = 0 /\ Ended(r) /\ row.run = r => row.state \notin LiveRows

\* "A late heartbeat/completion from an older supervisor must never take
\* ownership back", and a row that is over does not come back to life.
RowMovesForward ==
  [][ /\ row'.run # row.run => row'.state = "starting" /\ row'.start >= row.start
      /\ row'.run = row.run /\ row.state \notin LiveRows => row'.state \notin LiveRows ]_vars

\* A run that was announced is given an ending, unless something was killed.
EveryDispatchEnds ==
  \A r \in Runs : ("dispatched" \in events[r]) ~> (Ended(r) \/ faults > 0)

\* A supervisor that is killed while its worker runs is noticed: its run is given
\* an ending, unless the row passes to another run or a second fault strikes.
LostIsReported ==
  \A r \in Runs :
    (sat[r] = "dead" /\ row.run = r /\ row.state = "running")
      ~> (Ended(r) \/ row.run # r \/ faults > 1)

-----------------------------------------------------------------------------
(* The inductive invariant of the proofs. *)

Unregistered == {"unborn", "launched", "begun"}
Looping == {"registered", "spawned", "running"}
Lost(r) == events[r] \cap OutcomeEvents \subseteq {"exec_failed"}

\* Who is where: a supervisor exists once its dispatcher is done; the hooks hold
\* runs; what is over without a fault was never an error.
Placed ==
  /\ \A r \in Runs : dat[r] # "ended" => sat[r] = "unborn"
  /\ row.state \in LiveRows => row.run # NoRun
  /\ hat # "idle" => hrun # NoRun
  /\ pat = "seen" => prun # NoRun
  /\ hat = "marked" => sat[hrun] \in {"ended", "dead"}
  /\ faults = 0 => \A r \in Runs : sat[r] # "dead" /\ out[r] # "error"

\* When the log may have heard of an ending of r.
Heard ==
  \A r \in Runs :
    /\ Ended(r) => \/ sat[r] \in {"logged", "ended", "dead"}
                   \/ sat[r] \in {"deciding", "recorded"} /\ out[r] = "error"
                   \/ sat[r] = "unborn" /\ dat[r] = "ended" /\ faults > 0
    /\ sat[r] \in {"deciding", "recorded"} /\ out[r] = "error" => Lost(r)
    /\ sat[r] = "logged" /\ out[r] = "cancelled" => Lost(r)
    /\ row.run = r /\ row.state \in LiveRows => Lost(r)
    /\ hat = "marked" /\ hrun = r => Lost(r)

\* Completed means published, cancelled means asked for.
Grounded ==
  /\ cancel \in asked \cup {NoRun}
  /\ \A r \in Runs : out[r] = "completed" => r \in published

\* The row follows the supervisor that owns it.
Owned ==
  /\ row.run = NoRun => row.start = 0 /\ \A r \in Runs : sat[r] \in Unregistered \cup {"dead"}
  /\ \A r \in Runs : row.run = r =>
       /\ sat[r] \notin Unregistered
       /\ sat[r] \in Looping => row.state \in LiveRows
       /\ sat[r] \in {"recorded", "logged", "ended"} /\ out[r] # "error"
            => row.state \notin LiveRows

Sound ==
  /\ TypeOK /\ Placed /\ Heard /\ Grounded /\ Owned
  /\ OneOutcome /\ StopAfterReport /\ CancelledWasAsked

==============================================================================
