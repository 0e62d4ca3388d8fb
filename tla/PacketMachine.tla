--------------------------- MODULE PacketMachine ---------------------------
(***************************************************************************)
(* The deterministic state machine of harness/statemachine_v2.py.          *)
(*                                                                         *)
(* step() takes progress_ledger.lock, loads the ledger, applies every      *)
(* complete line of events.ndjson after the ledger's own cursor, lets a    *)
(* report file stand in for a lost stop event (reconcile), times out       *)
(* overdue packets (watchdog) and replaces the ledger, cursor included, in *)
(* one rename.  Everything else it writes on the way - counters, dead      *)
(* letters, the human queue, its own timeout events - is durable at once,  *)
(* so a crash before the rename loses the ledger's changes and keeps       *)
(* theirs.  Producers append to the log at any moment, in any order.       *)
(***************************************************************************)
EXTENDS PacketTable, Sequences

CONSTANTS Packets,        \* ids of ledger packets
          ReviewPackets,  \* those seeded DISPATCHABLE by dispatch.py's release review
          Foreign,        \* ids apply_event never makes a packet of (l2v-, v2job-, adhoc)
          Runs, NoRun,    \* run ids, and the absence of one
          Inputs,         \* the events producers may append
          EnforceDuty,    \* StateMachine(enforce_duty=...)
          MaxEvents,      \* bound: events ever appended by producers
          MaxBacklog,     \* bound: uncommitted events in the log
          MaxCrashes      \* bound: crashes of a step

NoAttempt == -1

\* One line of events.ndjson, reduced to the fields apply_event reads; `src`
\* says whether a producer or the watchdog wrote it.
Event == [pid : Packets \cup Foreign, name : EventNames, run : Runs \cup {NoRun},
          att : Nat \cup {NoAttempt}, prespawn : BOOLEAN,
          src : {"producer", "watchdog"}]

ASSUME ConstantsOK ==
  /\ ReviewPackets \subseteq Packets
  /\ Packets \cap Foreign = {}
  /\ NoRun \notin Runs
  /\ Inputs \subseteq Event
  /\ \A e \in Inputs : e.pid \in Foreign => e.name \notin {"planned", "skeleton_ready"}
  /\ EnforceDuty \in BOOLEAN
  /\ MaxEvents \in Nat /\ MaxBacklog \in Nat /\ MaxCrashes \in Nat

\* The "via" of a history entry: an event's name or one of the machine's own words.
Via ==
  EventNames \cup
  { "seed", "confirmed", "stale_generation_ignored", "stale_run_id_ignored",
    "duplicate_generation_ignored", "pre_spawn_failure_exhausted",
    "pre_spawn_failure_retryable", "off_table_event", "report_missing_on_stop",
    "duty_ruling_recorded_not_routed", "replan_cap_forced_l4",
    "timeout_retry_exhausted", "l2_attempts_exhausted", "report_file_fallback" }

\* A ledger entry.  A packet that is not in the ledger yet is in state NONE.
\* `via` is the last history entry's; `replans` and `retries` count the t22 and
\* t37 entries of its history.
Pkt == [state : STATES, attempts : Nat, run : Runs \cup {NoRun},
        pre_spawn_failures : Nat, l2_attempts : Nat, release_review : BOOLEAN,
        via : Via, replans : Nat, retries : Nat]

\* `applied` is history: the positions of the log whose event this ledger has absorbed.
Ledger == [packets : [Packets -> Pkt], cursor : Nat, applied : SUBSET Nat]

VARIABLES
  log,          \* events.ndjson from the committed cursor on (the rest is never read again)
  disk,         \* progress_ledger.json
  led,          \* the ledger a running step holds in memory
  pc,           \* where the step is: idle, drain, watch
  replanCount,  \* replan_counters.json
  retryCount,   \* timeout_retry_counters.json
  deadLetters,  \* packets with a file in dead_letters/ (and a Sol wake note)
  l4Queue,      \* packets queued for the human release gate
  spawnTimes,   \* spawn_times.json: the generation last stamped for a packet
  report,       \* reports/<pid>/report.json as report_is_current sees it
  crashes

sidecars == <<replanCount, retryCount, deadLetters, l4Queue>>
evidence == <<spawnTimes, report>>
vars == <<log, disk, led, pc, sidecars, evidence, crashes>>

NoStamp == [att |-> NoAttempt, run |-> NoRun]

NewPkt(p) ==
  [state |-> IF p \in ReviewPackets THEN "DISPATCHABLE" ELSE "NONE",
   attempts |-> 0, run |-> NoRun, pre_spawn_failures |-> 0, l2_attempts |-> 0,
   release_review |-> p \in ReviewPackets, via |-> "seed", replans |-> 0, retries |-> 0]

Init ==
  /\ log = <<>>
  /\ disk = [packets |-> [p \in Packets |-> NewPkt(p)], cursor |-> 0, applied |-> {}]
  /\ led = disk
  /\ pc = "idle"
  /\ replanCount = [p \in Packets |-> 0]
  /\ retryCount = [p \in Packets |-> 0]
  /\ deadLetters = {}
  /\ l4Queue = {}
  /\ spawnTimes = [p \in Packets |-> NoStamp]
  /\ report = [p \in Packets |-> "absent"]
  /\ crashes = 0

-----------------------------------------------------------------------------
(***************************************************************************)
(* Which rule of apply_event takes event e for ledger entry k.  The order  *)
(* of the early returns is the order of the tests.                         *)
(***************************************************************************)
\* event_run_id and current_run_id are both set and disagree
OtherRun(k, e) == e.run # NoRun /\ k.run # NoRun /\ e.run # k.run

StaleGeneration(k, e) == e.att # NoAttempt /\ e.att < k.attempts

StaleRun(k, e) ==
  e.name \in {"subagent_stop", "exec_failed", "timeout"} /\ OtherRun(k, e)

DuplicateGeneration(k, e) ==
  /\ e.name = "dispatched" /\ OtherRun(k, e)
  /\ k.state \in {"RUNNING", "REPORTED", "ACCEPTED", "MERGED", "WAVE_DONE", "DONE"}

Confirms(p, k, e) ==
  \/ k.state = "REPORTED" /\ e.name = "subagent_stop" /\ report[p] # "absent"
  \/ k.state = "RUNNING" /\ e.name = "dispatched" /\ e.att = k.attempts /\ ~OtherRun(k, e)
  \/ k.state = "TIMED_OUT" /\ e.name = "timeout"

Rule(p, k, e) ==
  IF StaleGeneration(k, e) THEN "stale_generation_ignored"
  ELSE IF StaleRun(k, e) THEN "stale_run_id_ignored"
  ELSE IF DuplicateGeneration(k, e) THEN "duplicate_generation_ignored"
  ELSE IF e.name = "exec_failed" /\ e.prespawn /\ k.state \in {"DISPATCHABLE", "RUNNING"}
       THEN "pre_spawn_failure"
  ELSE IF Confirms(p, k, e) THEN "confirmed"
  ELSE IF k.release_review /\ k.state = "RUNNING" /\ e.name = "exec_failed" THEN "t26"
  ELSE IF OnTable(k.state, e.name) THEN "table"
  ELSE "off_table_event"

\* apply_event's returns before it touches a packet
NotATransition(e) ==
  \/ e.pid \in Foreign
  \/ e.name \in INFO_EVENTS
  \/ \E p \in Packets :
       e.pid = p /\ led.packets[p].state = "NONE" /\ e.name \notin {"planned", "skeleton_ready"}

Unread == led.cursor - disk.cursor < Len(log)
Line   == log[led.cursor - disk.cursor + 1]

\* The step has read one more line and holds these entries.
Absorb(packets) ==
  led' = [packets |-> packets,
          cursor  |-> led.cursor + 1,
          applied |-> led.applied \cup {led.cursor + 1}]

\* ... of which packet p's is now k.
Advance(p, k) == Absorb([led.packets EXCEPT ![p] = k])

\* to_dead_letter(): the entry, the dead-letter file and the Sol wake note.
ToDeadLetter(p, k, reason) ==
  /\ Advance(p, [k EXCEPT !.state = "DEAD_LETTER", !.via = reason])
  /\ deadLetters' = deadLetters \cup {p}

Applying(p, rule) ==
  /\ pc = "drain" /\ Unread /\ ~NotATransition(Line)
  /\ Line.pid = p
  /\ Rule(p, led.packets[p], Line) = rule

EventFrame == UNCHANGED <<log, disk, pc, evidence, crashes>>

-----------------------------------------------------------------------------
(***************************************************************************)
(* step(), first half: drain the log through apply_event.                  *)
(***************************************************************************)
StepBegin ==
  /\ pc = "idle"
  /\ pc' = "drain"
  /\ led' = disk
  /\ UNCHANGED <<log, disk, sidecars, evidence, crashes>>

SkipEvent ==
  /\ pc = "drain" /\ Unread /\ NotATransition(Line)
  /\ Absorb(led.packets)
  /\ EventFrame /\ UNCHANGED sidecars

\* An event of a superseded attempt, or of a run that is not the packet's.
IgnoreStale(p) ==
  \E why \in {"stale_generation_ignored", "stale_run_id_ignored",
              "duplicate_generation_ignored"} :
    /\ Applying(p, why)
    /\ Advance(p, [led.packets[p] EXCEPT !.via = why])
    /\ EventFrame /\ UNCHANGED sidecars

\* exec_failed(pre_spawn): no worker ran; back to the queue until the cap.
PreSpawnFailure(p) ==
  LET k == led.packets[p]
      failures == k.pre_spawn_failures + 1
  IN /\ Applying(p, "pre_spawn_failure")
     /\ \/ /\ failures > PRE_SPAWN_FAILURE_MAX
           /\ Advance(p, [k EXCEPT !.state = "DUTY_REVIEW", !.run = NoRun,
                                   !.pre_spawn_failures = failures,
                                   !.via = "pre_spawn_failure_exhausted"])
        \/ /\ failures <= PRE_SPAWN_FAILURE_MAX
           /\ Advance(p, [k EXCEPT !.state = "DISPATCHABLE",
                                   !.run = IF OtherRun(k, Line) THEN @ ELSE NoRun,
                                   !.pre_spawn_failures = failures,
                                   !.via = "pre_spawn_failure_retryable"])
     /\ EventFrame /\ UNCHANGED sidecars

\* A late stop, a re-read dispatch or the watchdog's own timeout: state unchanged.
ConfirmEvent(p) ==
  /\ Applying(p, "confirmed")
  /\ Advance(p, [led.packets[p] EXCEPT !.via = "confirmed"])
  /\ EventFrame /\ UNCHANGED sidecars

\* t26: a flagged release-review packet whose worker fails.
ReleaseReviewFailed(p) ==
  /\ Applying(p, "t26")
  /\ Advance(p, [led.packets[p] EXCEPT !.state = "SOL_ADJUDICATE", !.via = Line.name])
  /\ EventFrame /\ UNCHANGED sidecars

OffTable(p) ==
  /\ Applying(p, "off_table_event")
  /\ ToDeadLetter(p, led.packets[p], "off_table_event")
  /\ EventFrame /\ UNCHANGED <<replanCount, retryCount, l4Queue>>

\* The row (at most one) that the event selects for the packet's state.
Selected(p) == { r \in T : r.from = led.packets[p].state /\ r.on = Line.name }

\* Mutant: a retry forgets to close the failed generation.
Enter_KeepsRun(k, r, e) ==
  [k EXCEPT
     !.state = r.to, !.via = e.name,
     !.run = IF r.on = "dispatched" /\ e.run # NoRun THEN e.run ELSE @,
     !.attempts = IF r.num \in {9, 37} THEN @ + 1 ELSE @]

\* The tail of apply_event: the transition itself and its bookkeeping.
Enter(k, r, e) ==
  [state |-> r.to,
   attempts |-> IF r.num \in {9, 37} THEN k.attempts + 1 ELSE k.attempts,
   run |-> IF r.on = "retry_dispatch" THEN NoRun
           ELSE IF r.on = "dispatched" /\ e.run # NoRun THEN e.run
           ELSE k.run,
   pre_spawn_failures |-> IF r.on = "dispatched" THEN 0 ELSE k.pre_spawn_failures,
   l2_attempts |-> IF r.num = 35 THEN k.l2_attempts + 1 ELSE k.l2_attempts,
   release_review |-> k.release_review,
   via |-> e.name,
   replans |-> IF r.num = 22 THEN k.replans + 1 ELSE k.replans,
   retries |-> IF r.num = 37 THEN k.retries + 1 ELSE k.retries]

ReportIsCurrent(p) == report[p] = "current"

\* Rows whose gate, if they have one, is open.
TakeRow(p) ==
  /\ Applying(p, "table")
  /\ \E r \in Selected(p) :
       /\ r.num \notin {22, 35, 37}
       /\ r.num = 4 => ReportIsCurrent(p)
       /\ r.num \in {11, 12} => EnforceDuty
       /\ Advance(p, Enter(led.packets[p], r, Line))
  /\ EventFrame /\ UNCHANGED sidecars

\* t4 without a current report: the stop event alone is not believed.
ReportMissing(p) ==
  /\ Applying(p, "table")
  /\ \E r \in Selected(p) : r.num = 4
  /\ ~ReportIsCurrent(p)
  /\ ToDeadLetter(p, led.packets[p], "report_missing_on_stop")
  /\ EventFrame /\ UNCHANGED <<replanCount, retryCount, l4Queue>>

\* t11/t12 with duty enforcement off: the ruling is recorded, not routed.
DutyRecordedOnly(p) ==
  /\ Applying(p, "table")
  /\ \E r \in Selected(p) : r.num \in {11, 12}
  /\ ~EnforceDuty
  /\ ToDeadLetter(p, led.packets[p], "duty_ruling_recorded_not_routed")
  /\ EventFrame /\ UNCHANGED <<replanCount, retryCount, l4Queue>>

\* Mutant: the cap is compared with the sidecar before the bump.
BumpOutcomes_Late(count, p, cap) ==
  { [count |-> [count EXCEPT ![p] = @ + 1], exceeded |-> count[p] > cap],
    [count |-> count, exceeded |-> TRUE] }

(***************************************************************************)
(* _bump_counter(): the incremented sidecar, or - on an I/O error - the    *)
(* sidecar as it was and "exceeded".                                       *)
(***************************************************************************)
BumpOutcomes(count, p, cap) ==
  { [count |-> [count EXCEPT ![p] = @ + 1], exceeded |-> count[p] + 1 > cap],
    [count |-> count, exceeded |-> TRUE] }

\* t22: a replan, or past the cap a summary for the human gate.
Replan(p) ==
  /\ Applying(p, "table")
  /\ \E r \in Selected(p), b \in BumpOutcomes(replanCount, p, REPLAN_CAP) :
       /\ r.num = 22
       /\ replanCount' = b.count
       /\ \/ /\ b.exceeded
             /\ l4Queue' = l4Queue \cup {p}
             /\ Advance(p, [led.packets[p] EXCEPT !.via = "replan_cap_forced_l4"])
          \/ /\ ~b.exceeded
             /\ Advance(p, Enter(led.packets[p], r, Line))
             /\ UNCHANGED l4Queue
  /\ EventFrame /\ UNCHANGED <<retryCount, deadLetters>>

\* t37: the first timeout re-queues the packet, the next one dead-letters it.
TimeoutRetry(p) ==
  /\ Applying(p, "table")
  /\ \E r \in Selected(p), b \in BumpOutcomes(retryCount, p, TIMEOUT_RETRY_MAX) :
       /\ r.num = 37
       /\ retryCount' = b.count
       /\ \/ /\ b.exceeded
             /\ ToDeadLetter(p, led.packets[p], "timeout_retry_exhausted")
          \/ /\ ~b.exceeded
             /\ Advance(p, Enter(led.packets[p], r, Line))
             /\ UNCHANGED deadLetters
  /\ EventFrame /\ UNCHANGED <<replanCount, l4Queue>>

\* t35: a verifier's execution failure; the second one goes to adjudication.
L2ExecFailed(p) ==
  /\ Applying(p, "table")
  /\ \E r \in Selected(p) :
       LET k == Enter(led.packets[p], r, Line) IN
       /\ r.num = 35
       /\ \/ /\ k.l2_attempts > L2_ATTEMPTS_MAX
             /\ Advance(p, [k EXCEPT !.state = "SOL_ADJUDICATE", !.via = "l2_attempts_exhausted"])
          \/ /\ k.l2_attempts <= L2_ATTEMPTS_MAX
             /\ Advance(p, k)
  /\ EventFrame /\ UNCHANGED sidecars

ApplyEvent ==
  \/ SkipEvent
  \/ \E p \in Packets :
       \/ IgnoreStale(p) \/ PreSpawnFailure(p) \/ ConfirmEvent(p)
       \/ ReleaseReviewFailed(p) \/ OffTable(p) \/ TakeRow(p)
       \/ ReportMissing(p) \/ DutyRecordedOnly(p) \/ Replan(p)
       \/ TimeoutRetry(p) \/ L2ExecFailed(p)

-----------------------------------------------------------------------------
(***************************************************************************)
(* step(), second half: reconcile, watchdog, commit - or a crash.          *)
(***************************************************************************)
\* The ledger in memory with these entries and an unmoved cursor.
Hold(packets) ==
  led' = [packets |-> packets, cursor |-> led.cursor, applied |-> led.applied]

\* Mutant: no fallback for a lost stop event.
Reconciled_Never(p) == FALSE

\* Whether reconcile() moves the entry: the stop event is missing, the report is there.
Reconciled(p) == led.packets[p].state = "RUNNING" /\ ReportIsCurrent(p)

\* No complete line is left; reconcile() runs over the whole ledger.
Reconcile ==
  /\ pc = "drain" /\ ~Unread
  /\ Hold([p \in Packets |->
             IF Reconciled(p)
             THEN [led.packets[p] EXCEPT !.state = "REPORTED", !.via = "report_file_fallback"]
             ELSE led.packets[p]])
  /\ pc' = "watch"
  /\ UNCHANGED <<log, disk, sidecars, evidence, crashes>>

\* watchdog(): packet p is overdue and no live supervisor owns its generation.
\* The timeout event carries the stamped generation and is appended at once.
WatchdogTimeout(p) ==
  /\ pc = "watch" /\ led.packets[p].state = "RUNNING"
  /\ log' = Append(log, [pid |-> p, name |-> "timeout", run |-> spawnTimes[p].run,
                         att |-> spawnTimes[p].att, prespawn |-> FALSE, src |-> "watchdog"])
  /\ Hold([led.packets EXCEPT ![p] =
             [led.packets[p] EXCEPT !.state = "TIMED_OUT", !.via = "timeout"]])
  /\ UNCHANGED <<disk, pc, sidecars, evidence, crashes>>

\* Mutants: the cursor jumps to the end of the file (P1-8), or is not saved at all.
Commit_AtEOF ==
  /\ pc = "watch"
  /\ disk' = [led EXCEPT !.cursor = disk.cursor + Len(log)]
  /\ log' = <<>>
  /\ pc' = "idle"
  /\ UNCHANGED <<led, sidecars, evidence, crashes>>
Commit_KeepsCursor ==
  /\ pc = "watch"
  /\ disk' = [led EXCEPT !.cursor = disk.cursor]
  /\ pc' = "idle"
  /\ UNCHANGED <<log, led, sidecars, evidence, crashes>>

\* save_ledger(): state and consumed offset replace the old ledger in one rename.
Commit ==
  /\ pc = "watch"
  /\ disk' = led
  /\ log' = SubSeq(log, led.cursor - disk.cursor + 1, Len(log))
  /\ pc' = "idle"
  /\ UNCHANGED <<led, sidecars, evidence, crashes>>

\* The process dies, or save_ledger fails: the ledger and its cursor stay as they were.
Crash ==
  /\ pc # "idle" /\ crashes < MaxCrashes
  /\ crashes' = crashes + 1
  /\ led' = disk
  /\ pc' = "idle"
  /\ UNCHANGED <<log, disk, sidecars, evidence>>

Step == StepBegin \/ ApplyEvent \/ Reconcile \/ Commit

-----------------------------------------------------------------------------
(***************************************************************************)
(* Producers: dispatchers, supervisors, hooks, retry and duty routing,     *)
(* verdict consumers and people.  They share only files with the step.     *)
(***************************************************************************)
Produce(e) ==
  /\ disk.cursor + Len(log) < MaxEvents /\ Len(log) < MaxBacklog
  /\ log' = Append(log, e)
  /\ UNCHANGED <<disk, led, pc, sidecars, evidence, crashes>>

\* prepare_report_slot(): the previous generation's report is moved away.
PrepareReportSlot(p) ==
  /\ report[p] # "absent"
  /\ report' = [report EXCEPT ![p] = "absent"]
  /\ UNCHANGED <<log, disk, led, pc, sidecars, spawnTimes, crashes>>

\* record_spawn_time(): a report that is older than the stamp is no longer current.
RecordSpawnTime(p, r) ==
  /\ spawnTimes' = [spawnTimes EXCEPT ![p] = [att |-> disk.packets[p].attempts, run |-> r]]
  /\ report' = [report EXCEPT ![p] = IF @ = "current" THEN "stale" ELSE @]
  /\ UNCHANGED <<log, disk, led, pc, sidecars, crashes>>

\* The report of a stamped worker lands, at any later time, or a crashed
\* publisher leaves a truncated one.
PublishReport(p) ==
  /\ spawnTimes[p] # NoStamp /\ report[p] # "current"
  /\ \E r \in {"current", "invalid"} : report' = [report EXCEPT ![p] = r]
  /\ UNCHANGED <<log, disk, led, pc, sidecars, spawnTimes, crashes>>

Environment ==
  \/ \E e \in Inputs : Produce(e)
  \/ \E p \in Packets : PrepareReportSlot(p) \/ PublishReport(p)
  \/ \E p \in Packets, r \in Runs : RecordSpawnTime(p, r)

Next ==
  \/ Step
  \/ \E p \in Packets : WatchdogTimeout(p)
  \/ Crash
  \/ Environment

Spec == Init /\ [][Next]_vars

\* step() is invoked again and again and runs to its end: the duty driver, the
\* epilogue of every packet and the root's own loop all call it.
FairSpec == Spec /\ WF_vars(Step)

-----------------------------------------------------------------------------
TypeOK ==
  /\ log \in Seq(Event)
  /\ disk \in Ledger /\ led \in Ledger
  /\ pc \in {"idle", "drain", "watch"}
  /\ replanCount \in [Packets -> Nat] /\ retryCount \in [Packets -> Nat]
  /\ deadLetters \subseteq Packets /\ l4Queue \subseteq Packets
  /\ spawnTimes \in [Packets -> [att : Nat \cup {NoAttempt}, run : Runs \cup {NoRun}]]
  /\ report \in [Packets -> {"absent", "invalid", "stale", "current"}]
  /\ crashes \in 0..MaxCrashes

\* The cursor and the ledger move together: across crashes, replays and events
\* that land while a step runs, a ledger has absorbed exactly the events before
\* its cursor - none skipped, none beyond it (the P1-8 cursor race).
AppliedExactlyOnce ==
  \A l \in {disk, led} : l.applied = 1..l.cursor

\* H-04: however often a step is killed and replayed, no packet is sent back to
\* planning more than REPLAN_CAP times; the next request goes to the human gate.
ReplanCap ==
  \A p \in Packets : disk.packets[p].replans <= REPLAN_CAP

\* P0-3: no packet is re-queued after a timeout more than TIMEOUT_RETRY_MAX times,
\* although the counter is a sidecar that a crash separates from the ledger.
TimeoutRetryCap ==
  \A p \in Packets : disk.packets[p].retries <= TIMEOUT_RETRY_MAX

DeadLetterReasons ==
  { "off_table_event", "report_missing_on_stop",
    "duty_ruling_recorded_not_routed", "timeout_retry_exhausted" }

\* Fail-visible: a packet the machine itself gave up on has its dead-letter file
\* and wake note before the ledger says so, and one refused a replan is queued
\* for the human gate.
FailVisible ==
  \A p \in Packets :
    LET k == disk.packets[p] IN
    /\ k.state = "DEAD_LETTER" /\ k.via \in DeadLetterReasons => p \in deadLetters
    /\ k.via = "replan_cap_forced_l4" => p \in l4Queue

\* `fresh` states: the packet has not been dispatched since it was (re)planned.
FRESH == {"NONE", "EXPAND_K3", "PLANNED", "DISPATCHABLE"}

\* Only one transport generation is admitted at a time: a packet waiting for
\* dispatch still carries a run id only after a replan, so between two admitted
\* runs there is a retry, a pre-spawn failure or a replan.
OneGeneration ==
  \A p \in Packets :
    LET k == disk.packets[p] IN
    k.state \in FRESH /\ k.run # NoRun => k.replans > 0

(***************************************************************************)
(* The inductive invariant behind the four safety properties above.  It    *)
(* says of the ledger in memory what they say of the one on disk, and ties *)
(* both to the sidecars, which a crash leaves ahead of the ledger but      *)
(* never behind it.                                                        *)
(***************************************************************************)
EntrySound(p, k) ==
  /\ k.replans <= replanCount[p] /\ k.replans <= REPLAN_CAP
  /\ k.retries <= retryCount[p] /\ k.retries <= TIMEOUT_RETRY_MAX
  /\ k.state \in FRESH /\ k.run # NoRun => k.replans > 0
  /\ k.state = "DEAD_LETTER" /\ k.via \in DeadLetterReasons => p \in deadLetters
  /\ k.via = "replan_cap_forced_l4" => p \in l4Queue

CursorSound ==
  /\ disk.cursor <= led.cursor /\ led.cursor <= disk.cursor + Len(log)
  /\ AppliedExactlyOnce

Sound ==
  /\ CursorSound
  /\ \A p \in Packets : EntrySound(p, disk.packets[p])
  /\ \A p \in Packets : EntrySound(p, led.packets[p])

\* Every appended event is eventually behind the committed cursor.
EventuallyCommitted ==
  \A n \in 1..MaxEvents : (disk.cursor + Len(log) >= n) ~> (disk.cursor >= n)

\* A report that landed is not forgotten when its stop event is lost: the packet
\* leaves RUNNING unless the report is replaced first.
ReportEventuallyCounts ==
  \A p \in Packets :
    (disk.packets[p].state = "RUNNING" /\ ReportIsCurrent(p))
      ~> (disk.packets[p].state # "RUNNING" \/ ~ReportIsCurrent(p))

\* What dispatch.py says of a refused birth ("A throttled packet remains
\* DISPATCHABLE"): the audit event it appends is not applied as a transition.
ThrottledStaysDispatchable ==
  pc = "drain" /\ Unread /\ Line.name = "spawn_throttled" => NotATransition(Line)
=============================================================================
