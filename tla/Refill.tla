------------------------------- MODULE Refill -------------------------------
(***************************************************************************)
(* Sustained refill: lifecycle edges wake one detached actuator, which     *)
(* turns ledger demand into births until the concurrency target is met.    *)
(* Edges are counted in refill_requests.json and coalesce while an         *)
(* actuator lives; actuators and the terminal epilogue serialize on        *)
(* .consumer.lock; a child is invisible until its roster row appears.      *)
(* Parent sessions bring their packets by importing a manifest and take    *)
(* their admission back when they stop.                                    *)
(*                                                                         *)
(* requested_seq and consumed_seq are kept as what the code compares them  *)
(* for: whether a request is owed, and whether one came after an actuator  *)
(* read the number.  Timed waits (stable observation, wait-all of a        *)
(* parent's wave, backoff sleeps) are delays: the step after them is       *)
(* always enabled and may come at any time.                                *)
(***************************************************************************)
EXTENDS RefillMath, SequencesExt

CONSTANTS
  Packets,      \* packets, numbered in the order of their names
  PoolOf,       \* pool_for_packet() of each
  ParentOf,     \* the parent that imports it, or NoParent
  NoParent,
  Buckets,      \* NoParent and the parents, in the order of their names
  Verified,     \* packets whose report goes to a K3 verifier
  Actuators,    \* actuator processes that may exist at once
  Epilogue,     \* the terminal epilogue, which runs the refill directly
  MaxFaults     \* crashes, refusals and failed state machine steps

Runners == Actuators \cup {Epilogue}

ASSUME RefillOK ==
  /\ Packets \subseteq Nat /\ IsFiniteSet(Packets) /\ PoolOf \in [Packets -> Pool]
  /\ ParentOf \in [Packets -> Parents \cup {NoParent}] /\ NoParent \notin Parents
  /\ Buckets \in Seq(Parents \cup {NoParent}) /\ Verified \subseteq Packets /\ Epilogue \notin Actuators
  /\ MaxFaults \in Nat

Nobody == "nobody"

ASSUME NobodyRuns == Nobody \notin Runners

VARIABLES
  led,        \* ledger: absent, ready (DISPATCHABLE), dispatched, work (K3), done
  news,       \* packets with a dispatched event the ledger has not seen
  job,        \* latest child: none, spawning (no row yet), starting, running, dead, over
  births,     \* children ever born per packet, up to two
  registry,   \* parent_sessions.json: unknown, active, stopped
  importing,  \* the importer of each parent: off, admitted, written
  native,     \* Desktop children running
  queue,      \* work_queue.json
  owed,       \* requested_seq > consumed_seq
  marker,     \* refill_actuator.pid
  fresh,      \* actuators a request came in for since they read the number
  pc,         \* where each runner is
  lock,       \* who holds .consumer.lock
  tasks,      \* tasks of the wave the holder has still to look at
  wake,       \* a delayed wake is asleep
  due,        \* a terminal epilogue was asked for
  backoff,    \* births are refused: provider, readiness or spawn backoff
  unseen,     \* children that had no row when a later birth was decided
  blind,      \* packets born in a run that could not step the ledger after
  lost,       \* what a fault took: "act", "epi", "wake"
  faults

vars == <<led, news, job, births, registry, importing, native, queue, owed, marker,
          fresh, pc, lock, tasks, wake, due, backoff, unseen, blind, lost, faults>>
ledger == <<led, news>>
children == <<job, births, unseen>>
parents == <<registry, importing>>
request == <<owed, marker, fresh>>
run == <<pc, lock, tasks>>
fault == <<blind, lost, faults>>

Init ==
  /\ led = [p \in Packets |-> IF ParentOf[p] = NoParent THEN "ready" ELSE "absent"]
  /\ news = {} /\ job = [p \in Packets |-> "none"] /\ births = [p \in Packets |-> 0]
  /\ registry = [s \in Parents |-> "unknown"] /\ importing = [s \in Parents |-> "off"]
  /\ native = 1 /\ queue = [pool |-> None, parent |-> [s \in Parents |-> None]]
  /\ owed = FALSE /\ marker = Nobody /\ fresh = {}
  /\ pc = [r \in Runners |-> "off"] /\ lock = Nobody /\ tasks = <<>>
  /\ wake = FALSE /\ due = TRUE /\ backoff = FALSE
  /\ unseen = {} /\ blind = {} /\ lost = {} /\ faults = 0

-----------------------------------------------------------------------------
(* What the controller sees.                                               *)

Alive(a) == a \in Actuators /\ pc[a] # "off"
Admitted(p) == ParentOf[p] # NoParent => registry[ParentOf[p]] = "active"
Selectable(p) == led[p] = "ready" /\ Admitted(p)

\* queue_sync_ledger(): selectable packets by pool, and K3 work as K3 demand.
LedgerQueue ==
  LET In(S) == Each(LAMBDA q : Cardinality({p \in S : PoolOf[p] = q}))
      ready == {p \in Packets : Selectable(p)}
      k3work == Cardinality({p \in Packets : led[p] = "work"})
  IN [pool |-> [In(ready) EXCEPT !["k3"] = @ + k3work],
      parent |-> [s \in Parents |-> In({p \in ready : ParentOf[p] = s})]]

\* _read_roster_state(): rows whose processes live; the Desktop child runs v4.
Counts ==
  LET N(state, S) == Cardinality({p \in S : job[p] = state})
      Of(s) == {p \in Packets : ParentOf[p] = s}
      By(state) == Each(LAMBDA q : N(state, {p \in Packets : PoolOf[p] = q}))
  IN [running |-> [By("running") EXCEPT !["v4"] = @ + native],
      starting |-> By("starting"),
      parent |-> [s \in Parents |-> [running |-> N("running", Of(s)),
                                     starting |-> N("starting", Of(s))]]]

State(q) == Recompute(q, Counts, FALSE, {s \in Parents : registry[s] = "active"})

\* select_tasks(): the buckets take turns, a packet each, while its pool and its parent
\* have room.
Fitting(acc, b) ==
  {p \in Packets \ ToSet(acc.chosen) :
     /\ Selectable(p) /\ ParentOf[p] = b /\ acc.left[PoolOf[p]] > 0
     /\ b # NoParent => acc.spawnable[b][PoolOf[p]] > 0}

Turn(acc, b) ==
  LET p == Min(Fitting(acc, b))
  IN IF Fitting(acc, b) = {} THEN acc
     ELSE [chosen |-> Append(acc.chosen, p),
           left |-> [acc.left EXCEPT ![PoolOf[p]] = @ - 1],
           spawnable |-> IF b = NoParent THEN acc.spawnable
                         ELSE [acc.spawnable EXCEPT ![b][PoolOf[p]] = @ - 1]]

TurnOf(i) == Buckets[((i - 1) % Len(Buckets)) + 1]
Turns == Len(Buckets) * Cardinality(Packets)

Selection(state) ==
  LET after[i \in 0..Turns] ==
        IF i = 0 THEN [chosen |-> <<>>, left |-> state.deficit, spawnable |-> state.spawnable]
        ELSE Turn(after[i - 1], TurnOf(i))
  IN after[Turns].chosen

-----------------------------------------------------------------------------
(* schedule_run(): under the claim lock.                                   *)

\* Mutant: a marker is believed whether its process lives or not.
Coalesces_AnyMarker == marker \in Actuators

Coalesces == marker \in Actuators /\ Alive(marker)

Schedules ==
  /\ owed' = TRUE
  /\ IF Coalesces
     THEN fresh' = {a \in Actuators : Alive(a)} /\ UNCHANGED <<lost, marker, pc>>
     ELSE \E a \in Actuators :
            /\ pc[a] = "off"
            /\ pc' = [pc EXCEPT ![a] = "read"] /\ marker' = a
            /\ fresh' = {b \in Actuators : Alive(b)}
            /\ lost' = lost \ {"act"}

\* subagent_stop(): a Desktop child ends.
NativeEnds ==
  /\ native > 0 /\ native' = native - 1
  /\ Schedules
  /\ UNCHANGED <<ledger, children, parents, queue, lock, tasks, wake, due, backoff, blind, faults>>

\* parent_stop(): the registry, even of a session unknown to it; cancel requests, which only
\* hasten the end of the children; an edge.
ParentStops(s) ==
  /\ registry[s] # "stopped"
  /\ registry' = [registry EXCEPT ![s] = "stopped"]
  /\ Schedules
  /\ UNCHANGED <<ledger, children, importing, native, queue, lock, tasks, wake, due, backoff,
                 blind, faults>>

\* A delayed wake drops its marker and schedules.
WakeUp ==
  /\ wake /\ wake' = FALSE
  /\ Schedules
  /\ UNCHANGED <<ledger, children, parents, native, queue, lock, tasks, due, backoff, blind, faults>>

-----------------------------------------------------------------------------
(* import_manifest().                                                      *)

ImportAdmits(s) ==
  /\ importing[s] = "off" /\ registry[s] # "stopped"
  /\ importing' = [importing EXCEPT ![s] = "admitted"]
  /\ UNCHANGED <<ledger, children, registry, native, queue, request, run, wake, due, backoff, fault>>

\* Packet files, then the ledger; what is there already is left as it is.
ImportWrites(s) ==
  /\ importing[s] = "admitted"
  /\ importing' = [importing EXCEPT ![s] = "written"]
  /\ led' = [p \in Packets |-> IF ParentOf[p] = s /\ led[p] = "absent" THEN "ready" ELSE led[p]]
  /\ UNCHANGED <<news, children, registry, native, queue, request, run, wake, due, backoff, fault>>

\* Mutant: the admission of the first check is still believed.
StillAdmitted_Once(s) == TRUE

\* The registry is read again: a stop may have come between.
StillAdmitted(s) == registry[s] # "stopped"

ImportCommits(s) ==
  /\ importing[s] = "written" /\ StillAdmitted(s)
  /\ importing' = [importing EXCEPT ![s] = "off"]
  /\ registry' = [registry EXCEPT ![s] = "active"]
  /\ Schedules
  /\ UNCHANGED <<ledger, children, native, queue, lock, tasks, wake, due, backoff, blind, faults>>

ImportRefused(s) ==
  /\ importing[s] = "written" /\ ~StillAdmitted(s)
  /\ importing' = [importing EXCEPT ![s] = "off"]
  /\ UNCHANGED <<ledger, children, registry, native, queue, request, run, wake, due, backoff, fault>>

-----------------------------------------------------------------------------
(* The runners.                                                            *)

\* drain_requested() reads the number it will have served.
ReadRequest(a) ==
  /\ a \in Actuators /\ pc[a] = "read"
  /\ pc' = [pc EXCEPT ![a] = "lock"] /\ fresh' = fresh \ {a}
  /\ UNCHANGED <<ledger, children, parents, native, queue, owed, marker, lock, tasks, wake, due,
                 backoff, fault>>

\* StateMachine.step(): births first, then the children that ended.
Applied ==
  [p \in Packets |->
     LET seen == IF p \in news /\ led[p] = "ready" THEN "dispatched" ELSE led[p]
     IN IF seen = "dispatched" /\ job[p] = "over"
        THEN IF p \in Verified THEN "work" ELSE "done"
        ELSE seen]

\* The terminal epilogue steps the ledger, then refills; a failed step is only reported.
EpilogueStarts ==
  /\ due /\ pc[Epilogue] = "off" /\ due' = FALSE
  /\ led' = Applied /\ news' = {}
  /\ pc' = [pc EXCEPT ![Epilogue] = "lock"]
  /\ UNCHANGED <<children, parents, native, queue, request, lock, tasks, wake, backoff, fault>>

\* Mutant: the transaction does not wait for the lock.
LockFree_Never(r) == TRUE

\* run_once(): one transaction per root; the queue is synced from the ledger.
LockFree(r) == lock = Nobody

Enter(r) ==
  /\ pc[r] = "lock" /\ LockFree(r)
  /\ lock' = r /\ queue' = LedgerQueue
  /\ pc' = [pc EXCEPT ![r] = "select"]
  /\ UNCHANGED <<ledger, children, parents, native, request, tasks, wake, due, backoff, fault>>

\* After the wave, or with nothing to do: an actuator settles its request, the epilogue is done.
Leaves(r) == pc' = [pc EXCEPT ![r] = IF r = Epilogue THEN "off" ELSE "finish"] /\ lock' = Nobody

\* recompute() and build_manifest(); an empty manifest is idle and wakes nobody.
Select(r) ==
  /\ pc[r] = "select"
  /\ LET chosen == Selection(State(queue))
     IN IF chosen = <<>> THEN Leaves(r) /\ UNCHANGED tasks
        ELSE pc' = [pc EXCEPT ![r] = "wave"] /\ tasks' = chosen /\ UNCHANGED lock
  /\ UNCHANGED <<ledger, children, parents, native, queue, request, wake, due, backoff, fault>>

\* The dispatcher's target is at least one, whatever the policy says.
BirthCap == Most(1, TargetTotal)

\* Mutant: a starting child does not count.
CapFull_RunningOnly == Total(Counts.running) >= BirthCap

\* before_spawn(): rows that run or start, against the target.
CapFull == Total(Counts.running) + Total(Counts.starting) >= BirthCap

\* headless_wave.run(): a task still ready, with no row that runs, starts or is stale.
Born(p) == led[p] = "ready" /\ job[p] \notin {"starting", "running", "dead"} /\ ~backoff /\ ~CapFull

Wave(r) ==
  /\ pc[r] = "wave" /\ tasks # <<>>
  /\ tasks' = Tail(tasks)
  /\ LET p == Head(tasks)
     IN IF Born(p)
        THEN /\ job' = [job EXCEPT ![p] = "spawning"]
             /\ births' = [births EXCEPT ![p] = Least(2, @ + 1)]
             /\ unseen' = unseen \cup {q \in Packets : job[q] = "spawning"}
             /\ news' = news \cup {p}
        ELSE UNCHANGED <<children, news>>
  /\ UNCHANGED <<led, parents, native, queue, request, pc, lock, wake, due, backoff, fault>>

StepLedger(r) ==
  /\ pc[r] = "wave" /\ tasks = <<>>
  /\ led' = Applied /\ news' = {}
  /\ pc' = [pc EXCEPT ![r] = "after"]
  /\ UNCHANGED <<children, parents, native, queue, request, lock, tasks, wake, due, backoff, fault>>

\* The step raises: the run goes on without it.
StepFails(r) ==
  /\ pc[r] = "wave" /\ tasks = <<>> /\ faults < MaxFaults
  /\ faults' = faults + 1 /\ blind' = blind \cup news
  /\ pc' = [pc EXCEPT ![r] = "after"]
  /\ UNCHANGED <<ledger, children, parents, native, queue, request, lock, tasks, wake, due,
                 backoff, lost>>

\* Mutant: only a lifecycle edge wakes the next run.
DebtLeft_Ignored == FALSE

\* Debt that a recompute still sees.
DebtLeft == Total(State(LedgerQueue).deficit) > 0

\* Sync and recompute again; debt that is left gets a delayed wake.
After(r) ==
  /\ pc[r] = "after"
  /\ queue' = LedgerQueue
  /\ wake' = (wake \/ DebtLeft)
  /\ Leaves(r)
  /\ UNCHANGED <<ledger, children, parents, native, request, tasks, due, backoff, fault>>

\* Mutant: a request that came in meanwhile is not looked for.
Settled_Blindly(a) == TRUE

\* Under the claim lock: leave if no request came since the number was read.
Settled(a) == a \notin fresh

Finish(a) ==
  /\ a \in Actuators /\ pc[a] = "finish"
  /\ owed' = (owed /\ a \in fresh)
  /\ IF Settled(a)
     THEN /\ pc' = [pc EXCEPT ![a] = "off"]
          /\ marker' = IF marker = a THEN Nobody ELSE marker
     ELSE pc' = [pc EXCEPT ![a] = "read"] /\ UNCHANGED marker
  /\ UNCHANGED <<ledger, children, parents, native, queue, fresh, lock, tasks, wake, due, backoff,
                 fault>>

\* A runner dies, or its selection refuses a malformed packet: the lock goes, the marker stays.
Dies(r) ==
  /\ pc[r] # "off" /\ faults < MaxFaults /\ faults' = faults + 1
  /\ pc' = [pc EXCEPT ![r] = "off"]
  /\ lock' = IF lock = r THEN Nobody ELSE lock
  /\ tasks' = IF lock = r THEN <<>> ELSE tasks
  /\ blind' = IF lock = r THEN blind \cup news ELSE blind
  /\ lost' = lost \cup {IF r = Epilogue THEN "epi" ELSE "act"}
  /\ UNCHANGED <<ledger, children, parents, native, queue, request, wake, due, backoff>>

WakeDies ==
  /\ wake /\ faults < MaxFaults /\ faults' = faults + 1
  /\ wake' = FALSE /\ lost' = lost \cup {"wake"}
  /\ UNCHANGED <<ledger, children, parents, native, queue, request, run, due, backoff, blind>>

-----------------------------------------------------------------------------
(* The children and what is outside.                                       *)

\* A supervisor writes its row, then runs its worker, and ends; its end asks for an epilogue.
ChildMoves(p, from, to) ==
  /\ job[p] = from /\ job' = [job EXCEPT ![p] = to]
  /\ due' = (due \/ to = "over")
  /\ UNCHANGED <<ledger, births, unseen, parents, native, queue, request, run, wake, backoff, fault>>

RowAppears(p) == ChildMoves(p, "spawning", "starting")
WorkerRuns(p) == ChildMoves(p, "starting", "running")
ChildEnds(p) == \E from \in {"spawning", "starting", "running"} : ChildMoves(p, from, "over")

\* A supervisor is killed: its row stays active until a session start reconciles it.
ChildDies(p) ==
  /\ job[p] \in {"starting", "running"} /\ faults < MaxFaults /\ faults' = faults + 1
  /\ job' = [job EXCEPT ![p] = "dead"]
  /\ UNCHANGED <<ledger, births, unseen, parents, native, queue, request, run, wake, due, backoff,
                 blind, lost>>

Reconcile(p) ==
  /\ job[p] = "dead" /\ job' = [job EXCEPT ![p] = "over"]
  /\ due' = TRUE /\ Schedules
  /\ UNCHANGED <<ledger, births, unseen, parents, native, queue, lock, tasks, wake, backoff, blind,
                 faults>>

\* The L2 consumer settles a verification, whose own child ends with an edge.
Verify(p) ==
  /\ led[p] = "work" /\ led' = [led EXCEPT ![p] = "done"] /\ due' = TRUE
  /\ UNCHANGED <<news, children, parents, native, queue, request, run, wake, backoff, fault>>

BackoffBegins ==
  /\ ~backoff /\ faults < MaxFaults /\ faults' = faults + 1 /\ backoff' = TRUE
  /\ UNCHANGED <<ledger, children, parents, native, queue, request, run, wake, due, blind, lost>>

BackoffEnds ==
  /\ backoff /\ backoff' = FALSE
  /\ UNCHANGED <<ledger, children, parents, native, queue, request, run, wake, due, fault>>

-----------------------------------------------------------------------------
RunnerStep(r) == ReadRequest(r) \/ Enter(r) \/ Select(r) \/ Wave(r) \/ StepLedger(r) \/ After(r) \/ Finish(r)
ChildStep(p) == RowAppears(p) \/ WorkerRuns(p) \/ ChildEnds(p)

Next ==
  \/ NativeEnds \/ WakeUp \/ EpilogueStarts \/ WakeDies \/ BackoffBegins \/ BackoffEnds
  \/ \E s \in Parents : ParentStops(s) \/ ImportAdmits(s) \/ ImportWrites(s) \/ ImportCommits(s) \/ ImportRefused(s)
  \/ \E r \in Runners : RunnerStep(r) \/ StepFails(r) \/ Dies(r)
  \/ \E p \in Packets : ChildStep(p) \/ ChildDies(p) \/ Reconcile(p) \/ Verify(p)

\* Every step of a runner moves its pc or takes a task off the wave.
Places == {"off", "read", "lock", "select", "wave", "after", "finish"}
Proceeds(r) ==
  /\ pc[r] # "off"
  /\ pc[r] = "lock" => lock = Nobody
  /\ pc[r] = "wave" => tasks = <<>>
  /\ \E place \in Places \ {pc[r]} : pc' = [pc EXCEPT ![r] = place]
WaveProceeds == tasks # <<>> /\ tasks' = Tail(tasks)

\* Processes that run go on and get the lock at last, sleeps and backoffs end, children end,
\* the epilogue's queue is drained (TerminalEpilogue), the L2 queue too (L2Queue), and some
\* Desktop session starts, whose hook reconciles the dead.
Fairness ==
  /\ \A r \in Runners : SF_pc(Proceeds(r))
  /\ WF_tasks(WaveProceeds)
  /\ WF_vars(WakeUp) /\ WF_vars(EpilogueStarts) /\ WF_vars(BackoffEnds) /\ WF_vars(NativeEnds)
  /\ \A p \in Packets : WF_vars(ChildEnds(p)) /\ WF_vars(Reconcile(p)) /\ WF_vars(Verify(p))

Spec == Init /\ [][Next]_vars
FairSpec == Spec /\ Fairness

-----------------------------------------------------------------------------
(* Properties.                                                             *)

\* A requested refill is never left with nobody to serve it: while one is owed an actuator
\* lives, unless the last one was lost to a fault and no request has come since.
NoEdgeStranded == owed /\ "act" \notin lost => \E a \in Actuators : Alive(a)

\* A packet gets one child, even when its roster row is late and another runner comes: only a
\* run that dies or fails its state machine step after the birth lets it have a second.
OneChildPerPacket == \A p \in Packets : births[p] > 1 => p \in blind

\* Children never exceed the target by more than those that had no row yet when a later
\* birth was decided.
Children == {p \in Packets : job[p] \in {"spawning", "starting", "running"}}
OverfillOnlyByUnseen == Cardinality(Children) + native <= BirthCap + Cardinality(unseen)

\* A stopped parent is never admitted again, even by an import that was admitted before.
StoppedStaysStopped ==
  [][\A s \in Parents : registry[s] = "stopped" => registry'[s] = "stopped"]_registry

\* Debt drives births: a selectable packet gets a child, or stops being selectable, unless a
\* fault took a runner or a wake.
DebtServed ==
  \A p \in Packets : (Selectable(p) /\ job[p] = "none") ~> (~Selectable(p) \/ job[p] # "none" \/ lost # {})

-----------------------------------------------------------------------------
(* What makes these inductive.                                             *)

TypeOK ==
  /\ led \in [Packets -> {"absent", "ready", "dispatched", "work", "done"}]
  /\ news \subseteq Packets
  /\ job \in [Packets -> {"none", "spawning", "starting", "running", "dead", "over"}]
  /\ births \in [Packets -> 0..2]
  /\ registry \in [Parents -> {"unknown", "active", "stopped"}]
  /\ importing \in [Parents -> {"off", "admitted", "written"}]
  /\ native \in Nat /\ owed \in BOOLEAN /\ marker \in Actuators \cup {Nobody}
  /\ fresh \subseteq Actuators /\ pc \in [Runners -> Places] /\ lock \in Runners \cup {Nobody}
  /\ tasks \in Seq(Packets) /\ wake \in BOOLEAN /\ due \in BOOLEAN /\ backoff \in BOOLEAN
  /\ unseen \subseteq Packets /\ blind \subseteq Packets /\ lost \subseteq {"act", "epi", "wake"}
  /\ faults \in 0..MaxFaults

\* .consumer.lock is held from the sync of the queue to the end of the run.
OneTransaction ==
  \A r \in Runners : pc[r] \in {"select", "wave", "after"} <=> lock = r

\* A birth the ledger has not seen is of the running wave, which does not come to it again.
NewsOfThisWave ==
  /\ \A i, j \in DOMAIN tasks : tasks[i] = tasks[j] => i = j
  /\ \A p \in news \ blind : lock # Nobody /\ pc[lock] = "wave" /\ p \notin ToSet(tasks)

\* A packet with a child is no longer ready, or about to be seen.
BirthsSeen ==
  \A p \in Packets \ blind :
    births[p] > 0 => led[p] \in {"dispatched", "work", "done"} \/ (led[p] = "ready" /\ p \in news)

Inv ==
  /\ TypeOK /\ OneTransaction /\ NewsOfThisWave /\ BirthsSeen
  /\ NoEdgeStranded /\ OneChildPerPacket /\ OverfillOnlyByUnseen
=============================================================================
