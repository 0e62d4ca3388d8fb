-------------------------- MODULE TerminalEpilogue --------------------------
(***************************************************************************)
(* The terminal-edge handshake between lifecycle supervisors               *)
(* (schedule_epilogue in harness/lifecycle_supervisor.py) and the epilogue *)
(* runner (harness/terminal_packet_epilogue.py).                           *)
(*                                                                         *)
(* A supervisor whose worker ended has its terminal event in the log; it   *)
(* then raises requested_seq under the claim lock and either leaves the    *)
(* edge to the runner that the marker names, if that process is alive, or  *)
(* starts one.  Runners take turns on the packet lock; each pass drains    *)
(* the log, refills, and under the claim lock either sees newer requests   *)
(* and passes again or removes its marker and leaves.                      *)
(***************************************************************************)
EXTENDS Integers, FiniteSets

CONSTANTS Supervisors,  \* workers' supervisors, each with one terminal edge
          Generations,  \* epilogue processes (a pid with its start ticks)
          NoProcess,    \* no process
          MaxLosses     \* bound: deaths of processes and failed launches

ASSUME ProcessesOK ==
  /\ Supervisors \cap Generations = {}
  /\ NoProcess \notin Supervisors \cup Generations
  /\ MaxLosses \in Nat

VARIABLES
  requested, consumed,  \* terminal_requests.json
  pidfile,              \* terminal_epilogue.pid: the runner it names
  claim,                \* holder of .terminal_epilogue.lock
  turn,                 \* holder of .terminal_packet.lock
  sup,                  \* where a supervisor is
  seq,                  \* the sequence number a supervisor's request got
  child,                \* the runner a supervisor has just started
  runner,               \* where a runner is
  snap,                 \* requested_seq as a runner read it before its pass
  processed,            \* supervisors whose terminal event a pass has drained
  missed,               \* supervisors whose pass failed visibly
  losses

files == <<requested, consumed, pidfile>>
passes == <<turn, runner, snap, processed, missed>>
requests == <<sup, seq, child>>
edgeVars == <<files, claim, requests, passes, losses>>

SupStates == {"running", "ended", "counted", "started", "done"}
RunStates == {"unborn", "waiting", "reading", "working", "closing", "leaving", "dead"}

EdgeInit ==
  /\ requested = 0 /\ consumed = 0 /\ pidfile = NoProcess
  /\ claim = NoProcess /\ turn = NoProcess
  /\ sup = [s \in Supervisors |-> "running"]
  /\ seq = [s \in Supervisors |-> 0]
  /\ child = [s \in Supervisors |-> NoProcess]
  /\ runner = [r \in Generations |-> "unborn"]
  /\ snap = [r \in Generations |-> 0]
  /\ processed = {} /\ missed = {}
  /\ losses = 0

\* runner_generation_alive(): the process exists, whatever it is doing.
runner_generation_alive(r) == r \in Generations /\ runner[r] \notin {"unborn", "dead"}

-----------------------------------------------------------------------------
(* The supervisor. *)

\* Its terminal event (subagent_stop, exec_failed, timeout) is in the log.
WorkerEnds(s) ==
  /\ sup[s] = "running"
  /\ sup' = [sup EXCEPT ![s] = "ended"]
  /\ UNCHANGED <<files, claim, seq, child, passes, losses>>

\* Take the claim and count the edge durably.
CountEdge(s) ==
  /\ sup[s] = "ended" /\ claim = NoProcess
  /\ claim' = s
  /\ requested' = requested + 1
  /\ seq' = [seq EXCEPT ![s] = requested + 1]
  /\ sup' = [sup EXCEPT ![s] = "counted"]
  /\ UNCHANGED <<consumed, pidfile, child, passes, losses>>

\* A live runner will see the edge: nothing to start.
Coalesce(s) ==
  /\ sup[s] = "counted" /\ runner_generation_alive(pidfile)
  /\ sup' = [sup EXCEPT ![s] = "done"]
  /\ claim' = NoProcess
  /\ UNCHANGED <<files, seq, child, passes, losses>>

StartRunner(s, r) ==
  /\ sup[s] = "counted" /\ ~runner_generation_alive(pidfile)
  /\ runner[r] = "unborn"
  /\ runner' = [runner EXCEPT ![r] = "waiting"]
  /\ child' = [child EXCEPT ![s] = r]
  /\ sup' = [sup EXCEPT ![s] = "started"]
  /\ UNCHANGED <<files, claim, seq, turn, snap, processed, missed, losses>>

WriteMarker(s) ==
  /\ sup[s] = "started"
  /\ pidfile' = child[s]
  /\ sup' = [sup EXCEPT ![s] = "done"]
  /\ claim' = NoProcess
  /\ UNCHANGED <<requested, consumed, seq, child, passes, losses>>

\* The supervisor dies inside the transaction, or Popen fails: the kernel or the
\* with-statement frees the claim, the count stays.
SchedulingFails(s) ==
  /\ sup[s] \in {"counted", "started"} /\ losses < MaxLosses
  /\ sup' = [sup EXCEPT ![s] = "done"]
  /\ claim' = NoProcess
  /\ losses' = losses + 1
  /\ UNCHANGED <<files, seq, child, passes>>

-----------------------------------------------------------------------------
(* The runner. *)

TakeTurn(r) ==
  /\ runner[r] = "waiting" /\ turn = NoProcess
  /\ turn' = r
  /\ runner' = [runner EXCEPT ![r] = "reading"]
  /\ UNCHANGED <<files, claim, requests, snap, processed, missed, losses>>

ReadRequests(r) ==
  /\ runner[r] = "reading"
  /\ snap' = [snap EXCEPT ![r] = requested]
  /\ runner' = [runner EXCEPT ![r] = "working"]
  /\ UNCHANGED <<files, claim, requests, turn, processed, missed, losses>>

EndedWorkers == { s \in Supervisors : sup[s] # "running" }

\* normalize reports, step, route retries, step, refill: every terminal event
\* in the log by then is drained.
Pass(r) ==
  /\ runner[r] = "working"
  /\ processed' = processed \cup EndedWorkers
  /\ runner' = [runner EXCEPT ![r] = "closing"]
  /\ UNCHANGED <<files, claim, requests, turn, snap, missed, losses>>

\* step() raised: the error is kept for the status file and the edge is consumed.
PassFails(r) ==
  /\ runner[r] = "working" /\ losses < MaxLosses
  /\ losses' = losses + 1
  /\ missed' = missed \cup EndedWorkers
  /\ runner' = [runner EXCEPT ![r] = "closing"]
  /\ UNCHANGED <<files, claim, requests, turn, snap, processed>>

Larger(a, b) == IF a >= b THEN a ELSE b

\* Mutants: consume whatever is requested by now; leave without looking for newer
\* requests; leave the marker behind.
Close_ConsumesLatest(r) ==
  /\ runner[r] = "closing" /\ claim = NoProcess
  /\ consumed' = requested
  /\ pidfile' = IF pidfile = r THEN NoProcess ELSE pidfile
  /\ turn' = NoProcess
  /\ runner' = [runner EXCEPT ![r] = "leaving"]
  /\ UNCHANGED <<requested, claim, requests, snap, processed, missed, losses>>
Close_Leaves(r) ==
  /\ runner[r] = "closing" /\ claim = NoProcess
  /\ consumed' = Larger(consumed, snap[r])
  /\ pidfile' = IF pidfile = r THEN NoProcess ELSE pidfile
  /\ turn' = NoProcess
  /\ runner' = [runner EXCEPT ![r] = "leaving"]
  /\ UNCHANGED <<requested, claim, requests, snap, processed, missed, losses>>
Close_KeepsMarker(r) ==
  /\ runner[r] = "closing" /\ claim = NoProcess
  /\ consumed' = Larger(consumed, snap[r])
  /\ \/ /\ requested > snap[r]
        /\ runner' = [runner EXCEPT ![r] = "reading"]
        /\ UNCHANGED turn
     \/ /\ requested <= snap[r]
        /\ turn' = NoProcess
        /\ runner' = [runner EXCEPT ![r] = "leaving"]
  /\ UNCHANGED <<requested, pidfile, claim, requests, snap, processed, missed, losses>>

\* Under the claim: consume what was read; pass again if more was requested
\* since, else drop the own marker, free the turn and leave.
Close(r) ==
  /\ runner[r] = "closing" /\ claim = NoProcess
  /\ consumed' = Larger(consumed, snap[r])
  /\ \/ /\ requested > snap[r]
        /\ runner' = [runner EXCEPT ![r] = "reading"]
        /\ UNCHANGED <<pidfile, turn>>
     \/ /\ requested <= snap[r]
        /\ pidfile' = IF pidfile = r THEN NoProcess ELSE pidfile
        /\ turn' = NoProcess
        /\ runner' = [runner EXCEPT ![r] = "leaving"]
  /\ UNCHANGED <<requested, claim, requests, snap, processed, missed, losses>>

\* The status file is written and the process ends.
Exit(r) ==
  /\ runner[r] = "leaving"
  /\ runner' = [runner EXCEPT ![r] = "dead"]
  /\ UNCHANGED <<files, claim, requests, turn, snap, processed, missed, losses>>

\* A runner dies; its locks are freed, its marker stays.
RunnerDies(r) ==
  /\ runner_generation_alive(r) /\ losses < MaxLosses
  /\ runner' = [runner EXCEPT ![r] = "dead"]
  /\ turn' = IF turn = r THEN NoProcess ELSE turn
  /\ losses' = losses + 1
  /\ UNCHANGED <<files, claim, requests, snap, processed, missed>>

-----------------------------------------------------------------------------
Schedule(s) ==
  \/ CountEdge(s) \/ Coalesce(s) \/ WriteMarker(s)
  \/ \E r \in Generations : StartRunner(s, r)

Drain(r) == TakeTurn(r) \/ ReadRequests(r) \/ Pass(r) \/ Close(r) \/ Exit(r)

EdgeNext ==
  \/ \E s \in Supervisors : WorkerEnds(s) \/ Schedule(s) \/ SchedulingFails(s)
  \/ \E r \in Generations : Drain(r) \/ PassFails(r) \/ RunnerDies(r)

EdgeSpec == EdgeInit /\ [][EdgeNext]_edgeVars

\* Processes that are not killed run on, and flock is granted to a waiter that
\* keeps asking.
FairEdgeSpec ==
  /\ EdgeSpec
  /\ \A s \in Supervisors : SF_edgeVars(Schedule(s))
  /\ \A r \in Generations : SF_edgeVars(Drain(r))

-----------------------------------------------------------------------------
EdgeTypeOK ==
  /\ requested \in Nat /\ consumed \in Nat
  /\ pidfile \in Generations \cup {NoProcess}
  /\ claim \in Supervisors \cup {NoProcess} /\ turn \in Generations \cup {NoProcess}
  /\ sup \in [Supervisors -> SupStates] /\ seq \in [Supervisors -> Nat]
  /\ child \in [Supervisors -> Generations \cup {NoProcess}]
  /\ runner \in [Generations -> RunStates] /\ snap \in [Generations -> Nat]
  /\ processed \subseteq Supervisors /\ missed \subseteq Supervisors
  /\ losses \in 0..MaxLosses

\* An edge counts as consumed only after a pass that began when it was already
\* requested: its terminal event was drained, or that pass failed visibly.
ConsumedWasPassed ==
  \A s \in Supervisors :
    seq[s] # 0 /\ seq[s] <= consumed => s \in processed \cup missed

\* A runner that will still look at the requests.
Draining(r) == runner[r] \in {"waiting", "reading", "working", "closing"}

\* "Coalescing never discards an edge": as long as nothing was killed, an edge
\* that is not consumed has a runner that will look again, or a supervisor that
\* is about to find or start one.
NoStrandedEdge ==
  losses = 0 /\ consumed < requested =>
    \/ \E s \in Supervisors : sup[s] \in {"counted", "started"}
    \/ \E r \in Generations : Draining(r)

\* The strengthening that makes the two inductive.
CountsAgree ==
  /\ consumed <= requested
  /\ \A r \in Generations : snap[r] <= requested
  /\ \A s \in Supervisors :
       /\ seq[s] <= requested
       /\ seq[s] # 0 => sup[s] \notin {"running", "ended"}

\* A runner about to close has passed over every edge of its snapshot.
PassedBeforeClose ==
  \A r \in Generations, s \in Supervisors :
    runner[r] = "closing" /\ seq[s] # 0 /\ seq[s] <= snap[r]
      => s \in processed \cup missed

\* The claim is held exactly inside schedule_epilogue's transaction, so no runner
\* closes between a supervisor's look at the marker and its write of it.
ClaimDiscipline ==
  \A s \in Supervisors : sup[s] \in {"counted", "started"} <=> claim = s

\* Unless something was killed, a marker or a fresh child is a runner that will
\* still look.
MarkerDrains ==
  losses = 0 =>
    /\ pidfile # NoProcess => Draining(pidfile)
    /\ \A s \in Supervisors :
         sup[s] = "started" => child[s] \in Generations /\ Draining(child[s])

Sound ==
  /\ EdgeTypeOK /\ CountsAgree /\ PassedBeforeClose /\ ConsumedWasPassed
  /\ ClaimDiscipline /\ MarkerDrains /\ NoStrandedEdge

\* Every worker that ends has its terminal event drained, unless a process is
\* killed or a pass fails.
EveryEdgeDrained ==
  \A s \in Supervisors : (sup[s] = "ended") ~> (s \in processed \/ losses > 0)
=============================================================================
