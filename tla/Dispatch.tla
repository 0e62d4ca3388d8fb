------------------------------ MODULE Dispatch ------------------------------
(***************************************************************************)
(* harness/dispatch_v2.py: dispatchers that each work through a wave of    *)
(* packets: decide a role and a route, pass the last gates, reserve budget,*)
(* take the birth claim of dispatch_single() and launch a supervisor, which*)
(* gives the reservation back when it ends.  Operators and the meter work  *)
(* on the budget meanwhile; harness/provider_health.py holds K3 back after *)
(* a transport failure.  All dispatches are of one generation of a packet. *)
(***************************************************************************)
EXTENDS Router, Budget, Sequences

CONSTANTS Dispatchers, Packets, NoPacket,
          Wave,      \* the packets of a dispatcher's command line, in order
          MaxFaults  \* bound: deaths of dispatchers and supervisors

Runs == Dispatchers \X Packets

ASSUME DispatchOK ==
  /\ NoPacket \notin Packets
  /\ Wave \in [Dispatchers -> Seq(Packets)]
  \* A run id is drawn anew for every try: a pair is one run if no wave names a packet twice.
  /\ \A d \in Dispatchers : \A i, j \in DOMAIN Wave[d] : Wave[d][i] = Wave[d][j] => i = j
  /\ Runs \subseteq Agents
  /\ MaxFaults \in Nat

VARIABLES
  todo,      \* the rest of the wave
  at, cur,   \* a dispatcher's place and packet
  chosen,    \* the role and the route decide() returned
  claim,     \* the dispatcher whose birth claim a packet has, or none
  child,     \* the supervisor of a run
  k3Runs,    \* runs of the K3 family that were born
  reservedIn,\* the task a run's reservation was made in
  backoff,   \* backoff_until of the K3 provider lies ahead
  demand,    \* pending_k3 as add_k3_demand() moves it
  faults

dispatcher == <<todo, at, cur, chosen>>
births == <<claim, child, k3Runs, reservedIn, backoff, demand>>
vars == <<budget, dispatcher, births, faults>>

Places == {"idle", "gate", "reserve", "claim", "launch", "giveback", "account",
           "aborted", "crashed"}
Children == {"none", "live", "ended", "gone", "lost"}

Undecided == [role |-> "worker", route |-> "v4_direct"]

Init ==
  /\ BudgetInit
  /\ todo = Wave
  /\ at = [d \in Dispatchers |-> "idle"] /\ cur = [d \in Dispatchers |-> NoPacket]
  /\ chosen = [d \in Dispatchers |-> Undecided]
  /\ claim = [p \in Packets |-> {}]
  /\ child = [a \in Runs |-> "none"] /\ k3Runs = {}
  /\ reservedIn = [a \in Runs |-> 0]
  /\ backoff = FALSE /\ demand = 0
  /\ faults = 0

Run(d) == <<d, cur[d]>>
Family(r) == CASE r = "verifier" -> "k3" [] r = "sol" -> "sol" [] OTHER -> "v4"
Go(d, place) == at' = [at EXCEPT ![d] = place]

\* The packet's last event; the wave goes on.
Answer(d) ==
  /\ Go(d, "idle")
  /\ cur' = [cur EXCEPT ![d] = NoPacket]
  /\ chosen' = [chosen EXCEPT ![d] = Undecided]
  /\ UNCHANGED todo

-----------------------------------------------------------------------------
(* decide() and dispatch(). *)

Actions == {"pass", "annotated_pass", "send_l2", "spawn_duty_officer", "direct_l3", "direct_l4"}

RoleForRoute(r) == CASE r = "v4_direct" -> "worker"
                     [] r \in K3Routes -> "verifier"
                     [] OTHER -> "worker"

ExplicitRoute(requested, r) == CASE requested = "worker" -> "v4_direct"
                                 [] requested = "verifier" -> "k3_verify"
                                 [] OTHER -> r

\* What decide() can return for a packet: an explicit role is a hard pin.
Decisions ==
  LET Routes == {RouteAction(mode, action, u, s, h).route :
                   mode \in RoutingMode, action \in Actions, u \in BOOLEAN, s \in BOOLEAN,
                   h \in BOOLEAN}
  IN {[pinned |-> FALSE, role |-> RoleForRoute(r), route |-> r] : r \in Routes}
     \cup {[pinned |-> TRUE, role |-> q, route |-> ExplicitRoute(q, r)] :
             q \in {"worker", "duty_officer", "verifier"}, r \in Routes}

\* Mechanical merge, the human gate or a turn of Sol: an event, not a spawn.
NotSpawned == {"merge_queue", "l4_human", "sol_adjudicate"}

Take(d) ==
  /\ at[d] = "idle" /\ todo[d] # <<>>
  /\ todo' = [todo EXCEPT ![d] = Tail(@)]

\* An event and no spawn: such a route, or a refusal, because the packet, the policy
\* or a pin is unreadable or K3 is held back (an automatic K3 route stays K3's).
DecideAnswers(d) ==
  /\ Take(d)
  /\ UNCHANGED <<at, cur, chosen, budget, births, faults>>

DecideSpawn(d) ==
  /\ Take(d)
  /\ cur' = [cur EXCEPT ![d] = Head(todo[d])]
  /\ \E c \in Decisions :
        /\ c.route \notin NotSpawned
        /\ c.route \in K3Routes /\ ~c.pinned => ~backoff
        /\ chosen' = [chosen EXCEPT ![d] = [role |-> c.role, route |-> c.route]]
  /\ Go(d, "gate")
  /\ UNCHANGED <<budget, births, faults>>

-----------------------------------------------------------------------------
(* _spawn(). *)

\* sol_budget_block_v2(); exempt and meterBlocks are what the governor says.
SolBudgetBlock(family, r, exempt, meterBlocks) ==
  IF family = "sol" \/ r = "sol_adjudicate"
  THEN ~exempt /\ (meterBlocks \/ rung \in {"DEGRADE", "BREAK"})
  ELSE rung = "BREAK"

SpawnBlocked(d) ==
  \/ chosen[d].route \in K3Routes /\ backoff
  \/ \A exempt, meterBlocks \in BOOLEAN :
        SolBudgetBlock(Family(chosen[d].role), chosen[d].route, exempt, meterBlocks)

\* Blocked, or the packet or the parent's sandbox is no longer valid.
GateRefuses(d) ==
  /\ at[d] = "gate"
  /\ Answer(d)
  /\ UNCHANGED <<budget, births, faults>>

GatePasses(d) ==
  /\ at[d] = "gate" /\ ~SpawnBlocked(d)
  /\ Go(d, "reserve")
  /\ UNCHANGED <<todo, cur, chosen, budget, births, faults>>

Reserve(d) ==
  /\ at[d] = "reserve"
  /\ Register(Run(d), chosen[d].role)
  /\ reservedIn' = [reservedIn EXCEPT ![Run(d)] = task]
  /\ Go(d, "claim")
  /\ UNCHANGED <<todo, cur, chosen, claim, child, k3Runs, backoff, demand, faults>>

\* BudgetExceeded leaves the try block before it binds dispatch_v1, which the first
\* except clause names: UnboundLocalError ends the process.
ReserveAborts(d) ==
  /\ at[d] = "reserve" /\ Exhausted(chosen[d].role)
  /\ Go(d, "aborted")
  /\ UNCHANGED <<todo, cur, chosen, budget, births, faults>>

\* dispatch_single(): before_spawn() throttles ...
Throttled(d) ==
  /\ at[d] = "claim"
  /\ Go(d, "giveback")
  /\ UNCHANGED <<todo, cur, chosen, budget, births, faults>>

\* ... or the generation is claimed.
ClaimRefused(d) ==
  /\ at[d] = "claim" /\ claim[cur[d]] # {}
  /\ Go(d, "giveback")
  /\ UNCHANGED <<todo, cur, chosen, budget, births, faults>>

TakeClaim(d) ==
  /\ at[d] = "claim" /\ claim[cur[d]] = {}
  /\ claim' = [claim EXCEPT ![cur[d]] = {d}]
  /\ Go(d, "launch")
  /\ UNCHANGED <<todo, cur, chosen, child, k3Runs, reservedIn, backoff, demand, budget, faults>>

\* No worktree, or no room for the report or the dispatched event: the claim stays.
BirthFails(d) ==
  /\ at[d] = "launch"
  /\ Go(d, "giveback")
  /\ UNCHANGED <<todo, cur, chosen, budget, births, faults>>

\* Popen fails: the claim is released.
LaunchFails(d) ==
  /\ at[d] = "launch"
  /\ claim' = [claim EXCEPT ![cur[d]] = {}]
  /\ Go(d, "giveback")
  /\ UNCHANGED <<todo, cur, chosen, child, k3Runs, reservedIn, backoff, demand, budget, faults>>

Launch(d) ==
  /\ at[d] = "launch"
  /\ child' = [child EXCEPT ![Run(d)] = "live"]
  /\ k3Runs' = IF Family(chosen[d].role) = "k3" THEN k3Runs \cup {Run(d)} ELSE k3Runs
  /\ Go(d, "account")
  /\ UNCHANGED <<todo, cur, chosen, claim, reservedIn, backoff, demand, budget, faults>>

\* Mutant: a refused birth keeps its reservation.
GiveBack_Keeps(d, cooled) ==
  /\ at[d] = "giveback"
  /\ Answer(d)
  /\ UNCHANGED <<budget, births, faults>>

GiveBack(d, cooled) ==
  /\ at[d] = "giveback"
  /\ Reclaim(Run(d), cooled)
  /\ Answer(d)
  /\ UNCHANGED <<births, faults>>

\* record_run_role() and add_k3_demand(), after the birth.
Account(d) ==
  /\ at[d] = "account"
  /\ demand' = demand + IF Family(chosen[d].role) = "k3" THEN 1 ELSE 0
  /\ Answer(d)
  /\ UNCHANGED <<claim, child, k3Runs, reservedIn, backoff, budget, faults>>

-----------------------------------------------------------------------------
(* Supervisors, the provider, the operator, and faults. *)

\* classify_failure(), or a report that was published.
Outcomes == {"success", "upstream_5xx", "transport_error", "provider_stall_no_first_response",
             "local_failure"}
Transport(outcome) == outcome \notin {"success", "local_failure"}

\* record_success() and record_failure(): only what the run that ends last says counts,
\* be it older than the failure it clears; a local failure leaves the record alone.
HealthAfter(outcome) == IF outcome = "success" THEN FALSE ELSE backoff \/ Transport(outcome)

ChildEnds(a) ==
  /\ child[a] = "live"
  /\ child' = [child EXCEPT ![a] = "ended"]
  /\ \E o \in Outcomes : backoff' = IF a \in k3Runs THEN HealthAfter(o) ELSE backoff
  /\ UNCHANGED <<claim, k3Runs, reservedIn, demand, dispatcher, budget, faults>>

\* Mutant: a supervisor that ends leaves the reservation to the dispatcher.
ChildReclaims_Not(a, cooled) ==
  /\ child[a] = "ended"
  /\ child' = [child EXCEPT ![a] = "gone"]
  /\ UNCHANGED <<claim, k3Runs, reservedIn, backoff, demand, dispatcher, budget, faults>>

ChildReclaims(a, cooled) ==
  /\ child[a] = "ended"
  /\ Reclaim(a, cooled)
  /\ child' = [child EXCEPT ![a] = "gone"]
  /\ UNCHANGED <<claim, k3Runs, reservedIn, backoff, demand, dispatcher, faults>>

BackoffExpires ==
  /\ backoff
  /\ backoff' = FALSE
  /\ UNCHANGED <<claim, child, k3Runs, reservedIn, demand, dispatcher, budget, faults>>

OperatorOpens ==
  /\ task < MaxTasks
  /\ \E c \in Ceilings, plan \in Plans : OpenTask(c, plan)
  /\ UNCHANGED <<dispatcher, births, faults>>

MeterRecords ==
  /\ \E a \in Agents, n \in Reports, cooled \in BOOLEAN :
        /\ spent + n <= MaxSpent
        /\ RecordUsage(a, n, cooled)
  /\ UNCHANGED <<dispatcher, births, faults>>

TrackerExtends ==
  /\ \E a \in Agents : Extend(a)
  /\ UNCHANGED <<dispatcher, births, faults>>

\* A dispatcher killed with a reservation in hand.
DispatcherDies(d) ==
  /\ at[d] \in {"claim", "launch", "giveback"} /\ faults < MaxFaults
  /\ Go(d, "crashed")
  /\ faults' = faults + 1
  /\ UNCHANGED <<todo, cur, chosen, budget, births>>

\* A supervisor killed, or unable to write the budget when it ends.
SupervisorDies(a) ==
  /\ child[a] \in {"live", "ended"} /\ faults < MaxFaults
  /\ child' = [child EXCEPT ![a] = "lost"]
  /\ faults' = faults + 1
  /\ UNCHANGED <<claim, k3Runs, reservedIn, backoff, demand, dispatcher, budget>>

DispatcherStep(d) ==
  \/ DecideAnswers(d) \/ DecideSpawn(d)
  \/ GateRefuses(d) \/ GatePasses(d)
  \/ Reserve(d) \/ ReserveAborts(d)
  \/ Throttled(d) \/ ClaimRefused(d) \/ TakeClaim(d)
  \/ BirthFails(d) \/ LaunchFails(d) \/ Launch(d)
  \/ \E cooled \in BOOLEAN : GiveBack(d, cooled)
  \/ Account(d)

SupervisorStep(a) == ChildEnds(a) \/ \E cooled \in BOOLEAN : ChildReclaims(a, cooled)

Next ==
  \/ \E d \in Dispatchers : DispatcherStep(d) \/ DispatcherDies(d)
  \/ \E a \in Runs : SupervisorStep(a) \/ SupervisorDies(a)
  \/ BackoffExpires \/ OperatorOpens \/ MeterRecords \/ TrackerExtends

-----------------------------------------------------------------------------
(* What the dispatchers and the budget promise. *)

InHand(a) == cur[a[1]] = a[2] /\ at[a[1]] \in {"claim", "launch", "giveback"}
Running(a) == child[a] \in {"live", "ended"}
Crashed(a) == child[a] = "lost" \/ (cur[a[1]] = a[2] /\ at[a[1]] = "crashed")

\* A run holds budget exactly while somebody will give it back: a dispatcher that
\* has it in hand or a supervisor that has not ended, of the task that is open.
\* Only a process that died leaves a reservation behind (dispatch_v2.py:527-590,
\* lifecycle_supervisor.py:813-825).
ReservationMatchesRun ==
  \A a \in Runs :
    /\ alloc[a] # 0 => InHand(a) \/ Running(a) \/ Crashed(a)
    /\ Running(a) /\ reservedIn[a] = task => alloc[a] # 0

\* With a task open nothing is granted that is not there, from a role's pool or from
\* what came back (budget_controller.py:231-248).
NoOverdraft ==
  /\ \A r \in Roles : rolePool[r] >= 0
  /\ task # 0 => pool >= 0

\* The ladder is not stepped down within a task, whoever reports and whoever is
\* reclaimed meanwhile (budget_controller.py:275-277).
RungMonotone == [][task' = task => Order[rung'] >= Order[rung]]_vars

\* A step moves tokens between one run, one role's pool and what came back, and makes none:
\* what a run is known to have consumed does not come back with the rest, and a reservation
\* that dispatcher and supervisor both give back comes back once
\* (budget_controller.py:223-249, 313-352).
Balance(a, r) == alloc[a] + rolePool[r] + pool
Burnt(a) == IF alloc'[a] = 0 THEN Least(alloc[a], used[a]) ELSE 0
Moves(a, r) ==
  /\ \A b \in Agents : b # a => alloc'[b] = alloc[b]
  /\ \A q \in Roles : q # r => rolePool'[q] = rolePool[q]
  /\ Balance(a, r)' <= Balance(a, r) - Burnt(a)
TokensGrantedOnce ==
  [][task' = task /\ <<alloc, rolePool, pool>>' # <<alloc, rolePool, pool>> =>
       \E a \in Agents, r \in Roles : Moves(a, r)]_vars

Spec == Init /\ [][Next]_vars

\* A dispatcher is one process; a supervisor's timeout ends its run.
FairSpec ==
  /\ Spec
  /\ \A d \in Dispatchers : WF_vars(DispatcherStep(d))
  /\ \A a \in Runs : WF_vars(SupervisorStep(a))

\* Every reservation is given back in the end, unless its owner died.
ReservationsReturn ==
  \A a \in Runs : alloc[a] # 0 ~> alloc[a] = 0 \/ Crashed(a)
=============================================================================
