----------------------------- MODULE Subagents -----------------------------
(***************************************************************************)
(* The roster of Desktop subagents: hooks/subagent_lifecycle.py.           *)
(*                                                                         *)
(* Every hook is a process of its own.  It changes native_roster.json in   *)
(* one transaction under .native_roster.lock, and appends to               *)
(* close_requests.ndjson inside it: a request that the host close a        *)
(* finished child.  Hooks are lost, delivered twice, overtake each other,  *)
(* or die between the append and the roster's rename; an unreadable roster *)
(* is refused until somebody removes it, and starts again from nothing.    *)
(* A session start reads the rollouts to find the ends no hook reported.   *)
(***************************************************************************)
EXTENDS Integers, FiniteSets

CONSTANTS Agents,     \* Desktop subagents of one parent session
          MaxFaults   \* bound: hooks lost, doubled or killed, rosters lost

ASSUME SubagentConstants == MaxFaults \in Nat

VARIABLES
  host,      \* host[a]: what the child is: unborn, live, ended
  due,       \* hook events on their way
  pending,   \* spawn calls announced by PreToolUse and not matched to a start
  roster,    \* roster[a]: the child's row
  closes,    \* closes[a]: its rows in close_requests.ndjson
  scan,      \* children a session start has still to look up, of those it saw active
  faults

rosterVars == <<host, due, pending, roster, closes, scan, faults>>

Absent == [status |-> "absent", emitted |-> FALSE, consumed |-> FALSE]
Row(status) == [Absent EXCEPT !.status = status]

RosterInit ==
  /\ host = [a \in Agents |-> "unborn"]
  /\ due = {} /\ pending = {}
  /\ roster = [a \in Agents |-> Absent]
  /\ closes = [a \in Agents |-> 0]
  /\ scan = {} /\ faults = 0

Fault == faults < MaxFaults /\ faults' = faults + 1

-----------------------------------------------------------------------------
(***************************************************************************)
(* The host's side.                                                        *)
(***************************************************************************)
\* A spawn call: PreToolUse prunes the starts that waited too long and announces this one
\* before the child is born - unless the hook is lost.
Spawn(a) ==
  /\ host[a] = "unborn"
  /\ host' = [host EXCEPT ![a] = "live"]
  /\ due' = due \cup {<<"SubagentStart", a>>}
  /\ \/ /\ \E expired \in SUBSET pending : pending' = (pending \ expired) \cup {a}
        /\ UNCHANGED faults
     \/ Fault /\ UNCHANGED pending
  /\ UNCHANGED <<roster, closes, scan>>

Ends(a) ==
  /\ host[a] = "live"
  /\ host' = [host EXCEPT ![a] = "ended"]
  /\ due' = due \cup {<<"SubagentStop", a>>}
  /\ UNCHANGED <<pending, roster, closes, scan, faults>>

\* The parent closes the child: PreToolUse of close_agent notes it, asked for or not.
HostCloses(a) ==
  /\ host[a] # "unborn" /\ ~roster[a].consumed
  /\ host' = [host EXCEPT ![a] = "ended"]
  /\ due' = IF host[a] = "live" THEN due \cup {<<"SubagentStop", a>>} ELSE due
  /\ roster' = IF roster[a].status = "absent" THEN roster
               ELSE [roster EXCEPT ![a].consumed = TRUE]
  /\ UNCHANGED <<pending, closes, scan, faults>>

-----------------------------------------------------------------------------
(***************************************************************************)
(* The hooks.  Closing(a, row) is what a transaction leaves of row and of  *)
(* the ledger when it queues a close request.                              *)
(***************************************************************************)
\* Mutant: only the roster's own flag is looked at.
Asked_ByFlag(a) == roster[a].emitted \/ roster[a].consumed

\* queue_close_locked(): the append-only ledger is asked too, the roster may have been rebuilt.
Asked(a) == roster[a].emitted \/ roster[a].consumed \/ closes[a] > 0

Closed(row) == [row EXCEPT !.emitted = @ \/ ~row.consumed]

\* Mutant: the roster is renamed first and the requests are appended after.
Transact_RosterFirst(A, new) ==
  /\ roster' = [a \in Agents |-> IF a \in A THEN Closed(new[a]) ELSE roster[a]]
  /\ \/ /\ closes' = [a \in Agents |-> IF a \in A /\ ~Asked(a) THEN closes[a] + 1 ELSE closes[a]]
        /\ UNCHANGED faults
     \/ Fault /\ A # {} /\ UNCHANGED closes

\* The transaction on the rows of set A commits - or dies after the appends.
Transact(A, new) ==
  /\ closes' = [a \in Agents |-> IF a \in A /\ ~Asked(a) THEN closes[a] + 1 ELSE closes[a]]
  /\ \/ roster' = [a \in Agents |-> IF a \in A THEN Closed(new[a]) ELSE roster[a]]
        /\ UNCHANGED faults
     \/ Fault /\ A # {} /\ UNCHANGED roster

\* A hook process takes its event; a doubled one stays to be taken again.
Takes(e) ==
  /\ e \in due /\ due' = due \ {e}

\* Mutant: a start is recorded whatever the roster says.
Unknown_Always(a) == TRUE

Unknown(a) == roster[a].status = "absent"

\* Which announced spawn the start is matched to: its own if the parent's rollout names it,
\* else the only one there is, else none.
Matches(a, announced) ==
  (IF a \in announced THEN {{a}} ELSE {}) \cup
  (IF Cardinality(announced) = 1 THEN {announced} ELSE {{}})

\* subagent_start(): nothing for a child that has a row.
SubagentStart(a) ==
  /\ Takes(<<"SubagentStart", a>>)
  /\ \/ /\ Unknown(a)
        /\ roster' = [roster EXCEPT ![a] = Row("running")]
        /\ \E expired \in SUBSET pending : \E chosen \in Matches(a, pending \ expired) :
             pending' = (pending \ expired) \ chosen
     \/ ~Unknown(a) /\ UNCHANGED <<roster, pending>>
  /\ UNCHANGED <<host, closes, scan, faults>>

\* subagent_stop(): also for a child whose start was never seen.
SubagentStop(a) ==
  /\ Takes(<<"SubagentStop", a>>)
  /\ Transact({a}, [roster EXCEPT ![a].status = "terminal"])
  /\ UNCHANGED <<host, pending, scan>>

\* parent_stop(): every running child of the session is interrupted.
ParentStop ==
  LET A == {a \in Agents : roster[a].status = "running"} IN
  /\ A # {}
  /\ Transact(A, [a \in Agents |-> [roster[a] EXCEPT !.status = "interrupted"]])
  /\ UNCHANGED <<host, due, pending, scan>>

-----------------------------------------------------------------------------
(***************************************************************************)
(* SessionStart: cold_reconcile and prune_native_roster.                   *)
(***************************************************************************)
Active(a) == roster[a].status \in {"running", "interrupted"}

SessionStart ==
  /\ scan = {} /\ {a \in Agents : Active(a)} # {}
  /\ scan' = {a \in Agents : Active(a)}
  /\ UNCHANGED <<host, due, pending, roster, closes, faults>>

\* rollout_info(): a terminal marker in the child's rollout.
Terminal(a) == host[a] = "ended"

\* One child of the snapshot: its rollout shows whether it ended.  The row is read again.
ColdReconcile(a) ==
  /\ a \in scan /\ scan' = scan \ {a}
  /\ \/ /\ roster[a].status # "absent" /\ Terminal(a)
        /\ Transact({a}, [roster EXCEPT ![a].status = "terminal"])
     \/ /\ roster[a].status = "absent" \/ ~Terminal(a)
        /\ UNCHANGED <<roster, closes, faults>>
  /\ UNCHANGED <<host, due, pending>>

\* Finished rows go after the prune window, by when their hooks have long run.
PruneNativeRoster(a) ==
  /\ roster[a].status = "terminal"
  /\ \A e \in due : e[2] # a
  /\ roster' = [roster EXCEPT ![a] = Absent]
  /\ UNCHANGED <<host, due, pending, closes, scan, faults>>

\* The roster file is gone: transact() begins a new one.
Rebuilt ==
  /\ Fault
  /\ roster' = [a \in Agents |-> Absent] /\ pending' = {}
  /\ UNCHANGED <<host, due, closes, scan>>

HookLost == \E e \in due : Takes(e) /\ Fault /\ UNCHANGED <<host, pending, roster, closes, scan>>

\* The same event comes once more.
HookDoubled(a) ==
  /\ host[a] = "ended" /\ Fault
  /\ \E name \in {"SubagentStart", "SubagentStop"} : due' = due \cup {<<name, a>>}
  /\ UNCHANGED <<host, pending, roster, closes, scan>>

RosterHooks(a) == SubagentStart(a) \/ SubagentStop(a)

RosterNext ==
  \/ \E a \in Agents :
       Spawn(a) \/ Ends(a) \/ HostCloses(a) \/ RosterHooks(a) \/ ColdReconcile(a)
       \/ PruneNativeRoster(a) \/ HookDoubled(a)
  \/ ParentStop \/ SessionStart \/ Rebuilt \/ HookLost

RosterSpec == RosterInit /\ [][RosterNext]_rosterVars

\* Sessions start again and again, and a session start looks up every child it listed.
RosterFairSpec == RosterSpec /\ WF_rosterVars(SessionStart) /\ \A a \in Agents : WF_rosterVars(ColdReconcile(a))

-----------------------------------------------------------------------------
Rows == [status : {"absent", "running", "interrupted", "terminal"},
         emitted : BOOLEAN, consumed : BOOLEAN]

TypeOK ==
  /\ host \in [Agents -> {"unborn", "live", "ended"}]
  /\ due \subseteq {"SubagentStart", "SubagentStop"} \X Agents
  /\ pending \subseteq Agents /\ scan \subseteq Agents
  /\ roster \in [Agents -> Rows]
  /\ closes \in [Agents -> Nat]
  /\ faults \in 0..MaxFaults

\* The host is asked to close a child at most once, whatever becomes of the hooks and of the
\* roster (subagent_lifecycle.py:315 the append-only ledger is the exactly-once truth).
CloseOnce == \A a \in Agents : closes[a] <= 1

\* A child that has stopped does not come back to the roster as running, where it would hold
\* a slot: a start that comes late, or again, finds the row (subagent_lifecycle.py:574).
TerminalStays ==
  [][\A a \in Agents : roster[a].status \in {"terminal", "interrupted"} => roster'[a].status # "running"]_rosterVars

\* A child that ended and has a row is closed - or the row is gone - though its hook was lost
\* or died half way (subagent_lifecycle.py:724 cold_reconcile).
EveryEndClosed ==
  \A a \in Agents : roster[a].status # "absent" /\ host[a] = "ended"
                    ~> closes[a] = 1 \/ roster[a].consumed \/ roster[a].status = "absent"
=============================================================================
