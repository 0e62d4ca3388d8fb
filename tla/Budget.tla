------------------------------- MODULE Budget -------------------------------
(***************************************************************************)
(* harness/budget_controller.py: the token budget of one task, kept in     *)
(* data/budget/active.json and changed under .budget.lock.  A role's pool  *)
(* is carved into one allocation per run; what a run leaves unused goes to *)
(* a shared pool; what runs consume drives a ladder of four rungs.         *)
(***************************************************************************)
EXTENDS Integers

CONSTANTS Agents,   \* run ids, and the root session, whose usage is recorded
          Cost,     \* allocation(): P90 with headroom, by role
          Ceilings, \* ceilings an operator opens a task with
          Plans,    \* role counts an operator opens a task with, 0 for a role not named
          Reports,  \* token counts the meter reports
          MaxTasks, MaxSpent  \* bounds: tasks opened, tokens recorded in one task

\* The three shapes open_task() tells apart: other roles, K3 roles, Sol.
OtherRoles == {"worker", "duty_officer"}
Roles == OtherRoles \cup {"verifier", "sol"}
Rungs == {"NORMAL", "THROTTLE", "DEGRADE", "BREAK"}

ASSUME BudgetOK ==
  /\ Cost \in [Roles -> Nat \ {0}]
  /\ Ceilings \subseteq Nat \ {0}
  /\ Plans \subseteq [Roles -> Nat]
  /\ Reports \subseteq Nat
  /\ MaxTasks \in Nat /\ MaxSpent \in Nat

VARIABLES
  task,      \* the number of the open task, 0 for the bootstrap mode without one
  ceiling,
  rolePool,  \* allocated["role:r"]
  pool,      \* pool_returned; below zero only in bootstrap mode
  alloc,     \* allocated[a], 0 for a run that holds nothing
  used,      \* consumed[a]
  spent,     \* the sum of consumed, which _recompute_state() adds up
  rung       \* state

budget == <<task, ceiling, rolePool, pool, alloc, used, spent, rung>>

BudgetInit ==
  /\ task = 0 /\ ceiling = 0
  /\ rolePool = [r \in Roles |-> 0] /\ pool = 0
  /\ alloc = [a \in Agents |-> 0] /\ used = [a \in Agents |-> 0]
  /\ spent = 0 /\ rung = "NORMAL"

Least(a, b) == IF a < b THEN a ELSE b
Positive(a) == IF a > 0 THEN a ELSE 0

-----------------------------------------------------------------------------
(* Opening a task.  Reals of the code are integer divisions here. *)

Raw(plan) == [r \in Roles |-> plan[r] * Cost[r]]

\* Sol capped at 15 %, K3 lifted to 20 %, the others scaled to what is left.
Shaped(c, plan) ==
  LET raw == Raw(plan)
      sol == Least(raw["sol"], (15 * c) \div 100)
      floor == (20 * c) \div 100
      k3 == IF plan["verifier"] > 0 /\ raw["verifier"] < floor THEN floor ELSE raw["verifier"]
      left == Positive(c - (sol + k3))
      sum == raw["worker"] + raw["duty_officer"]
  IN [r \in Roles |-> IF r = "sol" THEN sol
                      ELSE IF r = "verifier" THEN k3
                      ELSE IF sum > left THEN (raw[r] * left) \div sum ELSE raw[r]]

\* open_task(): a fresh document, whoever still runs for the last task.
OpenTask(c, plan) ==
  /\ task' = task + 1 /\ ceiling' = c
  /\ rolePool' = Shaped(c, plan) /\ pool' = 0
  /\ alloc' = [a \in Agents |-> 0] /\ used' = [a \in Agents |-> 0]
  /\ spent' = 0 /\ rung' = "NORMAL"

-----------------------------------------------------------------------------
(* Allocations of runs. *)

Available(role) == rolePool[role] + pool
Exhausted(role) == Available(role) <= 0 /\ task # 0

\* Mutant: the run is granted its P90, whatever is left.
Grant_Unbounded(role) == Cost[role]

\* Bootstrap mode grants what is asked for, out of a pool that goes negative.
Grant(role) == IF Available(role) > 0 THEN Least(Cost[role], Available(role)) ELSE Cost[role]

\* register_agent() of a run that holds nothing and is not refused.
Register(a, role) ==
  /\ alloc[a] = 0 /\ ~Exhausted(role)
  /\ LET fromRole == Least(Grant(role), rolePool[role])
     IN /\ rolePool' = [rolePool EXCEPT ![role] = @ - fromRole]
        /\ pool' = pool - (Grant(role) - fromRole)
  /\ alloc' = [alloc EXCEPT ![a] = Grant(role)]
  /\ UNCHANGED <<task, ceiling, used, spent, rung>>

\* extend_or_wrap_up(), when it extends.
Extend(a) ==
  /\ 100 * used[a] >= 85 * (IF alloc[a] > 1 THEN alloc[a] ELSE 1)
  /\ rung # "BREAK"
  /\ LET extension == Least(pool, alloc[a] \div 2)
     IN /\ extension > 0
        /\ pool' = pool - extension
        /\ alloc' = [alloc EXCEPT ![a] = @ + extension]
  /\ UNCHANGED <<task, ceiling, rolePool, used, spent, rung>>

-----------------------------------------------------------------------------
(* The ladder. *)

Order == [r \in Rungs |-> CASE r = "NORMAL" -> 0 [] r = "THROTTLE" -> 1
                            [] r = "DEGRADE" -> 2 [] r = "BREAK" -> 3]
Threshold == [r \in Rungs |-> CASE r = "NORMAL" -> 0 [] r = "THROTTLE" -> 60
                                [] r = "DEGRADE" -> 85 [] r = "BREAK" -> 100]

Target(c, n) == CASE n > c -> "BREAK"
                  [] n <= c /\ 100 * n >= 85 * c -> "DEGRADE"
                  [] 100 * n < 85 * c /\ 100 * n >= 60 * c -> "THROTTLE"
                  [] OTHER -> "NORMAL"

\* _recompute_state(): up at once, down after the cooldown and 5 % below.
Recompute(n, cooled) ==
  LET c == IF ceiling > 1 THEN ceiling ELSE 1
      target == Target(c, n)
      below == 100 * n < (Threshold[rung] - 5) * c
  IN IF Order[target] > Order[rung] THEN target
     ELSE IF Order[target] < Order[rung] /\ cooled /\ below THEN target
     ELSE rung

\* Mutant: reclaim() drops what the run consumed with what it was granted.
Reclaim_Forgets(a, cooled) ==
  /\ pool' = pool + Positive(alloc[a] - used[a])
  /\ alloc' = [alloc EXCEPT ![a] = 0]
  /\ used' = [used EXCEPT ![a] = 0]
  /\ spent' = spent - used[a]
  /\ rung' = Recompute(spent - used[a], cooled)
  /\ UNCHANGED <<task, ceiling, rolePool>>

\* Mutant: what a run was granted comes back whole, whatever it consumed.
Reclaim_Whole(a, cooled) ==
  /\ pool' = pool + alloc[a]
  /\ alloc' = [alloc EXCEPT ![a] = 0]
  /\ rung' = Recompute(spent, cooled)
  /\ UNCHANGED <<task, ceiling, rolePool, used, spent>>

\* reclaim(): nothing for a run that holds nothing.
Reclaim(a, cooled) ==
  /\ pool' = pool + Positive(alloc[a] - used[a])
  /\ alloc' = [alloc EXCEPT ![a] = 0]
  /\ rung' = Recompute(spent, cooled)
  /\ UNCHANGED <<task, ceiling, rolePool, used, spent>>

\* record_usage(), for a run of this task or of an earlier one.
RecordUsage(a, n, cooled) ==
  /\ used' = [used EXCEPT ![a] = @ + n]
  /\ spent' = spent + n
  /\ rung' = Recompute(spent + n, cooled)
  /\ UNCHANGED <<task, ceiling, rolePool, pool, alloc>>
=============================================================================
