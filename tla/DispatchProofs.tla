-------------------------- MODULE DispatchProofs ---------------------------
(***************************************************************************)
(* What holds of the budget and of the dispatchers that spend it, for any  *)
(* cost model, ceilings, plans, waves and number of deaths.  Two facts of  *)
(* the books carry it: a pool is never granted beyond what it holds, and   *)
(* the ladder stands no higher than what was spent explains, so the way    *)
(* down, which asks for less than that, stays shut within a task.          *)
(***************************************************************************)
EXTENDS Dispatch, TLAPS

-----------------------------------------------------------------------------
(* The books. *)

BooksTyped ==
  /\ task \in Nat /\ ceiling \in Nat
  /\ rolePool \in [Roles -> Nat] /\ pool \in Int
  /\ alloc \in [Agents -> Nat] /\ used \in [Agents -> Nat]
  /\ spent \in Nat /\ rung \in Rungs

Effective == IF ceiling > 1 THEN ceiling ELSE 1

\* What was spent explains the rung.
Explained == 100 * spent >= Threshold[rung] * Effective

Books == BooksTyped /\ (task # 0 => pool >= 0) /\ Explained

LEMMA Quotient ==
  ASSUME NEW a \in Nat, NEW b \in Nat, b > 0
  PROVE  a \div b \in Nat
BY SMT

LEMMA Product ==
  ASSUME NEW a \in Nat, NEW b \in Nat
  PROVE  a * b \in Nat
BY SMT

\* open_task() carves pools that are not negative.
LEMMA ShapedTyped ==
  ASSUME BudgetOK, NEW c \in Ceilings, NEW plan \in Plans
  PROVE  Shaped(c, plan) \in [Roles -> Nat]
<1> DEFINE raw == Raw(plan)
<1>0. c \in Nat /\ plan \in [Roles -> Nat] /\ Cost \in [Roles -> Nat]  BY DEF BudgetOK
<1>1. raw \in [Roles -> Nat]
  <2> SUFFICES ASSUME NEW r \in Roles PROVE plan[r] * Cost[r] \in Nat  BY DEF Raw
  <2>1. plan[r] \in Nat /\ Cost[r] \in Nat  BY <1>0
  <2> QED  BY <2>1, Product
<1> DEFINE sol == Least(raw["sol"], (15 * c) \div 100)
           floor == (20 * c) \div 100
           k3 == IF plan["verifier"] > 0 /\ raw["verifier"] < floor THEN floor ELSE raw["verifier"]
           left == Positive(c - (sol + k3))
           sum == raw["worker"] + raw["duty_officer"]
<1>2. {"sol", "verifier", "worker", "duty_officer"} \subseteq Roles  BY DEF Roles, OtherRoles
<1> HIDE DEF raw
<1>3. raw["sol"] \in Nat /\ raw["verifier"] \in Nat /\ raw["worker"] \in Nat /\ raw["duty_officer"] \in Nat
  BY <1>1, <1>2
<1>4. sol \in Nat /\ floor \in Nat  BY <1>0, <1>3 DEF Least
<1> HIDE DEF sol, floor
<1>5. k3 \in Nat  BY <1>3, <1>4
<1> HIDE DEF k3
<1>6. left \in Nat  BY <1>0, <1>4, <1>5 DEF Positive
<1>7. sum \in Nat  BY <1>3
<1> HIDE DEF left, sum
<1>8. ASSUME NEW r \in Roles, sum > left PROVE (raw[r] * left) \div sum \in Nat
  <2>1. raw[r] * left \in Nat  BY <1>1, <1>6, Product
  <2>2. sum > 0  BY <1>6, <1>7, <1>8
  <2> QED  BY <1>7, <2>1, <2>2, Quotient
<1>9. [r \in Roles |-> IF r = "sol" THEN sol ELSE IF r = "verifier" THEN k3
                       ELSE IF sum > left THEN (raw[r] * left) \div sum ELSE raw[r]]
        \in [Roles -> Nat]
  BY <1>1, <1>4, <1>5, <1>8
<1> QED  BY <1>9 DEF Shaped, raw, sol, floor, k3, left, sum

\* The ladder after n tokens: not below where it stood, and explained by n.
LEMMA LadderClimbs ==
  ASSUME Books, NEW n \in Nat, n >= spent, NEW cooled \in BOOLEAN
  PROVE  /\ Recompute(n, cooled) \in Rungs
         /\ Order[Recompute(n, cooled)] >= Order[rung]
         /\ 100 * n >= Threshold[Recompute(n, cooled)] * Effective
<1> DEFINE c == Effective
<1>1. c \in Nat /\ c >= 1 /\ ceiling \in Nat /\ spent \in Nat /\ rung \in Rungs
  BY DEF Books, BooksTyped, Effective
<1>2. 100 * spent >= Threshold[rung] * c  BY DEF Books, Explained
<1>3. \A r \in Rungs : Threshold[r] \in {0, 60, 85, 100} /\ Order[r] \in 0..3
  BY DEF Threshold, Order, Rungs
<1> DEFINE target == Target(c, n)
<1>4. target \in Rungs /\ 100 * n >= Threshold[target] * c
  BY <1>1 DEF Target, Threshold, Rungs
<1> HIDE DEF c, target
<1>5. Threshold[rung] \in Int /\ Threshold[rung] * c \in Int  BY <1>1, <1>3
<1>6. 100 * n >= Threshold[rung] * c  BY <1>1, <1>2, <1>5
<1>7. ~(100 * n < (Threshold[rung] - 5) * c)
  <2>1. (Threshold[rung] - 5) * c <= Threshold[rung] * c  BY <1>1, <1>3
  <2>2. (Threshold[rung] - 5) * c \in Int  BY <1>1, <1>3
  <2> QED  BY <1>5, <1>6, <2>1, <2>2
<1>8. Recompute(n, cooled) = IF Order[target] > Order[rung] THEN target ELSE rung
  <2>1. c = IF ceiling > 1 THEN ceiling ELSE 1  BY DEF c, Effective
  <2> QED  BY <1>7, <2>1 DEF Recompute, target, c
<1>9. Order[target] \in Int /\ Order[rung] \in Int  BY <1>1, <1>3, <1>4
<1> QED  BY <1>1, <1>4, <1>6, <1>8, <1>9 DEF c

\* The operations of budget_controller.py on the books.
LEMMA OpenBooks ==
  ASSUME BudgetOK, Books, NEW c \in Ceilings, NEW plan \in Plans, OpenTask(c, plan)
  PROVE  Books'
<1>1. c \in Nat /\ c > 0  BY DEF BudgetOK
<1>2. rolePool' \in [Roles -> Nat]  BY ShapedTyped DEF OpenTask
<1>3. Threshold["NORMAL"] = 0 /\ "NORMAL" \in Rungs  BY DEF Threshold, Rungs
<1>4. BooksTyped'  BY <1>1, <1>2, <1>3 DEF OpenTask, Books, BooksTyped
<1>5. Explained'  BY <1>1, <1>3 DEF OpenTask, Explained, Effective
<1> QED  BY <1>4, <1>5 DEF Books, OpenTask

LEMMA RegisterBooks ==
  ASSUME BudgetOK, Books, NEW a \in Agents, NEW role \in Roles, Register(a, role)
  PROVE  Books' /\ Grant(role) \in Nat /\ Grant(role) > 0
<1>1. Cost[role] \in Nat /\ Cost[role] > 0  BY DEF BudgetOK
<1>2. rolePool[role] \in Nat /\ pool \in Int /\ task \in Nat  BY DEF Books, BooksTyped
<1>3. Grant(role) \in Nat /\ Grant(role) > 0  BY <1>1, <1>2 DEF Grant, Available, Least
<1> DEFINE fromRole == Least(Grant(role), rolePool[role])
<1>4. fromRole \in Nat /\ fromRole <= rolePool[role] /\ fromRole <= Grant(role)
  BY <1>2, <1>3 DEF Least
<1>5. task # 0 => pool - (Grant(role) - fromRole) >= 0
  BY <1>1, <1>2, <1>3 DEF Register, Exhausted, Grant, Available, Least, Books
<1>6. /\ rolePool' = [rolePool EXCEPT ![role] = @ - fromRole]
      /\ pool' = pool - (Grant(role) - fromRole)
      /\ alloc' = [alloc EXCEPT ![a] = Grant(role)]
      /\ UNCHANGED <<task, ceiling, used, spent, rung>>
  BY DEF Register
<1> HIDE DEF fromRole
<1>7. BooksTyped'  BY <1>2, <1>3, <1>4, <1>6 DEF Books, BooksTyped
<1>8. Explained'  BY <1>6 DEF Books, Explained, Effective
<1> QED  BY <1>3, <1>5, <1>6, <1>7, <1>8 DEF Books

\* extend_or_wrap_up() gives nothing to a run that holds nothing.
LEMMA ExtendBooks ==
  ASSUME Books, NEW a \in Agents, Extend(a)
  PROVE  /\ Books'
         /\ alloc[a] # 0 /\ alloc'[a] # 0
         /\ \A b \in Agents \ {a} : alloc'[b] = alloc[b]
<1> DEFINE extension == Least(pool, alloc[a] \div 2)
<1>1. alloc[a] \in Nat /\ pool \in Int  BY DEF Books, BooksTyped
<1>2. extension \in Int /\ extension > 0 /\ extension <= pool /\ alloc[a] # 0
  BY <1>1 DEF Extend, Least
<1>3. /\ pool' = pool - extension
      /\ alloc' = [alloc EXCEPT ![a] = @ + extension]
      /\ UNCHANGED <<task, ceiling, rolePool, used, spent, rung>>
  BY DEF Extend
<1> HIDE DEF extension
<1>4. BooksTyped'  BY <1>1, <1>2, <1>3 DEF Books, BooksTyped
<1>5. Explained'  BY <1>3 DEF Books, Explained, Effective
<1>6. alloc'[a] # 0 /\ \A b \in Agents \ {a} : alloc'[b] = alloc[b]
  BY <1>1, <1>2, <1>3 DEF Books, BooksTyped
<1> QED  BY <1>1, <1>2, <1>3, <1>4, <1>5, <1>6 DEF Books

LEMMA ReclaimBooks ==
  ASSUME Books, NEW a \in Agents, NEW cooled \in BOOLEAN, Reclaim(a, cooled)
  PROVE  Books' /\ Order[rung'] >= Order[rung]
<1>1. spent \in Nat /\ alloc[a] \in Nat /\ used[a] \in Nat /\ pool \in Int  BY
    DEF Books, BooksTyped
<1>2. /\ rung' \in Rungs /\ Order[rung'] >= Order[rung]
      /\ 100 * spent >= Threshold[rung'] * Effective
  BY <1>1, LadderClimbs DEF Reclaim
<1>3. pool' \in Int /\ pool' >= pool  BY <1>1 DEF Reclaim, Positive
<1>4. BooksTyped'  BY <1>2, <1>3 DEF Reclaim, Books, BooksTyped
<1>5. Explained'  BY <1>2 DEF Reclaim, Explained, Effective
<1> QED  BY <1>1, <1>2, <1>3, <1>4, <1>5 DEF Books, Reclaim

LEMMA UsageBooks ==
  ASSUME Books, NEW a \in Agents, NEW n \in Nat, NEW cooled \in BOOLEAN, RecordUsage(a, n, cooled)
  PROVE  Books' /\ Order[rung'] >= Order[rung]
<1>1. spent \in Nat /\ used[a] \in Nat /\ spent + n >= spent /\ spent + n \in Nat
  BY DEF Books, BooksTyped
<1>2. /\ rung' \in Rungs /\ Order[rung'] >= Order[rung]
      /\ 100 * (spent + n) >= Threshold[rung'] * Effective
  BY <1>1, LadderClimbs DEF RecordUsage
<1>3. BooksTyped'  BY <1>1, <1>2 DEF RecordUsage, Books, BooksTyped
<1>4. Explained'  BY <1>2 DEF RecordUsage, Explained, Effective
<1> QED  BY <1>2, <1>3, <1>4 DEF Books, RecordUsage
-----------------------------------------------------------------------------
(* The dispatchers. *)

Placed ==
  /\ todo \in [Dispatchers -> Seq(Packets)]
  /\ at \in [Dispatchers -> Places]
  /\ cur \in [Dispatchers -> Packets \cup {NoPacket}]
  /\ chosen = [d \in Dispatchers |-> chosen[d]] /\ \A d \in Dispatchers : chosen[d].role \in Roles
  /\ child \in [Runs -> Children]
  /\ reservedIn \in [Runs -> Nat] /\ \A a \in Runs : reservedIn[a] <= task
  /\ \A d \in Dispatchers : at[d] # "idle" => cur[d] \in Packets

\* A packet that is still to come has no run, nor has one before its launch.
Unborn ==
  \A d \in Dispatchers :
    /\ \A i, j \in DOMAIN todo[d] : todo[d][i] = todo[d][j] => i = j
    /\ \A i \in DOMAIN todo[d] : child[<<d, todo[d][i]>>] = "none" /\ todo[d][i] # cur[d]
    /\ at[d] \in {"gate", "reserve", "claim", "launch", "giveback"} => child[<<d, cur[d]>>] = "none"

\* A dispatcher that made a reservation in the open task still has it.
Held ==
  \A d \in Dispatchers :
    at[d] \in {"claim", "launch", "giveback"} /\ reservedIn[<<d, cur[d]>>] = task
      => alloc[<<d, cur[d]>>] # 0

\* ReservationMatchesRun, run by run.
Owned ==
  \A d \in Dispatchers, p \in Packets :
    alloc[<<d, p>>] # 0 =>
      \/ cur[d] = p /\ at[d] \in {"claim", "launch", "giveback", "crashed"}
      \/ child[<<d, p>>] \in {"live", "ended", "lost"}
Backed ==
  \A d \in Dispatchers, p \in Packets :
    child[<<d, p>>] \in {"live", "ended"} /\ reservedIn[<<d, p>>] = task => alloc[<<d, p>>] # 0

Accounts == Books /\ Placed /\ Unborn /\ Held /\ Owned /\ Backed

LEMMA OwnersKnown == ASSUME Owned, Backed PROVE ReservationMatchesRun
<1> SUFFICES ASSUME NEW d \in Dispatchers, NEW p \in Packets
             PROVE  LET a == <<d, p>> IN
                    /\ alloc[a] # 0 => InHand(a) \/ Running(a) \/ Crashed(a)
                    /\ Running(a) /\ reservedIn[a] = task => alloc[a] # 0
  BY DEF ReservationMatchesRun, Runs
<1> QED  BY DEF Owned, Backed, InHand, Running, Crashed

\* What decide() returns has a role of the budget.
LEMMA DecidedRoles == \A c \in Decisions : c.role \in Roles
BY DEF Decisions, RoleForRoute, Roles, OtherRoles

LEMMA TailOf ==
  ASSUME NEW s \in Seq(Packets), s # <<>>
  PROVE  /\ Tail(s) \in Seq(Packets) /\ Head(s) = s[1] /\ 1 \in DOMAIN s /\ s[1] \in Packets
         /\ \A i \in DOMAIN Tail(s) : i + 1 \in DOMAIN s /\ i + 1 # 1 /\ Tail(s)[i] = s[i + 1]
         /\ DOMAIN Tail(s) \subseteq Nat
OBVIOUS

LEMMA AccountsInit == ASSUME BudgetOK, DispatchOK PROVE Init => Accounts
<1> SUFFICES ASSUME Init PROVE Accounts  OBVIOUS
<1> USE DEF Init
<1>1. Threshold["NORMAL"] = 0 /\ "NORMAL" \in Rungs  BY DEF Threshold, Rungs
<1>2. Books  BY <1>1 DEF BudgetInit, Books, BooksTyped, Explained, Effective
<1>3. Undecided.role \in Roles  BY DEF Undecided, Roles, OtherRoles
<1>4. Placed  BY <1>3 DEF Placed, DispatchOK, BudgetInit, Places, Children
<1>5. Unborn
  <2> SUFFICES ASSUME NEW d \in Dispatchers, NEW i \in DOMAIN todo[d]
               PROVE  todo[d][i] \in Packets
    BY DEF Unborn, DispatchOK, Runs
  <2> QED  BY DEF DispatchOK
<1>6. Held /\ Owned /\ Backed  BY DEF Held, Owned, Backed, BudgetInit, DispatchOK, Runs
<1> QED  BY <1>2, <1>4, <1>5, <1>6 DEF Accounts

\* What leaves the books alone.
LEMMA BooksFrame == ASSUME Books, UNCHANGED budget PROVE Books'
BY DEF budget, Books, BooksTyped, Explained, Effective

LEMMA GateRefusesKeeps ==
  ASSUME DispatchOK, Accounts, NEW d \in Dispatchers, GateRefuses(d)
  PROVE  Accounts'
<1> USE DEF Accounts
<1>u. Undecided.role \in Roles  BY DEF Undecided, Roles, OtherRoles
<1>b. Books'  BY BooksFrame DEF budget, GateRefuses
<1>1. Placed'  BY <1>u
    DEF Placed, DispatchOK, GateRefuses, dispatcher, births, budget, Runs, Run, Go, Answer,
        Places, Children
<1>2. Unborn'  BY <1>u
    DEF Placed, Unborn, DispatchOK, GateRefuses, dispatcher, births, budget, Runs, Run, Go,
        Answer, Places, Children
<1>3. Held'  BY <1>u
    DEF Placed, Held, DispatchOK, GateRefuses, dispatcher, births, budget, Runs, Run, Go, Answer,
        Places, Children
<1>4. Owned'  BY <1>u
    DEF Placed, Owned, DispatchOK, GateRefuses, dispatcher, births, budget, Runs, Run, Go,
        Answer, Places, Children
<1>5. Backed'  BY <1>u
    DEF Placed, Backed, DispatchOK, GateRefuses, dispatcher, births, budget, Runs, Run, Go,
        Answer, Places, Children
<1> QED  BY <1>b, <1>1, <1>2, <1>3, <1>4, <1>5

LEMMA GatePassesKeeps ==
  ASSUME DispatchOK, Accounts, NEW d \in Dispatchers, GatePasses(d)
  PROVE  Accounts'
<1> USE DEF Accounts
<1>b. Books'  BY BooksFrame DEF budget, GatePasses
<1>1. Placed'  BY
    DEF Placed, DispatchOK, GatePasses, dispatcher, births, budget, Runs, Run, Go, Answer,
        Places, Children
<1>2. Unborn'  BY
    DEF Placed, Unborn, DispatchOK, GatePasses, dispatcher, births, budget, Runs, Run, Go,
        Answer, Places, Children
<1>3. Held'  BY
    DEF Placed, Held, DispatchOK, GatePasses, dispatcher, births, budget, Runs, Run, Go, Answer,
        Places, Children
<1>4. Owned'  BY
    DEF Placed, Owned, DispatchOK, GatePasses, dispatcher, births, budget, Runs, Run, Go, Answer,
        Places, Children
<1>5. Backed'  BY
    DEF Placed, Backed, DispatchOK, GatePasses, dispatcher, births, budget, Runs, Run, Go,
        Answer, Places, Children
<1> QED  BY <1>b, <1>1, <1>2, <1>3, <1>4, <1>5

LEMMA ReserveAbortsKeeps ==
  ASSUME DispatchOK, Accounts, NEW d \in Dispatchers, ReserveAborts(d)
  PROVE  Accounts'
<1> USE DEF Accounts
<1>b. Books'  BY BooksFrame DEF budget, ReserveAborts
<1>1. Placed'  BY
    DEF Placed, DispatchOK, ReserveAborts, dispatcher, births, budget, Runs, Run, Go, Answer,
        Places, Children
<1>2. Unborn'  BY
    DEF Placed, Unborn, DispatchOK, ReserveAborts, dispatcher, births, budget, Runs, Run, Go,
        Answer, Places, Children
<1>3. Held'  BY
    DEF Placed, Held, DispatchOK, ReserveAborts, dispatcher, births, budget, Runs, Run, Go,
        Answer, Places, Children
<1>4. Owned'  BY
    DEF Placed, Owned, DispatchOK, ReserveAborts, dispatcher, births, budget, Runs, Run, Go,
        Answer, Places, Children
<1>5. Backed'  BY
    DEF Placed, Backed, DispatchOK, ReserveAborts, dispatcher, births, budget, Runs, Run, Go,
        Answer, Places, Children
<1> QED  BY <1>b, <1>1, <1>2, <1>3, <1>4, <1>5

LEMMA ThrottledKeeps ==
  ASSUME DispatchOK, Accounts, NEW d \in Dispatchers, Throttled(d)
  PROVE  Accounts'
<1> USE DEF Accounts
<1>b. Books'  BY BooksFrame DEF budget, Throttled
<1>1. Placed'  BY
    DEF Placed, DispatchOK, Throttled, dispatcher, births, budget, Runs, Run, Go, Answer, Places,
        Children
<1>2. Unborn'  BY
    DEF Placed, Unborn, DispatchOK, Throttled, dispatcher, births, budget, Runs, Run, Go, Answer,
        Places, Children
<1>3. Held'  BY
    DEF Placed, Held, DispatchOK, Throttled, dispatcher, births, budget, Runs, Run, Go, Answer,
        Places, Children
<1>4. Owned'  BY
    DEF Placed, Owned, DispatchOK, Throttled, dispatcher, births, budget, Runs, Run, Go, Answer,
        Places, Children
<1>5. Backed'  BY
    DEF Placed, Backed, DispatchOK, Throttled, dispatcher, births, budget, Runs, Run, Go, Answer,
        Places, Children
<1> QED  BY <1>b, <1>1, <1>2, <1>3, <1>4, <1>5

LEMMA ClaimRefusedKeeps ==
  ASSUME DispatchOK, Accounts, NEW d \in Dispatchers, ClaimRefused(d)
  PROVE  Accounts'
<1> USE DEF Accounts
<1>b. Books'  BY BooksFrame DEF budget, ClaimRefused
<1>1. Placed'  BY
    DEF Placed, DispatchOK, ClaimRefused, dispatcher, births, budget, Runs, Run, Go, Answer,
        Places, Children
<1>2. Unborn'  BY
    DEF Placed, Unborn, DispatchOK, ClaimRefused, dispatcher, births, budget, Runs, Run, Go,
        Answer, Places, Children
<1>3. Held'  BY
    DEF Placed, Held, DispatchOK, ClaimRefused, dispatcher, births, budget, Runs, Run, Go,
        Answer, Places, Children
<1>4. Owned'  BY
    DEF Placed, Owned, DispatchOK, ClaimRefused, dispatcher, births, budget, Runs, Run, Go,
        Answer, Places, Children
<1>5. Backed'  BY
    DEF Placed, Backed, DispatchOK, ClaimRefused, dispatcher, births, budget, Runs, Run, Go,
        Answer, Places, Children
<1> QED  BY <1>b, <1>1, <1>2, <1>3, <1>4, <1>5

LEMMA TakeClaimKeeps ==
  ASSUME DispatchOK, Accounts, NEW d \in Dispatchers, TakeClaim(d)
  PROVE  Accounts'
<1> USE DEF Accounts
<1>b. Books'  BY BooksFrame DEF budget, TakeClaim
<1>1. Placed'  BY
    DEF Placed, DispatchOK, TakeClaim, dispatcher, births, budget, Runs, Run, Go, Answer, Places,
        Children
<1>2. Unborn'  BY
    DEF Placed, Unborn, DispatchOK, TakeClaim, dispatcher, births, budget, Runs, Run, Go, Answer,
        Places, Children
<1>3. Held'  BY
    DEF Placed, Held, DispatchOK, TakeClaim, dispatcher, births, budget, Runs, Run, Go, Answer,
        Places, Children
<1>4. Owned'  BY
    DEF Placed, Owned, DispatchOK, TakeClaim, dispatcher, births, budget, Runs, Run, Go, Answer,
        Places, Children
<1>5. Backed'  BY
    DEF Placed, Backed, DispatchOK, TakeClaim, dispatcher, births, budget, Runs, Run, Go, Answer,
        Places, Children
<1> QED  BY <1>b, <1>1, <1>2, <1>3, <1>4, <1>5

LEMMA BirthFailsKeeps ==
  ASSUME DispatchOK, Accounts, NEW d \in Dispatchers, BirthFails(d)
  PROVE  Accounts'
<1> USE DEF Accounts
<1>b. Books'  BY BooksFrame DEF budget, BirthFails
<1>1. Placed'  BY
    DEF Placed, DispatchOK, BirthFails, dispatcher, births, budget, Runs, Run, Go, Answer,
        Places, Children
<1>2. Unborn'  BY
    DEF Placed, Unborn, DispatchOK, BirthFails, dispatcher, births, budget, Runs, Run, Go,
        Answer, Places, Children
<1>3. Held'  BY
    DEF Placed, Held, DispatchOK, BirthFails, dispatcher, births, budget, Runs, Run, Go, Answer,
        Places, Children
<1>4. Owned'  BY
    DEF Placed, Owned, DispatchOK, BirthFails, dispatcher, births, budget, Runs, Run, Go, Answer,
        Places, Children
<1>5. Backed'  BY
    DEF Placed, Backed, DispatchOK, BirthFails, dispatcher, births, budget, Runs, Run, Go,
        Answer, Places, Children
<1> QED  BY <1>b, <1>1, <1>2, <1>3, <1>4, <1>5

LEMMA LaunchFailsKeeps ==
  ASSUME DispatchOK, Accounts, NEW d \in Dispatchers, LaunchFails(d)
  PROVE  Accounts'
<1> USE DEF Accounts
<1>b. Books'  BY BooksFrame DEF budget, LaunchFails
<1>1. Placed'  BY
    DEF Placed, DispatchOK, LaunchFails, dispatcher, births, budget, Runs, Run, Go, Answer,
        Places, Children
<1>2. Unborn'  BY
    DEF Placed, Unborn, DispatchOK, LaunchFails, dispatcher, births, budget, Runs, Run, Go,
        Answer, Places, Children
<1>3. Held'  BY
    DEF Placed, Held, DispatchOK, LaunchFails, dispatcher, births, budget, Runs, Run, Go, Answer,
        Places, Children
<1>4. Owned'  BY
    DEF Placed, Owned, DispatchOK, LaunchFails, dispatcher, births, budget, Runs, Run, Go,
        Answer, Places, Children
<1>5. Backed'  BY
    DEF Placed, Backed, DispatchOK, LaunchFails, dispatcher, births, budget, Runs, Run, Go,
        Answer, Places, Children
<1> QED  BY <1>b, <1>1, <1>2, <1>3, <1>4, <1>5

LEMMA DispatcherDiesKeeps ==
  ASSUME DispatchOK, Accounts, NEW d \in Dispatchers, DispatcherDies(d)
  PROVE  Accounts'
<1> USE DEF Accounts
<1>b. Books'  BY BooksFrame DEF budget, DispatcherDies
<1>1. Placed'  BY
    DEF Placed, DispatchOK, DispatcherDies, dispatcher, births, budget, Runs, Run, Go, Answer,
        Places, Children
<1>2. Unborn'  BY
    DEF Placed, Unborn, DispatchOK, DispatcherDies, dispatcher, births, budget, Runs, Run, Go,
        Answer, Places, Children
<1>3. Held'  BY
    DEF Placed, Held, DispatchOK, DispatcherDies, dispatcher, births, budget, Runs, Run, Go,
        Answer, Places, Children
<1>4. Owned'  BY
    DEF Placed, Owned, DispatchOK, DispatcherDies, dispatcher, births, budget, Runs, Run, Go,
        Answer, Places, Children
<1>5. Backed'  BY
    DEF Placed, Backed, DispatchOK, DispatcherDies, dispatcher, births, budget, Runs, Run, Go,
        Answer, Places, Children
<1> QED  BY <1>b, <1>1, <1>2, <1>3, <1>4, <1>5

\* A run is born with its reservation.
LEMMA LaunchKeeps ==
  ASSUME DispatchOK, Accounts, NEW d \in Dispatchers, Launch(d)
  PROVE  Accounts'
<1> USE DEF Accounts
<1>b. Books'  BY BooksFrame DEF budget, Launch
<1>1. Placed'  BY
    DEF Placed, DispatchOK, Launch, dispatcher, births, budget, Runs, Run, Go, Answer, Places,
        Children
<1>2. Unborn'  BY
    DEF Placed, Unborn, DispatchOK, Launch, dispatcher, births, budget, Runs, Run, Go, Answer,
        Places, Children
<1>3. Held'  BY
    DEF Placed, Held, DispatchOK, Launch, dispatcher, births, budget, Runs, Run, Go, Answer,
        Places, Children
<1>4. Owned'  BY
    DEF Placed, Owned, DispatchOK, Launch, dispatcher, births, budget, Runs, Run, Go, Answer,
        Places, Children
<1>5. Backed'  BY
    DEF Placed, Backed, Held, DispatchOK, Launch, dispatcher, births, budget, Runs, Run, Go,
        Answer, Places, Children
<1> QED  BY <1>b, <1>1, <1>2, <1>3, <1>4, <1>5

LEMMA AccountKeeps ==
  ASSUME DispatchOK, Accounts, NEW d \in Dispatchers, Account(d)
  PROVE  Accounts'
<1> USE DEF Accounts
<1>u. Undecided.role \in Roles  BY DEF Undecided, Roles, OtherRoles
<1>b. Books'  BY BooksFrame DEF budget, Account
<1>1. Placed'  BY <1>u
    DEF Placed, DispatchOK, Account, dispatcher, births, budget, Runs, Run, Go, Answer, Places,
        Children
<1>2. Unborn'  BY <1>u
    DEF Placed, Unborn, DispatchOK, Account, dispatcher, births, budget, Runs, Run, Go, Answer,
        Places, Children
<1>3. Held'  BY <1>u
    DEF Placed, Held, DispatchOK, Account, dispatcher, births, budget, Runs, Run, Go, Answer,
        Places, Children
<1>4. Owned'  BY <1>u
    DEF Placed, Owned, DispatchOK, Account, dispatcher, births, budget, Runs, Run, Go, Answer,
        Places, Children
<1>5. Backed'  BY <1>u
    DEF Placed, Backed, DispatchOK, Account, dispatcher, births, budget, Runs, Run, Go, Answer,
        Places, Children
<1> QED  BY <1>b, <1>1, <1>2, <1>3, <1>4, <1>5

\* A packet that is only answered leaves the wave.
LEMMA DecideAnswersKeeps ==
  ASSUME DispatchOK, Accounts, NEW d \in Dispatchers, DecideAnswers(d)
  PROVE  Accounts'
<1> USE DEF Accounts
<1>t. todo[d] \in Seq(Packets) /\ todo[d] # <<>>  BY DEF Take, DecideAnswers, DecideSpawn, Placed
<1>s. /\ Tail(todo[d]) \in Seq(Packets) /\ Head(todo[d]) = todo[d][1] /\ 1 \in DOMAIN todo[d]
      /\ todo[d][1] \in Packets
      /\ \A i \in DOMAIN Tail(todo[d]) :
           i + 1 \in DOMAIN todo[d] /\ i + 1 # 1 /\ Tail(todo[d])[i] = todo[d][i + 1]
      /\ DOMAIN Tail(todo[d]) \subseteq Nat
  BY <1>t, TailOf
<1>b. Books'  BY BooksFrame DEF budget, DecideAnswers, Take
<1>1. Placed'  BY <1>s
    DEF Placed, DispatchOK, DecideAnswers, Take, dispatcher, births, budget, Runs, Run, Go,
        Answer, Places, Children
<1>2. Unborn'  BY <1>s
    DEF Placed, Unborn, DispatchOK, DecideAnswers, Take, dispatcher, births, budget, Runs, Run,
        Go, Answer, Places, Children
<1>3. Held'  BY <1>s
    DEF Placed, Held, DispatchOK, DecideAnswers, Take, dispatcher, births, budget, Runs, Run, Go,
        Answer, Places, Children
<1>4. Owned'  BY <1>s
    DEF Placed, Owned, DispatchOK, DecideAnswers, Take, dispatcher, births, budget, Runs, Run,
        Go, Answer, Places, Children
<1>5. Backed'  BY <1>s
    DEF Placed, Backed, DispatchOK, DecideAnswers, Take, dispatcher, births, budget, Runs, Run,
        Go, Answer, Places, Children
<1> QED  BY <1>b, <1>1, <1>2, <1>3, <1>4, <1>5

\* The next packet of the wave has no run yet.
LEMMA DecideSpawnKeeps ==
  ASSUME DispatchOK, Accounts, NEW d \in Dispatchers, DecideSpawn(d)
  PROVE  Accounts'
<1> USE DEF Accounts
<1>t. todo[d] \in Seq(Packets) /\ todo[d] # <<>>  BY DEF Take, DecideAnswers, DecideSpawn, Placed
<1>s. /\ Tail(todo[d]) \in Seq(Packets) /\ Head(todo[d]) = todo[d][1] /\ 1 \in DOMAIN todo[d]
      /\ todo[d][1] \in Packets
      /\ \A i \in DOMAIN Tail(todo[d]) :
           i + 1 \in DOMAIN todo[d] /\ i + 1 # 1 /\ Tail(todo[d])[i] = todo[d][i + 1]
      /\ DOMAIN Tail(todo[d]) \subseteq Nat
  BY <1>t, TailOf
<1>b. Books'  BY BooksFrame DEF budget, DecideSpawn, Take
<1>1. Placed'
  <2>1. PICK c \in Decisions : chosen' = [chosen EXCEPT ![d] = [role |-> c.role, route |-> c.route]]
    BY DEF DecideSpawn
  <2>2. [role |-> c.role, route |-> c.route].role \in Roles  BY DecidedRoles
  <2>3. /\ chosen' = [e \in Dispatchers |-> chosen'[e]]
        /\ \A e \in Dispatchers : chosen'[e].role \in Roles
    <3> DEFINE new == [role |-> c.role, route |-> c.route]
    <3>1. chosen' = [chosen EXCEPT ![d] = new] /\ new.role \in Roles  BY <2>1, <2>2
    <3> HIDE DEF new
    <3> QED  BY <3>1 DEF Placed
  <2>4. todo' = [todo EXCEPT ![d] = Tail(@)] /\ cur' = [cur EXCEPT ![d] = Head(todo[d])]
        /\ at' = [at EXCEPT ![d] = "gate"] /\ UNCHANGED <<child, reservedIn, task>>
    BY DEF DecideSpawn, Take, Go, births, budget
  <2> QED  BY <1>s, <2>3, <2>4 DEF Placed, Places
<1>2. Unborn'  BY <1>s, DecidedRoles
    DEF Placed, Unborn, DispatchOK, DecideSpawn, Take, dispatcher, births, budget, Runs, Run, Go,
        Answer, Places, Children
<1>3. Held'  BY <1>s, DecidedRoles
    DEF Placed, Held, DispatchOK, DecideSpawn, Take, dispatcher, births, budget, Runs, Run, Go,
        Answer, Places, Children
<1>4. Owned'  BY <1>s, DecidedRoles
    DEF Placed, Owned, DispatchOK, DecideSpawn, Take, dispatcher, births, budget, Runs, Run, Go,
        Answer, Places, Children
<1>5. Backed'  BY <1>s, DecidedRoles
    DEF Placed, Backed, DispatchOK, DecideSpawn, Take, dispatcher, births, budget, Runs, Run, Go,
        Answer, Places, Children
<1> QED  BY <1>b, <1>1, <1>2, <1>3, <1>4, <1>5

\* A reservation comes into the hand of its dispatcher.
LEMMA ReserveKeeps ==
  ASSUME BudgetOK, DispatchOK, Accounts, NEW d \in Dispatchers, Reserve(d)
  PROVE  Accounts'
<1> USE DEF Accounts
<1>r. /\ <<d, cur[d]>> \in Agents /\ <<d, cur[d]>> \in Runs /\ chosen[d].role \in Roles
      /\ cur[d] \in Packets
  BY DEF Placed, Reserve, GiveBack, DispatchOK, Runs
<1>g. Books' /\ Grant(chosen[d].role) \in Nat /\ Grant(chosen[d].role) > 0
  BY <1>r, RegisterBooks DEF Reserve, Run
<1>h. alloc' = [alloc EXCEPT ![<<d, cur[d]>>] = Grant(chosen[d].role)] /\ task' = task
  BY DEF Reserve, Register, Run
<1>i. alloc \in [Agents -> Nat] /\ task \in Nat  BY DEF Books, BooksTyped
<1>b. Books'  BY <1>g
<1>1. Placed'  BY <1>r, <1>g, <1>h, <1>i
    DEF Placed, DispatchOK, Reserve, dispatcher, births, budget, Runs, Run, Go, Answer, Places,
        Children
<1>2. Unborn'
  <2>1. /\ todo' = todo /\ cur' = cur /\ child' = child /\ at[d] = "reserve"
        /\ \A e \in Dispatchers : at'[e] = IF e = d THEN "claim" ELSE at[e]
    BY DEF Reserve, Go, Placed
  <2>2. Unborn  OBVIOUS
  <2>3. ASSUME NEW e \in Dispatchers, at'[e] \in {"gate", "reserve", "claim", "launch", "giveback"}
        PROVE  at[e] \in {"gate", "reserve", "claim", "launch", "giveback"}
    BY <2>1, <2>3
  <2> SUFFICES ASSUME NEW e \in Dispatchers
               PROVE  /\ \A i, j \in DOMAIN todo'[e] : todo'[e][i] = todo'[e][j] => i = j
                      /\ \A i \in DOMAIN todo'[e] : child'[<<e, todo'[e][i]>>] = "none"
                                                  /\ todo'[e][i] # cur'[e]
                      /\ at'[e] \in {"gate", "reserve", "claim", "launch", "giveback"}
                           => child'[<<e, cur'[e]>>] = "none"
    BY Zenon DEF Unborn
  <2>4. /\ \A i, j \in DOMAIN todo[e] : todo[e][i] = todo[e][j] => i = j
        /\ \A i \in DOMAIN todo[e] : child[<<e, todo[e][i]>>] = "none" /\ todo[e][i] # cur[e]
        /\ at[e] \in {"gate", "reserve", "claim", "launch", "giveback"} => child[<<e, cur[e]>>] = "none"
    BY <2>2, Zenon DEF Unborn
  <2> QED  BY <2>1, <2>3, <2>4
<1>3. Held'  BY <1>r, <1>g, <1>h, <1>i
    DEF Placed, Held, DispatchOK, Reserve, dispatcher, births, budget, Runs, Run, Go, Answer,
        Places, Children
<1>4. Owned'  BY <1>r, <1>g, <1>h, <1>i
    DEF Placed, Owned, DispatchOK, Reserve, dispatcher, births, budget, Runs, Run, Go, Answer,
        Places, Children
<1>5. Backed'  BY <1>r, <1>g, <1>h, <1>i
    DEF Placed, Backed, DispatchOK, Reserve, dispatcher, births, budget, Runs, Run, Go, Answer,
        Places, Children
<1> QED  BY <1>b, <1>1, <1>2, <1>3, <1>4, <1>5

\* What a dispatcher has in hand it gives back before it answers.
LEMMA GiveBackKeeps ==
  ASSUME DispatchOK, Accounts, NEW d \in Dispatchers, NEW cooled \in BOOLEAN, GiveBack(d, cooled)
  PROVE  Accounts'
<1> USE DEF Accounts
<1>u. Undecided.role \in Roles  BY DEF Undecided, Roles, OtherRoles
<1>r. /\ <<d, cur[d]>> \in Agents /\ <<d, cur[d]>> \in Runs /\ chosen[d].role \in Roles
      /\ cur[d] \in Packets
  BY DEF Placed, Reserve, GiveBack, DispatchOK, Runs
<1>g. Books'  BY <1>r, ReclaimBooks DEF GiveBack, Run
<1>h. alloc' = [alloc EXCEPT ![<<d, cur[d]>>] = 0] /\ task' = task  BY DEF GiveBack, Reclaim, Run
<1>i. alloc \in [Agents -> Nat] /\ task \in Nat  BY DEF Books, BooksTyped
<1>b. Books'  BY <1>g
<1>1. Placed'  BY <1>u, <1>r, <1>h, <1>i
    DEF Placed, DispatchOK, GiveBack, dispatcher, births, budget, Runs, Run, Go, Answer, Places,
        Children
<1>2. Unborn'  BY <1>u, <1>r, <1>h, <1>i
    DEF Placed, Unborn, DispatchOK, GiveBack, dispatcher, births, budget, Runs, Run, Go, Answer,
        Places, Children
<1>3. Held'  BY <1>u, <1>r, <1>h, <1>i
    DEF Placed, Held, DispatchOK, GiveBack, dispatcher, births, budget, Runs, Run, Go, Answer,
        Places, Children
<1>4. Owned'  BY <1>u, <1>r, <1>h, <1>i
    DEF Placed, Owned, DispatchOK, GiveBack, dispatcher, births, budget, Runs, Run, Go, Answer,
        Places, Children
<1>5. Backed'  BY <1>u, <1>r, <1>h, <1>i
    DEF Placed, Backed, Unborn, DispatchOK, GiveBack, dispatcher, births, budget, Runs, Run, Go,
        Answer, Places, Children
<1> QED  BY <1>b, <1>1, <1>2, <1>3, <1>4, <1>5

LEMMA ChildEndsKeeps ==
  ASSUME DispatchOK, Accounts, NEW a \in Runs, ChildEnds(a)
  PROVE  Accounts'
<1> USE DEF Accounts
<1>b. Books'  BY BooksFrame DEF budget, ChildEnds
<1>1. Placed'  BY
    DEF Placed, DispatchOK, ChildEnds, dispatcher, births, budget, Runs, Run, Go, Answer, Places,
        Children
<1>2. Unborn'  BY
    DEF Placed, Unborn, DispatchOK, ChildEnds, dispatcher, births, budget, Runs, Run, Go, Answer,
        Places, Children
<1>3. Held'  BY
    DEF Placed, Held, DispatchOK, ChildEnds, dispatcher, births, budget, Runs, Run, Go, Answer,
        Places, Children
<1>4. Owned'  BY
    DEF Placed, Owned, DispatchOK, ChildEnds, dispatcher, births, budget, Runs, Run, Go, Answer,
        Places, Children
<1>5. Backed'  BY
    DEF Placed, Backed, DispatchOK, ChildEnds, dispatcher, births, budget, Runs, Run, Go, Answer,
        Places, Children
<1> QED  BY <1>b, <1>1, <1>2, <1>3, <1>4, <1>5

LEMMA SupervisorDiesKeeps ==
  ASSUME DispatchOK, Accounts, NEW a \in Runs, SupervisorDies(a)
  PROVE  Accounts'
<1> USE DEF Accounts
<1>b. Books'  BY BooksFrame DEF budget, SupervisorDies
<1>1. Placed'  BY
    DEF Placed, DispatchOK, SupervisorDies, dispatcher, births, budget, Runs, Run, Go, Answer,
        Places, Children
<1>2. Unborn'  BY
    DEF Placed, Unborn, DispatchOK, SupervisorDies, dispatcher, births, budget, Runs, Run, Go,
        Answer, Places, Children
<1>3. Held'  BY
    DEF Placed, Held, DispatchOK, SupervisorDies, dispatcher, births, budget, Runs, Run, Go,
        Answer, Places, Children
<1>4. Owned'  BY
    DEF Placed, Owned, DispatchOK, SupervisorDies, dispatcher, births, budget, Runs, Run, Go,
        Answer, Places, Children
<1>5. Backed'  BY
    DEF Placed, Backed, DispatchOK, SupervisorDies, dispatcher, births, budget, Runs, Run, Go,
        Answer, Places, Children
<1> QED  BY <1>b, <1>1, <1>2, <1>3, <1>4, <1>5

\* A supervisor gives back what its run holds; no dispatcher has that run in hand.
LEMMA ChildReclaimsKeeps ==
  ASSUME DispatchOK, Accounts, NEW a \in Runs, NEW cooled \in BOOLEAN, ChildReclaims(a, cooled)
  PROVE  Accounts'
<1> USE DEF Accounts
<1>g. Books' /\ a \in Agents  BY ReclaimBooks DEF ChildReclaims, DispatchOK
<1>h. alloc' = [alloc EXCEPT ![a] = 0] /\ task' = task  BY DEF ChildReclaims, Reclaim
<1>i. alloc \in [Agents -> Nat] /\ task \in Nat  BY DEF Books, BooksTyped
<1>b. Books'  BY <1>g
<1>1. Placed'  BY <1>g, <1>h, <1>i
    DEF Placed, DispatchOK, ChildReclaims, dispatcher, births, budget, Runs, Run, Go, Answer,
        Places, Children
<1>2. Unborn'  BY <1>g, <1>h, <1>i
    DEF Placed, Unborn, DispatchOK, ChildReclaims, dispatcher, births, budget, Runs, Run, Go,
        Answer, Places, Children
<1>3. Held'  BY <1>g, <1>h, <1>i
    DEF Placed, Held, Unborn, DispatchOK, ChildReclaims, dispatcher, births, budget, Runs, Run,
        Go, Answer, Places, Children
<1>4. Owned'  BY <1>g, <1>h, <1>i
    DEF Placed, Owned, DispatchOK, ChildReclaims, dispatcher, births, budget, Runs, Run, Go,
        Answer, Places, Children
<1>5. Backed'  BY <1>g, <1>h, <1>i
    DEF Placed, Backed, DispatchOK, ChildReclaims, dispatcher, births, budget, Runs, Run, Go,
        Answer, Places, Children
<1> QED  BY <1>b, <1>1, <1>2, <1>3, <1>4, <1>5

LEMMA BackoffExpiresKeeps ==
  ASSUME DispatchOK, Accounts, BackoffExpires
  PROVE  Accounts'
<1> USE DEF Accounts
<1>b. Books'  BY BooksFrame DEF budget, BackoffExpires
<1>1. Placed'  BY
    DEF Placed, DispatchOK, BackoffExpires, dispatcher, births, budget, Runs, Run, Go, Answer,
        Places, Children
<1>2. Unborn'  BY
    DEF Placed, Unborn, DispatchOK, BackoffExpires, dispatcher, births, budget, Runs, Run, Go,
        Answer, Places, Children
<1>3. Held'  BY
    DEF Placed, Held, DispatchOK, BackoffExpires, dispatcher, births, budget, Runs, Run, Go,
        Answer, Places, Children
<1>4. Owned'  BY
    DEF Placed, Owned, DispatchOK, BackoffExpires, dispatcher, births, budget, Runs, Run, Go,
        Answer, Places, Children
<1>5. Backed'  BY
    DEF Placed, Backed, DispatchOK, BackoffExpires, dispatcher, births, budget, Runs, Run, Go,
        Answer, Places, Children
<1> QED  BY <1>b, <1>1, <1>2, <1>3, <1>4, <1>5

\* A new task forgets every reservation, and the old runs are of an older task.
LEMMA OperatorOpensKeeps ==
  ASSUME BudgetOK, DispatchOK, Accounts, OperatorOpens
  PROVE  Accounts'
<1> USE DEF Accounts
<1>g. Books'  BY OpenBooks DEF OperatorOpens
<1>h. alloc' = [a \in Agents |-> 0] /\ task' = task + 1  BY DEF OperatorOpens, OpenTask
<1>i. alloc \in [Agents -> Nat] /\ task \in Nat  BY DEF Books, BooksTyped
<1>b. Books'  BY <1>g
<1>1. Placed'  BY <1>h, <1>i
    DEF Placed, DispatchOK, OperatorOpens, dispatcher, births, budget, Runs, Run, Go, Answer,
        Places, Children
<1>2. Unborn'  BY <1>h, <1>i
    DEF Placed, Unborn, DispatchOK, OperatorOpens, dispatcher, births, budget, Runs, Run, Go,
        Answer, Places, Children
<1>3. Held'  BY <1>h, <1>i
    DEF Placed, Held, DispatchOK, OperatorOpens, dispatcher, births, budget, Runs, Run, Go,
        Answer, Places, Children
<1>4. Owned'  BY <1>h, <1>i
    DEF Placed, Owned, DispatchOK, OperatorOpens, dispatcher, births, budget, Runs, Run, Go,
        Answer, Places, Children
<1>5. Backed'  BY <1>h, <1>i
    DEF Placed, Backed, DispatchOK, OperatorOpens, dispatcher, births, budget, Runs, Run, Go,
        Answer, Places, Children
<1> QED  BY <1>b, <1>1, <1>2, <1>3, <1>4, <1>5

LEMMA MeterRecordsKeeps ==
  ASSUME BudgetOK, DispatchOK, Accounts, MeterRecords
  PROVE  Accounts'
<1> USE DEF Accounts
<1>g. Books'  BY UsageBooks DEF MeterRecords, BudgetOK
<1>h. alloc' = alloc /\ task' = task  BY DEF MeterRecords, RecordUsage
<1>b. Books'  BY <1>g
<1>1. Placed'  BY <1>h
    DEF Placed, DispatchOK, MeterRecords, dispatcher, births, budget, Runs, Run, Go, Answer,
        Places, Children
<1>2. Unborn'  BY <1>h
    DEF Placed, Unborn, DispatchOK, MeterRecords, dispatcher, births, budget, Runs, Run, Go,
        Answer, Places, Children
<1>3. Held'  BY <1>h
    DEF Placed, Held, DispatchOK, MeterRecords, dispatcher, births, budget, Runs, Run, Go,
        Answer, Places, Children
<1>4. Owned'  BY <1>h
    DEF Placed, Owned, DispatchOK, MeterRecords, dispatcher, births, budget, Runs, Run, Go,
        Answer, Places, Children
<1>5. Backed'  BY <1>h
    DEF Placed, Backed, DispatchOK, MeterRecords, dispatcher, births, budget, Runs, Run, Go,
        Answer, Places, Children
<1> QED  BY <1>b, <1>1, <1>2, <1>3, <1>4, <1>5

\* Only a run that holds something is given more.
LEMMA TrackerExtendsKeeps ==
  ASSUME DispatchOK, Accounts, TrackerExtends
  PROVE  Accounts'
<1> USE DEF Accounts
<1>g. PICK a \in Agents : Extend(a)  BY DEF TrackerExtends
<1>h. /\ Books' /\ alloc[a] # 0 /\ alloc'[a] # 0 /\ \A b \in Agents \ {a} : alloc'[b] = alloc[b]
      /\ task' = task
  BY <1>g, ExtendBooks DEF Extend
<1>i. \A b \in Agents : (alloc'[b] # 0) <=> (alloc[b] # 0)  BY <1>h
<1>k. Runs \subseteq Agents  BY DEF DispatchOK
<1>b. Books'  BY <1>h
<1>1. Placed'  BY <1>h, <1>i, <1>k
    DEF Placed, DispatchOK, TrackerExtends, dispatcher, births, budget, Runs, Run, Go, Answer,
        Places, Children
<1>2. Unborn'  BY <1>h, <1>i, <1>k
    DEF Placed, Unborn, DispatchOK, TrackerExtends, dispatcher, births, budget, Runs, Run, Go,
        Answer, Places, Children
<1>3. Held'  BY <1>h, <1>i, <1>k
    DEF Placed, Held, DispatchOK, TrackerExtends, dispatcher, births, budget, Runs, Run, Go,
        Answer, Places, Children
<1>4. Owned'  BY <1>h, <1>i, <1>k
    DEF Placed, Owned, DispatchOK, TrackerExtends, dispatcher, births, budget, Runs, Run, Go,
        Answer, Places, Children
<1>5. Backed'  BY <1>h, <1>i, <1>k
    DEF Placed, Backed, DispatchOK, TrackerExtends, dispatcher, births, budget, Runs, Run, Go,
        Answer, Places, Children
<1> QED  BY <1>b, <1>1, <1>2, <1>3, <1>4, <1>5

LEMMA AccountsStep ==
  ASSUME BudgetOK, DispatchOK, Accounts, [Next]_vars
  PROVE  Accounts'
<1>1. ASSUME NEW d \in Dispatchers, DispatcherStep(d) \/ DispatcherDies(d) PROVE Accounts'
  BY <1>1, DecideAnswersKeeps, DecideSpawnKeeps, GateRefusesKeeps, GatePassesKeeps, ReserveKeeps,
     ReserveAbortsKeeps, ThrottledKeeps, ClaimRefusedKeeps, TakeClaimKeeps, BirthFailsKeeps,
     LaunchFailsKeeps, LaunchKeeps, GiveBackKeeps, AccountKeeps, DispatcherDiesKeeps
     DEF DispatcherStep
<1>2. ASSUME NEW a \in Runs, SupervisorStep(a) \/ SupervisorDies(a) PROVE Accounts'
  BY <1>2, ChildEndsKeeps, ChildReclaimsKeeps, SupervisorDiesKeeps DEF SupervisorStep
<1>3. ASSUME UNCHANGED vars PROVE Accounts'
  <2>1. Books'  BY <1>3, BooksFrame DEF vars, Accounts
  <2>2. UNCHANGED <<todo, at, cur, chosen, child, reservedIn, alloc, task>>
    BY <1>3 DEF vars, dispatcher, births, budget
  <2>3. Placed' /\ Unborn' /\ Held' /\ Owned' /\ Backed'
    BY <2>2 DEF Accounts, Placed, Unborn, Held, Owned, Backed
  <2> QED  BY <2>1, <2>3 DEF Accounts
<1> QED  BY <1>1, <1>2, <1>3, BackoffExpiresKeeps, OperatorOpensKeeps, MeterRecordsKeeps,
         TrackerExtendsKeeps DEF Next

\* The books and the owners of what is reserved, for any cost model, waves and deaths.
THEOREM AccountsSound == Spec => []Accounts
<1>1. BudgetOK /\ DispatchOK  BY BudgetOK, DispatchOK
<1> QED  BY <1>1, AccountsInit, AccountsStep, PTL DEF Spec

\* A run holds budget exactly while somebody will give it back.
THEOREM ReservationsOwned == Spec => []ReservationMatchesRun
<1>1. Accounts => ReservationMatchesRun  BY OwnersKnown DEF Accounts
<1> QED  BY <1>1, AccountsSound, PTL

\* register_agent() and extend_or_wrap_up() grant only what a pool holds.
THEOREM PoolsNotOverdrawn == Spec => []NoOverdraft
<1>1. Accounts => NoOverdraft  BY DEF Accounts, Books, BooksTyped, NoOverdraft
<1> QED  BY <1>1, AccountsSound, PTL

\* _recompute_state() does not step down within a task.
LEMMA RungStep ==
  ASSUME BudgetOK, DispatchOK, Accounts, [Next]_vars
  PROVE  task' = task => Order[rung'] >= Order[rung]
<1>0. rung \in Rungs /\ task \in Nat /\ Books  BY DEF Accounts, Books, BooksTyped
<1>1. Order[rung] \in Int  BY <1>0 DEF Order, Rungs
<1>2. ASSUME UNCHANGED rung PROVE Order[rung'] >= Order[rung]  BY <1>1, <1>2
<1>3. ASSUME NEW d \in Dispatchers, NEW cooled \in BOOLEAN, GiveBack(d, cooled)
      PROVE  Order[rung'] >= Order[rung]
  <2>1. Run(d) \in Agents  BY <1>3 DEF GiveBack, Accounts, Placed, DispatchOK, Runs, Run
  <2> QED  BY <1>0, <1>3, <2>1, ReclaimBooks DEF GiveBack
<1>4. ASSUME NEW a \in Runs, NEW cooled \in BOOLEAN, ChildReclaims(a, cooled)
      PROVE  Order[rung'] >= Order[rung]
  BY <1>0, <1>4, ReclaimBooks DEF ChildReclaims, DispatchOK
<1>5. ASSUME MeterRecords PROVE Order[rung'] >= Order[rung]
  BY <1>0, <1>5, UsageBooks DEF MeterRecords, BudgetOK
<1>6. ASSUME OperatorOpens PROVE task' # task
  BY <1>0, <1>6 DEF OperatorOpens, OpenTask
<1>7. ASSUME NEW d \in Dispatchers, Reserve(d) PROVE UNCHANGED rung
  BY <1>7 DEF Reserve, Register
<1>8. ASSUME TrackerExtends PROVE UNCHANGED rung  BY <1>8 DEF TrackerExtends, Extend
<1>9. ASSUME UNCHANGED budget PROVE UNCHANGED rung  BY <1>9 DEF budget
<1>10. ASSUME NEW d \in Dispatchers, DispatcherStep(d) \/ DispatcherDies(d)
       PROVE  Order[rung'] >= Order[rung]
  BY <1>2, <1>3, <1>7, <1>9, <1>10
     DEF DispatcherStep, DecideAnswers, DecideSpawn, GateRefuses, GatePasses, ReserveAborts,
         Throttled, ClaimRefused, TakeClaim, BirthFails, LaunchFails, Launch, Account,
         DispatcherDies
<1>11. ASSUME NEW a \in Runs, SupervisorStep(a) \/ SupervisorDies(a)
       PROVE  Order[rung'] >= Order[rung]
  BY <1>2, <1>4, <1>9, <1>11 DEF SupervisorStep, ChildEnds, SupervisorDies
<1>12. ASSUME UNCHANGED vars PROVE UNCHANGED rung  BY <1>12 DEF vars, budget
<1> QED  BY <1>2, <1>5, <1>6, <1>8, <1>9, <1>10, <1>11, <1>12 DEF Next, BackoffExpires

\* _recompute_state() steps the ladder up and never down while a task is open: the cooldown's
\* way down asks for less spent than what led to the rung.
THEOREM RungsOnlyClimb == Spec => RungMonotone
<1> DEFINE Climbs == task' = task => Order[rung'] >= Order[rung]
<1>1. BudgetOK /\ DispatchOK  BY BudgetOK, DispatchOK
<1>2. Accounts /\ [Next]_vars => Climbs  BY <1>1, RungStep
<1>3. Spec => [][Climbs]_vars  BY <1>2, AccountsSound, PTL DEF Spec
<1> QED  BY <1>3 DEF RungMonotone

-----------------------------------------------------------------------------
(* Where the tokens go. *)

\* A grant takes from a pool what it gives to the run.
LEMMA RegisterMoves ==
  ASSUME BudgetOK, Books, NEW a \in Agents, NEW role \in Roles, Register(a, role)
  PROVE  Moves(a, role)
<1> DEFINE grant == Grant(role)
           fromRole == Least(grant, rolePool[role])
<1>1. grant \in Nat /\ grant > 0  BY RegisterBooks
<1>2. rolePool \in [Roles -> Nat] /\ pool \in Int /\ alloc \in [Agents -> Nat]  BY DEF Books, BooksTyped
<1>3. fromRole \in Nat  BY <1>1, <1>2 DEF Least
<1>4. /\ rolePool' = [rolePool EXCEPT ![role] = @ - fromRole]
      /\ pool' = pool - (grant - fromRole)
      /\ alloc' = [alloc EXCEPT ![a] = grant]
      /\ alloc[a] = 0
  BY DEF Register
<1> HIDE DEF grant, fromRole
<1>5. /\ \A b \in Agents : b # a => alloc'[b] = alloc[b]
      /\ \A q \in Roles : q # role => rolePool'[q] = rolePool[q]
  BY <1>2, <1>4
<1>6. alloc'[a] = grant /\ rolePool'[role] = rolePool[role] - fromRole  BY <1>2, <1>4
<1>7. Balance(a, role)' = Balance(a, role)  BY <1>1, <1>2, <1>3, <1>4, <1>6 DEF Balance
<1>8. Burnt(a) = 0  BY <1>1, <1>6 DEF Burnt
<1>9. Balance(a, role) \in Int  BY <1>2 DEF Balance
<1> QED  BY <1>5, <1>7, <1>8, <1>9 DEF Moves

\* An extension comes out of what came back.
LEMMA ExtendMoves ==
  ASSUME Books, NEW a \in Agents, NEW role \in Roles, Extend(a)
  PROVE  Moves(a, role)
<1> DEFINE extension == Least(pool, alloc[a] \div 2)
<1>1. rolePool[role] \in Nat /\ pool \in Int /\ alloc \in [Agents -> Nat] /\ alloc[a] \in Nat
  BY DEF Books, BooksTyped
<1>2. extension \in Int /\ extension > 0  BY <1>1 DEF Extend, Least
<1>3. /\ pool' = pool - extension /\ rolePool' = rolePool
      /\ alloc' = [alloc EXCEPT ![a] = @ + extension]
  BY DEF Extend
<1> HIDE DEF extension
<1>4. alloc'[a] = alloc[a] + extension /\ \A b \in Agents : b # a => alloc'[b] = alloc[b]
  BY <1>1, <1>3
<1>5. Balance(a, role)' = Balance(a, role)  BY <1>1, <1>2, <1>3, <1>4 DEF Balance
<1>6. Burnt(a) = 0  BY <1>1, <1>2, <1>4 DEF Burnt
<1>7. Balance(a, role) \in Int  BY <1>1 DEF Balance
<1> QED  BY <1>3, <1>4, <1>5, <1>6, <1>7 DEF Moves

\* What comes back is what was granted and not consumed.
LEMMA ReclaimMoves ==
  ASSUME Books, NEW a \in Agents, NEW role \in Roles, NEW cooled \in BOOLEAN, Reclaim(a, cooled)
  PROVE  Moves(a, role)
<1>1. rolePool[role] \in Nat /\ pool \in Int /\ alloc \in [Agents -> Nat] /\ alloc[a] \in Nat
      /\ used[a] \in Nat
  BY DEF Books, BooksTyped
<1>2. /\ pool' = pool + Positive(alloc[a] - used[a]) /\ rolePool' = rolePool
      /\ alloc' = [alloc EXCEPT ![a] = 0]
  BY DEF Reclaim
<1>3. alloc'[a] = 0 /\ \A b \in Agents : b # a => alloc'[b] = alloc[b]  BY <1>1, <1>2
<1>4. Burnt(a) = Least(alloc[a], used[a])  BY <1>3 DEF Burnt
<1>5. Positive(alloc[a] - used[a]) = alloc[a] - Least(alloc[a], used[a])
  BY <1>1 DEF Positive, Least
<1>6. Least(alloc[a], used[a]) \in Nat  BY <1>1 DEF Least
<1>7. Balance(a, role)' = Balance(a, role) - Burnt(a)
  BY <1>1, <1>2, <1>3, <1>4, <1>5, <1>6 DEF Balance
<1>8. Balance(a, role) - Burnt(a) \in Int  BY <1>1, <1>4, <1>6 DEF Balance
<1> QED  BY <1>2, <1>3, <1>7, <1>8 DEF Moves

\* One step of the budget within a task moves tokens, if it touches them at all.
MovesStep ==
  task' = task /\ <<alloc, rolePool, pool>>' # <<alloc, rolePool, pool>> =>
    \E a \in Agents, r \in Roles : Moves(a, r)

LEMMA TokensStep ==
  ASSUME BudgetOK, DispatchOK, Accounts, [Next]_vars
  PROVE  MovesStep
<1>0. Books /\ "worker" \in Roles /\ Runs \subseteq Agents /\ task \in Nat
  BY DEF Accounts, Books, BooksTyped, Roles, OtherRoles, DispatchOK
<1>1. ASSUME UNCHANGED <<alloc, rolePool, pool>> PROVE MovesStep  BY <1>1 DEF MovesStep
<1>2. ASSUME NEW a \in Agents, NEW cooled \in BOOLEAN, Reclaim(a, cooled) PROVE MovesStep
  BY <1>0, <1>2, ReclaimMoves DEF MovesStep
<1>3. ASSUME NEW d \in Dispatchers, NEW cooled \in BOOLEAN, GiveBack(d, cooled) PROVE MovesStep
  <2>1. Run(d) \in Agents  BY <1>3 DEF GiveBack, Accounts, Placed, DispatchOK, Runs, Run
  <2> QED  BY <1>2, <1>3, <2>1 DEF GiveBack
<1>4. ASSUME NEW a \in Runs, NEW cooled \in BOOLEAN, ChildReclaims(a, cooled) PROVE MovesStep
  BY <1>0, <1>2, <1>4 DEF ChildReclaims
<1>5. ASSUME NEW d \in Dispatchers, Reserve(d) PROVE MovesStep
  <2>1. Run(d) \in Agents /\ chosen[d].role \in Roles
    BY <1>5 DEF Reserve, Accounts, Placed, DispatchOK, Runs, Run
  <2>2. Moves(Run(d), chosen[d].role)  BY <1>0, <1>5, <2>1, RegisterMoves DEF Reserve
  <2> QED  BY <2>1, <2>2 DEF MovesStep
<1>6. ASSUME TrackerExtends PROVE MovesStep
  <2>1. PICK a \in Agents : Extend(a)  BY <1>6 DEF TrackerExtends
  <2> QED  BY <1>0, <2>1, ExtendMoves DEF MovesStep
<1>7. ASSUME OperatorOpens PROVE MovesStep
  <2>1. task' # task  BY <1>0, <1>7 DEF OperatorOpens, OpenTask
  <2> QED  BY <2>1 DEF MovesStep
<1>8. ASSUME MeterRecords PROVE MovesStep
  BY <1>1, <1>8 DEF MeterRecords, RecordUsage
<1>9. ASSUME UNCHANGED budget PROVE MovesStep  BY <1>1, <1>9 DEF budget
<1>10. ASSUME NEW d \in Dispatchers, DispatcherStep(d) \/ DispatcherDies(d) PROVE MovesStep
  BY <1>3, <1>5, <1>9, <1>10
     DEF DispatcherStep, DecideAnswers, DecideSpawn, GateRefuses, GatePasses, ReserveAborts,
         Throttled, ClaimRefused, TakeClaim, BirthFails, LaunchFails, Launch, Account,
         DispatcherDies
<1>11. ASSUME NEW a \in Runs, SupervisorStep(a) \/ SupervisorDies(a) PROVE MovesStep
  BY <1>4, <1>9, <1>11 DEF SupervisorStep, ChildEnds, SupervisorDies
<1>12. ASSUME UNCHANGED vars PROVE MovesStep  BY <1>9, <1>12 DEF vars
<1> QED  BY <1>6, <1>7, <1>8, <1>9, <1>10, <1>11, <1>12 DEF Next, BackoffExpires

\* register_agent(), extend_or_wrap_up() and reclaim() make no tokens while a task is open: what
\* a run consumed is not granted again, whoever gives its reservation back and how often.
THEOREM TokensConserved == Spec => TokensGrantedOnce
<1>1. BudgetOK /\ DispatchOK  BY BudgetOK, DispatchOK
<1>2. Accounts /\ [Next]_vars => MovesStep  BY <1>1, TokensStep
<1>3. Spec => [][MovesStep]_vars  BY <1>2, AccountsSound, PTL DEF Spec
<1> QED  BY <1>3 DEF TokensGrantedOnce, MovesStep

\* Two shares of a whole do not exceed it.
LEMMA SharesFit ==
  ASSUME NEW a \in Nat, NEW b \in Nat, NEW n \in Nat, a + b > 0
  PROVE  (a * n) \div (a + b) + (b * n) \div (a + b) <= n
<1> DEFINE s == a + b
           x == a * n
           y == b * n
           q == x \div s
           r == y \div s
<1>1. s \in Nat /\ s > 0 /\ x \in Nat /\ y \in Nat /\ x + y = s * n  BY Product
<1> HIDE DEF s, x, y
<1>2. q \in Nat /\ r \in Nat /\ s * q <= x /\ s * r <= y  BY <1>1
<1> HIDE DEF q, r
<1>3. s * (q + r) <= s * n
  <2>1. s * q \in Nat /\ s * r \in Nat /\ s * (q + r) = s * q + s * r  BY <1>1, <1>2
  <2> QED  BY <1>1, <1>2, <2>1
<1>4. q + r <= n
  <2> DEFINE t == q + r
  <2>1. t \in Nat /\ s * t <= s * n  BY <1>2, <1>3
  <2> HIDE DEF t
  <2>2. ASSUME t >= n + 1 PROVE FALSE
    <3>1. s * t >= s * (n + 1)  BY <1>1, <2>1, <2>2
    <3>2. s * (n + 1) = s * n + s /\ s * n \in Nat /\ s * (n + 1) \in Nat /\ s * t \in Nat
      BY <1>1, <2>1
    <3> QED  BY <1>1, <2>1, <3>1, <3>2
  <2>3. t <= n  BY <2>1, <2>2
  <2> QED  BY <2>3 DEF t
<1> QED  BY <1>4 DEF s, x, y, q, r

\* open_task(): Sol's pool is within 15 % of the ceiling, and the pools of a task are within the
\* ceiling unless what the verifiers are planned to cost is more than 85 % of it: then it alone is
\* not scaled, and nothing is left for the workers.
THEOREM PlanWithinCeiling ==
  ASSUME BudgetOK, NEW c \in Ceilings, NEW plan \in Plans
  PROVE  LET pools == Shaped(c, plan)
             total == pools["sol"] + pools["verifier"] + pools["worker"] + pools["duty_officer"]
         IN /\ 100 * pools["sol"] <= 15 * c
            /\ \/ total <= c
               \/ /\ pools["worker"] = 0 /\ pools["duty_officer"] = 0
                  /\ pools["verifier"] = plan["verifier"] * Cost["verifier"]
                  /\ 100 * pools["verifier"] > 85 * c
<1> DEFINE raw == Raw(plan)
           sol == Least(raw["sol"], (15 * c) \div 100)
           floor == (20 * c) \div 100
           k3 == IF plan["verifier"] > 0 /\ raw["verifier"] < floor THEN floor ELSE raw["verifier"]
           left == Positive(c - (sol + k3))
           sum == raw["worker"] + raw["duty_officer"]
           Part(r) == IF sum > left THEN (raw[r] * left) \div sum ELSE raw[r]
           pools == Shaped(c, plan)
<1>0. c \in Nat /\ plan \in [Roles -> Nat] /\ Cost \in [Roles -> Nat]  BY DEF BudgetOK
<1>1. {"sol", "verifier", "worker", "duty_officer"} \subseteq Roles  BY DEF Roles, OtherRoles
<1>2. raw \in [Roles -> Nat] /\ raw["verifier"] = plan["verifier"] * Cost["verifier"]
  <2>1. ASSUME NEW r \in Roles PROVE plan[r] * Cost[r] \in Nat
    <3>1. plan[r] \in Nat /\ Cost[r] \in Nat  BY <1>0
    <3> QED  BY <3>1, Product
  <2> QED  BY <1>1, <2>1 DEF Raw
<1>3. pools = [r \in Roles |-> IF r = "sol" THEN sol ELSE IF r = "verifier" THEN k3
                               ELSE IF sum > left THEN (raw[r] * left) \div sum ELSE raw[r]]
  BY Zenon DEF Shaped
<1> HIDE DEF raw
<1>4. raw["sol"] \in Nat /\ raw["verifier"] \in Nat /\ raw["worker"] \in Nat
      /\ raw["duty_officer"] \in Nat
  BY <1>1, <1>2
<1>5. sol \in Nat /\ 100 * sol <= 15 * c  BY <1>0, <1>4 DEF Least
<1>6. floor \in Nat /\ 100 * floor <= 20 * c  BY <1>0
<1> HIDE DEF sol, floor
<1>7. k3 \in Nat /\ (k3 = raw["verifier"] \/ 100 * k3 <= 20 * c)  BY <1>4, <1>6
<1> HIDE DEF k3
<1>8. left \in Nat /\ sum \in Nat /\ (sol + k3 <= c => sol + k3 + left = c)
      /\ (sol + k3 > c => left = 0)
  BY <1>0, <1>4, <1>5, <1>7 DEF Positive
<1>9. Part("worker") \in Nat /\ Part("duty_officer") \in Nat
      /\ Part("worker") + Part("duty_officer") <= left
  <2>1. sum = raw["worker"] + raw["duty_officer"]  OBVIOUS
  <2> HIDE DEF left, sum
  <2>2. CASE sum > left
    <3>1. sum > 0  BY <1>8, <2>2
    <3>2. (raw["worker"] * left) \div sum + (raw["duty_officer"] * left) \div sum <= left
      BY <1>4, <1>8, <2>1, <3>1, SharesFit
    <3>3. raw["worker"] * left \in Nat /\ raw["duty_officer"] * left \in Nat
      BY <1>4, <1>8, Product
    <3>4. (raw["worker"] * left) \div sum \in Nat /\ (raw["duty_officer"] * left) \div sum \in Nat
      BY <1>8, <3>1, <3>3, Quotient
    <3> QED  BY <2>2, <3>2, <3>4
  <2>3. CASE ~(sum > left)
    BY <1>4, <1>8, <2>1, <2>3
  <2> QED  BY <2>2, <2>3
<1> HIDE DEF left, sum
<1>10. pools["worker"] = Part("worker") /\ pools["duty_officer"] = Part("duty_officer")
       /\ pools["sol"] = sol /\ pools["verifier"] = k3
  <2> HIDE DEF pools
  <2> QED  BY <1>1, <1>3
<1> HIDE DEF Part, pools
<1>11. CASE sol + k3 <= c
  BY <1>0, <1>5, <1>7, <1>8, <1>9, <1>10, <1>11 DEF pools
<1>12. CASE sol + k3 > c
  <2>1. Part("worker") = 0 /\ Part("duty_officer") = 0  BY <1>8, <1>9, <1>12
  <2>2. 100 * k3 > 85 * c  BY <1>0, <1>5, <1>7, <1>12
  <2>3. k3 = raw["verifier"]  BY <1>0, <1>7, <2>2
  <2> QED  BY <1>2, <1>5, <1>10, <2>1, <2>2, <2>3 DEF pools
<1> QED  BY <1>0, <1>5, <1>7, <1>11, <1>12
=============================================================================
