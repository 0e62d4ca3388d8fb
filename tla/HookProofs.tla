----------------------------- MODULE HookProofs -----------------------------
(***************************************************************************)
(* The hooks of a Desktop session, for any number of them: the band and    *)
(* the routes of Governance, and the roster of native subagents.  A band   *)
(* remembers in its counters what the report before said (Remembers); a    *)
(* route rests on what is true when it is made.  A close request is        *)
(* appended only when the ledger has none for the child, so the ledger     *)
(* alone, whatever becomes of the roster, keeps it single; a row is set to *)
(* running only where there is none.                                       *)
(***************************************************************************)
EXTENDS Governance, Subagents, TLAPS


\* A counter runs only in the band it leads out of, and while it runs, the last share
\* was beyond its threshold.
Remembers(y) ==
  /\ y.band \in {"NORMAL", "HIGH"} /\ y.above \in Nat /\ y.below \in Nat
  /\ y.band = "NORMAL" => y.below = 0
  /\ y.band = "HIGH" => y.above = 0
  /\ y.above # 0 => y.share > EnterHigh
  /\ y.below # 0 => y.share < LeaveHigh

\* What one change of the band shows of the two reports around it.
TwoReports(y, z) ==
  z.band # y.band =>
    /\ z.share # y.share
    /\ IF z.band = "HIGH" THEN z.share > EnterHigh /\ y.share > EnterHigh
       ELSE z.share < LeaveHigh /\ y.share < LeaveHigh

\* observe() keeps its memory and needs two reports, whatever share it is shown.
LEMMA ObserveRemembers ==
  ASSUME NEW share, Remembers(hyst)
  PROVE  Remembers(Observe(share)) /\ TwoReports(hyst, Observe(share))
<1> DEFINE above == IF share > EnterHigh THEN hyst.above + 1 ELSE 0
           below == IF share < LeaveHigh THEN hyst.below + 1 ELSE 0
           Fresh(band) == [band |-> band, above |-> 0, below |-> 0, share |-> share]
<1>1. Samples \in Nat /\ Samples >= 2  BY GovernanceOK
<1>2. above \in Nat /\ below \in Nat  BY DEF Remembers
<1>3. above # 0 => share > EnterHigh  OBVIOUS
<1>4. below # 0 => share < LeaveHigh  OBVIOUS
<1>5. above >= Samples => hyst.above # 0  BY <1>1 DEF Remembers
<1>6. below >= Samples => hyst.below # 0  BY <1>1 DEF Remembers
<1>7. above >= Samples => above # 0  BY <1>1, <1>2
<1>8. below >= Samples => below # 0  BY <1>1, <1>2
<1>9. Observe(share) =
        IF share = hyst.share THEN hyst
        ELSE IF hyst.band = "NORMAL"
        THEN IF above >= Samples THEN Fresh("HIGH")
             ELSE [band |-> "NORMAL", above |-> above, below |-> hyst.below, share |-> share]
        ELSE IF below >= Samples THEN Fresh("NORMAL")
        ELSE [band |-> "HIGH", above |-> hyst.above, below |-> below, share |-> share]
  BY DEF Observe
<1> HIDE DEF above, below
<1>10. CASE share = hyst.share  BY <1>9, <1>10 DEF TwoReports
<1>11. CASE share # hyst.share /\ hyst.band = "NORMAL"
  BY <1>2, <1>3, <1>5, <1>7, <1>9, <1>11 DEF Remembers, TwoReports
<1>12. CASE share # hyst.share /\ hyst.band # "NORMAL"
  BY <1>2, <1>4, <1>6, <1>8, <1>9, <1>12 DEF Remembers, TwoReports
<1> QED  BY <1>10, <1>11, <1>12

\* Only a hook that saw a report in execution writes the hysteresis.
LEMMA OnlyObserves == [Next]_vars => UNCHANGED hyst \/ \E share : hyst' = Observe(share)
<1>1. ASSUME Next PROVE UNCHANGED hyst \/ \E share : hyst' = Observe(share)
  <2>1. CASE \E h \in Hooks : HookStep(h) \/ HookCrashes(h) \/ HookTimesOut(h)
    BY <2>1 DEF HookStep, HookAuthorized, HookV1, HookRecon, HookV2, HookLease, HookObserves,
                HookCrashes, HookTimesOut, counters
  <2>2. CASE \E c \in Calls : HookPasses(c) \/ \E h \in Hooks : HookStarts(h, c)
    BY <2>2 DEF HookPasses, HookStarts, counters
  <2>3. CASE \/ \E s \in LoopStates : StateSet(s) \/ BareKeySet(s)
             \/ PacketsMove \/ BudgetMoves \/ MeterReports \/ LeaseRenewed \/ ReconExpires
    BY <2>3 DEF StateSet, BareKeySet, PacketsMove, BudgetMoves, MeterReports, LeaseRenewed,
                ReconExpires, counters
  <2>4. CASE \/ \E m \in RoutingMode : OperatorSets(m)
             \/ OperatorEdits \/ RehearsalBegins \/ RehearsalRestores \/ PlanesCompared
             \/ GateChecks \/ GateFlips \/ GateHashes \/ GateAuthorizes \/ GateDies
             \/ AuthorizationAges \/ ConditionsChange \/ RouterLoads
    BY <2>4 DEF OperatorSets, OperatorEdits, RehearsalBegins, RehearsalRestores, PlanesCompared,
                GateChecks, GateFlips, GateHashes, GateAuthorizes, GateDies, AuthorizationAges,
                ConditionsChange, RouterLoads, counters
  <2> QED  BY <1>1, <2>1, <2>2, <2>3, <2>4 DEF Next
<1> QED  BY <1>1 DEF vars, counters

LEMMA BandStep ==
  ASSUME Remembers(hyst), [Next]_vars
  PROVE  Remembers(hyst') /\ TwoReports(hyst, hyst')
<1>1. CASE UNCHANGED hyst  BY <1>1 DEF TwoReports
<1>2. CASE \E share : hyst' = Observe(share)
  <2>1. PICK share : hyst' = Observe(share)  BY <1>2
  <2> QED  BY <2>1, ObserveRemembers
<1> QED  BY <1>1, <1>2, OnlyObserves

\* The hysteresis remembers why a counter runs.
THEOREM BandSound == Spec => []Remembers(hyst)
<1>1. Init => Remembers(hyst)  BY DEF Init, Remembers
<1>2. Remembers(hyst) /\ [Next]_vars => Remembers(hyst)'
  BY BandStep DEF Remembers
<1> QED  BY <1>1, <1>2, PTL DEF Spec

\* No number of hooks, looks and late writes moves the band on one report
\* (root_turn_governor.py:189-216).
THEOREM BandMoves == Spec => BandNeedsTwoReports
<1>1. Remembers(hyst) /\ [Next]_vars =>
        [hyst'.band # hyst.band =>
           /\ hyst'.share # hyst.share
           /\ IF hyst'.band = "HIGH" THEN hyst'.share > EnterHigh /\ hyst.share > EnterHigh
              ELSE hyst'.share < LeaveHigh /\ hyst.share < LeaveHigh]_vars
  BY BandStep DEF TwoReports
<1> QED  BY <1>1, BandSound, PTL DEF Spec, BandNeedsTwoReports

-----------------------------------------------------------------------------
(* Routes. *)

\* The layered graph is entered with every guard true.
LEMMA LayeredIsGuarded ==
  ASSUME ActsIn = "layered"
  PROVE  loaded = "layered" /\ Authorizes(file) /\ \A c \in unmet : GuardOf(c) = "none"
<1>1. loaded = "layered" /\ Guards = GateGuard
  BY DEF ActsIn, EffectiveMode
<1>2. \A c : GuardOf(c) \in GateGuard \cup {"none"}
  BY DEF GuardOf, GateGuard
<1>3. \A g \in GateGuard :
        /\ g \notin {GuardOf(c) : c \in unmet}
        /\ g \notin IF Authorizes(file) THEN {} ELSE {"layered_authorization_current"}
  BY <1>1 DEF Guards
<1>4. Authorizes(file)  BY <1>3 DEF GateGuard
<1>5. \A c \in unmet : GuardOf(c) = "none"  BY <1>2, <1>3
<1> QED  BY <1>1, <1>4, <1>5

\* What the two graphs say of a packet.
LEMMA RouteRows ==
  ASSUME NEW m, NEW action \in Action,
         NEW uncertain \in BOOLEAN, NEW suited \in BOOLEAN, NEW highRisk \in BOOLEAN
  PROVE  LET d == RouteAction(m, action, uncertain, suited, highRisk)
         IN /\ d.route \notin {"sol_adjudicate", "l4_human"} => m = "layered"
            /\ d.route = "sol_adjudicate" => d.reason \in SolReasons
            /\ highRisk => d.route \in {"sol_adjudicate", "l4_human"}
<1>1. CASE m = "layered"
  BY <1>1 DEF RouteAction, LayeredRoute, SolReasons, Action
<1>2. CASE m # "layered"
  BY <1>2 DEF RouteAction, LegacyRoute, SolReasons, Action
<1> QED  BY <1>1, <1>2

\* Whatever the policy file, its authorization and the memory of a router are, a packet
\* leaves Sol's path only under a guarded layered graph (agent_router.py:112, 361-378).
THEOREM RoutesRest == Spec => []RoutesJustified
<1>1. RoutesJustified
  <2> SUFFICES ASSUME NEW m \in RoutingMode, NEW action \in Action,
                      NEW uncertain \in BOOLEAN, NEW suited \in BOOLEAN, NEW risk \in BOOLEAN,
                      m = ActsIn
               PROVE  LET d == RouteAction(m, action, uncertain, suited, risk)
                      IN /\ d.route \notin {"sol_adjudicate", "l4_human"} =>
                              loaded = "layered" /\ Authorizes(file)
                              /\ \A c \in unmet : GuardOf(c) = "none"
                         /\ d.route = "sol_adjudicate" => d.reason \in SolReasons
                         /\ risk => d.route \in {"sol_adjudicate", "l4_human"}
    BY DEF RoutesJustified, Routed
  <2> QED  BY RouteRows, LayeredIsGuarded
<1> QED  BY <1>1, PTL

-----------------------------------------------------------------------------
(***************************************************************************)
(* The roster.                                                             *)
(***************************************************************************)
RosterInv == TypeOK /\ CloseOnce

\* The mark of a queued request leaves the rest of the row alone.
LEMMA ClosedRow ==
  ASSUME NEW row \in Rows
  PROVE  Closed(row) \in Rows /\ Closed(row).status = row.status
<1>1. (row.emitted \/ ~row.consumed) \in BOOLEAN  BY Zenon DEF Rows
<1>2. Closed(row) = [row EXCEPT !.emitted = row.emitted \/ ~row.consumed]  BY DEF Closed
<1> DEFINE mark == row.emitted \/ ~row.consumed
<1>3. mark \in BOOLEAN  BY <1>1
<1> HIDE DEF mark
<1>4. [row EXCEPT !.emitted = mark] \in Rows
       /\ [row EXCEPT !.emitted = mark].status = row.status  BY <1>3 DEF Rows
<1> QED  BY <1>2, <1>4 DEF mark

\* queue_close_locked() and the rows around it: nobody is asked twice.
LEMMA TransactSound ==
  ASSUME RosterInv, NEW A \in SUBSET Agents, NEW new,
         \A a \in A : new[a] \in Rows, Transact(A, new), MaxFaults \in Nat
  PROVE  /\ closes' \in [Agents -> Nat] /\ CloseOnce'
         /\ roster' \in [Agents -> Rows] /\ faults' \in 0..MaxFaults
<1>1. closes' \in [Agents -> Nat]  BY DEF RosterInv, TypeOK, Transact
<1>2. CloseOnce'
  <2> SUFFICES ASSUME NEW a \in Agents PROVE closes'[a] <= 1  BY DEF CloseOnce
  <2>1. closes[a] \in Nat /\ closes[a] <= 1  BY DEF RosterInv, TypeOK, CloseOnce
  <2>2. closes'[a] = IF a \in A /\ ~Asked(a) THEN closes[a] + 1 ELSE closes[a]
    BY DEF Transact
  <2>3. ~Asked(a) => closes[a] = 0  BY <2>1 DEF Asked
  <2> QED  BY <2>1, <2>2, <2>3
<1>3. roster' \in [Agents -> Rows]
  <2>1. CASE roster' = [a \in Agents |-> IF a \in A THEN Closed(new[a]) ELSE roster[a]]
    BY <2>1, ClosedRow DEF RosterInv, TypeOK
  <2>2. CASE UNCHANGED roster  BY <2>2 DEF RosterInv, TypeOK
  <2> QED  BY <2>1, <2>2 DEF Transact
<1>4. faults' \in 0..MaxFaults  BY DEF RosterInv, TypeOK, Transact, Fault
<1> QED  BY <1>1, <1>2, <1>3, <1>4

\* A transaction that ends children sets no row to running.
LEMMA TransactEnds ==
  ASSUME RosterInv, NEW A \in SUBSET Agents, NEW new,
         \A a \in A : new[a] \in Rows /\ new[a].status # "running", Transact(A, new),
         NEW b \in Agents, roster[b].status # "running"
  PROVE  roster'[b].status # "running"
<1>1. CASE roster' = [a \in Agents |-> IF a \in A THEN Closed(new[a]) ELSE roster[a]]
  <2>1. CASE b \in A
    <3>1. roster'[b] = Closed(new[b])  BY <1>1, <2>1
    <3> QED  BY <2>1, <3>1, ClosedRow
  <2>2. CASE b \notin A  BY <1>1, <2>2
  <2> QED  BY <2>1, <2>2
<1>2. CASE UNCHANGED roster  BY <1>2
<1> QED  BY <1>1, <1>2 DEF Transact

\* The rows that the three callers hand to their transaction.
LEMMA Stopped ==
  ASSUME RosterInv, NEW a \in Agents, NEW word \in {"terminal", "interrupted"}
  PROVE  [roster[a] EXCEPT !.status = word] \in Rows
         /\ [roster[a] EXCEPT !.status = word].status # "running"
<1>1. roster[a] \in Rows  BY DEF RosterInv, TypeOK
<1> QED  BY <1>1 DEF Rows

\* The type invariant and the single request are inductive.
LEMMA RosterInvInit == ASSUME MaxFaults \in Nat PROVE RosterInit => RosterInv
<1> SUFFICES ASSUME RosterInit PROVE RosterInv  OBVIOUS
<1>1. Absent \in Rows  BY DEF Absent, Rows
<1> QED  BY <1>1 DEF RosterInit, RosterInv, TypeOK, CloseOnce

LEMMA RosterInvStep ==
  ASSUME MaxFaults \in Nat, RosterInv, [RosterNext]_rosterVars
  PROVE  RosterInv'
<1> USE DEF RosterInv
<1> DEFINE Quiet == UNCHANGED <<roster, closes, faults>>
<1>0. Absent \in Rows /\ Row("running") \in Rows  BY DEF Absent, Row, Rows
<1>1. ASSUME NEW a \in Agents, Spawn(a) PROVE RosterInv'
  <2>1. host' \in [Agents -> {"unborn", "live", "ended"}]  BY <1>1 DEF Spawn, TypeOK
  <2>2. due' \subseteq {"SubagentStart", "SubagentStop"} \X Agents  BY <1>1 DEF Spawn, TypeOK
  <2>3. pending' \subseteq Agents  BY <1>1 DEF Spawn, TypeOK
  <2>4. faults' \in 0..MaxFaults  BY <1>1 DEF Spawn, Fault, TypeOK
  <2> QED  BY <1>1, <2>1, <2>2, <2>3, <2>4 DEF Spawn, TypeOK, CloseOnce
<1>2. ASSUME NEW a \in Agents, Ends(a) PROVE RosterInv'
  BY <1>2 DEF Ends, TypeOK, CloseOnce
<1>3. ASSUME NEW a \in Agents, HostCloses(a) PROVE RosterInv'
  <2>1. roster' \in [Agents -> Rows]
    <3>1. roster[a] \in Rows  BY DEF TypeOK
    <3>2. [roster[a] EXCEPT !.consumed = TRUE] \in Rows  BY <3>1 DEF Rows
    <3>3. roster' = roster \/ roster' = [roster EXCEPT ![a] = [roster[a] EXCEPT !.consumed = TRUE]]
      BY <1>3 DEF HostCloses
    <3> QED  BY <3>2, <3>3 DEF TypeOK
  <2>2. due' \subseteq {"SubagentStart", "SubagentStop"} \X Agents
    BY <1>3 DEF HostCloses, TypeOK
  <2>3. host' \in [Agents -> {"unborn", "live", "ended"}]  BY <1>3 DEF HostCloses, TypeOK
  <2> QED  BY <1>3, <2>1, <2>2, <2>3 DEF HostCloses, TypeOK, CloseOnce
<1>4. ASSUME NEW a \in Agents, SubagentStart(a) PROVE RosterInv'
  <2>1. roster' \in [Agents -> Rows]  BY <1>0, <1>4 DEF SubagentStart, TypeOK
  <2>2. pending' \subseteq Agents  BY <1>4 DEF SubagentStart, TypeOK
  <2> QED  BY <1>4, <2>1, <2>2 DEF SubagentStart, Takes, TypeOK, CloseOnce
<1>5. ASSUME NEW a \in Agents, SubagentStop(a) PROVE RosterInv'
  <2> DEFINE new == [roster EXCEPT ![a].status = "terminal"]
  <2>1. new[a] = [roster[a] EXCEPT !.status = "terminal"]  BY DEF TypeOK
  <2>2. \A b \in {a} : new[b] \in Rows  BY <2>1, Stopped
  <2>3. Transact({a}, new)  BY <1>5 DEF SubagentStop
  <2> HIDE DEF new
  <2>4. /\ closes' \in [Agents -> Nat] /\ CloseOnce'
        /\ roster' \in [Agents -> Rows] /\ faults' \in 0..MaxFaults
    BY <2>2, <2>3, TransactSound
  <2> QED  BY <1>5, <2>4 DEF SubagentStop, Takes, TypeOK
<1>6. ASSUME ParentStop PROVE RosterInv'
  <2> DEFINE A == {a \in Agents : roster[a].status = "running"}
             new == [a \in Agents |-> [roster[a] EXCEPT !.status = "interrupted"]]
  <2>1. \A b \in A : new[b] \in Rows  BY Stopped
  <2>2. Transact(A, new) /\ A \in SUBSET Agents  BY <1>6 DEF ParentStop
  <2> HIDE DEF A, new
  <2>3. /\ closes' \in [Agents -> Nat] /\ CloseOnce'
        /\ roster' \in [Agents -> Rows] /\ faults' \in 0..MaxFaults
    BY <2>1, <2>2, TransactSound
  <2> QED  BY <1>6, <2>3 DEF ParentStop, TypeOK
<1>7. ASSUME SessionStart PROVE RosterInv'
  BY <1>7 DEF SessionStart, TypeOK, CloseOnce
<1>8. ASSUME NEW a \in Agents, ColdReconcile(a) PROVE RosterInv'
  <2> DEFINE new == [roster EXCEPT ![a].status = "terminal"]
  <2>1. new[a] = [roster[a] EXCEPT !.status = "terminal"]  BY DEF TypeOK
  <2>2. \A b \in {a} : new[b] \in Rows  BY <2>1, Stopped
  <2>3. Transact({a}, new) \/ UNCHANGED <<roster, closes, faults>>
    BY <1>8 DEF ColdReconcile
  <2> HIDE DEF new
  <2>4. /\ closes' \in [Agents -> Nat] /\ CloseOnce'
        /\ roster' \in [Agents -> Rows] /\ faults' \in 0..MaxFaults
    BY <2>2, <2>3, TransactSound DEF TypeOK, CloseOnce
  <2> QED  BY <1>8, <2>4 DEF ColdReconcile, TypeOK
<1>9. ASSUME NEW a \in Agents, PruneNativeRoster(a) PROVE RosterInv'
  BY <1>0, <1>9 DEF PruneNativeRoster, TypeOK, CloseOnce
<1>10. ASSUME Rebuilt PROVE RosterInv'
  BY <1>0, <1>10 DEF Rebuilt, Fault, TypeOK, CloseOnce
<1>11. ASSUME HookLost PROVE RosterInv'
  BY <1>11 DEF HookLost, Takes, Fault, TypeOK, CloseOnce
<1>12. ASSUME NEW a \in Agents, HookDoubled(a) PROVE RosterInv'
  BY <1>12 DEF HookDoubled, Fault, TypeOK, CloseOnce
<1>13. ASSUME UNCHANGED rosterVars PROVE RosterInv'
  BY <1>13 DEF rosterVars, TypeOK, CloseOnce
<1> QED  BY <1>1, <1>2, <1>3, <1>4, <1>5, <1>6, <1>7, <1>8, <1>9, <1>10, <1>11, <1>12, <1>13
         DEF RosterNext, RosterHooks

\* The roster's files keep their types and no child is asked for twice.
THEOREM RosterSound == RosterSpec => []RosterInv
<1>1. MaxFaults \in Nat  BY SubagentConstants
<1> QED  BY <1>1, RosterInvInit, RosterInvStep, PTL DEF RosterSpec

\* queue_close_locked() asks the host to close a child at most once, however often its hooks
\* come, die before the rename, or find the roster rebuilt.
THEOREM AskedOnce == RosterSpec => []CloseOnce
<1>1. RosterInv => CloseOnce  BY DEF RosterInv
<1> QED  BY <1>1, RosterSound, PTL

\* subagent_start() is the only hook that writes "running", and only where there is no row:
\* a child that stopped does not come back.
LEMMA NoReturn ==
  ASSUME RosterInv, [RosterNext]_rosterVars, NEW b \in Agents, roster[b].status \in {"terminal", "interrupted"}
  PROVE  roster'[b].status # "running"
<1>0. Absent.status # "running"  BY DEF Absent
<1>1. roster[b].status # "running" /\ roster \in [Agents -> Rows]  BY DEF RosterInv, TypeOK
<1>2. ASSUME NEW a \in Agents, HostCloses(a) PROVE roster'[b].status # "running"
  <2>1. roster[a] \in Rows  BY <1>1
  <2>2. [roster[a] EXCEPT !.consumed = TRUE].status = roster[a].status  BY <2>1 DEF Rows
  <2>3. roster' = roster \/ roster' = [roster EXCEPT ![a] = [roster[a] EXCEPT !.consumed = TRUE]]
    BY <1>2 DEF HostCloses
  <2> QED  BY <1>1, <2>2, <2>3
<1>3. ASSUME NEW a \in Agents, SubagentStart(a) PROVE roster'[b].status # "running"
  <2>1. roster' = roster \/ (roster[a].status = "absent" /\ roster' = [roster EXCEPT ![a] = Row("running")])
    BY <1>3 DEF SubagentStart, Unknown
  <2> QED  BY <1>1, <2>1
<1>4. ASSUME NEW a \in Agents, Transact({a}, [roster EXCEPT ![a].status = "terminal"])
      PROVE  roster'[b].status # "running"
  <2> DEFINE new == [roster EXCEPT ![a].status = "terminal"]
  <2>1. new[a] = [roster[a] EXCEPT !.status = "terminal"]  BY <1>1
  <2>2. \A c \in {a} : new[c] \in Rows /\ new[c].status # "running"  BY <2>1, Stopped
  <2>3. Transact({a}, new)  BY <1>4
  <2> HIDE DEF new
  <2> QED  BY <1>1, <2>2, <2>3, TransactEnds
<1>5. ASSUME ParentStop PROVE roster'[b].status # "running"
  <2> DEFINE A == {a \in Agents : roster[a].status = "running"}
             new == [a \in Agents |-> [roster[a] EXCEPT !.status = "interrupted"]]
  <2>1. \A c \in A : new[c] \in Rows /\ new[c].status # "running"  BY Stopped
  <2>2. Transact(A, new) /\ A \in SUBSET Agents  BY <1>5 DEF ParentStop
  <2> HIDE DEF A, new
  <2> QED  BY <1>1, <2>1, <2>2, TransactEnds
<1>6. ASSUME NEW a \in Agents, PruneNativeRoster(a) PROVE roster'[b].status # "running"
  BY <1>0, <1>1, <1>6 DEF PruneNativeRoster
<1>7. ASSUME Rebuilt PROVE roster'[b].status # "running"
  BY <1>0, <1>7 DEF Rebuilt
<1>8. ASSUME UNCHANGED roster PROVE roster'[b].status # "running"
  BY <1>1, <1>8
<1> QED  BY <1>2, <1>3, <1>4, <1>5, <1>6, <1>7, <1>8
         DEF RosterNext, RosterHooks, Spawn, Ends, SubagentStop, ColdReconcile, SessionStart, HookLost,
             HookDoubled, rosterVars

\* A late or repeated start hook does not bring a stopped child back as running.
THEOREM StoppedStays == RosterSpec => TerminalStays
<1> DEFINE Stays == \A a \in Agents :
                     roster[a].status \in {"terminal", "interrupted"} => roster'[a].status # "running"
<1>1. RosterInv /\ [RosterNext]_rosterVars => Stays  BY NoReturn
<1>2. RosterSpec => [][Stays]_rosterVars  BY <1>1, RosterSound, PTL DEF RosterSpec
<1> QED  BY <1>2 DEF TerminalStays
=============================================================================
