------------------------ MODULE PacketMachineProofs ------------------------
(***************************************************************************)
(* PacketMachine for every set of packets, runs and inputs and every bound:*)
(* type correctness, the cursor's exactness, both retry budgets, fail-     *)
(* visibility and the single admitted generation.                          *)
(***************************************************************************)
EXTENDS PacketMachine, TLAPS

-----------------------------------------------------------------------------
(* The table. *)

\* Every row leads to a declared state and has a natural number.
LEMMA RowTypes == \A r \in T : r.to \in STATES /\ r.num \in Nat
BY DEF T, Row, STATES

\* A packet gets back to a state that awaits dispatch only by a retry, a replan
\* or from another such state.
LEMMA FreshRows ==
  \A r \in T : r.to \in FRESH => r.on = "retry_dispatch" \/ r.num = 22 \/ r.from \in FRESH
BY DEF T, Row, FRESH

\* No row of a dispatch leads to a state that awaits dispatch.
LEMMA DispatchRows == \A r \in T : r.on = "dispatched" => r.to = "RUNNING"
BY DEF T, Row

\* An event's name is no dead-letter reason: the table's own rows into DEAD_LETTER
\* are verdicts of a producer.
LEMMA VerdictRows ==
  \A r \in T : r.on \notin DeadLetterReasons /\ r.on # "replan_cap_forced_l4"
BY DEF T, Row, DeadLetterReasons

\* t37 is a retry: it closes the timed-out generation.
LEMMA RetryRow == \A r \in T : r.num = 37 => r.on = "retry_dispatch"
BY DEF T, Row

-----------------------------------------------------------------------------
(* Reading one line. *)

Inv == TypeOK /\ Sound

\* The line a step is about to apply is an event of the log.
LEMMA LineType == ASSUME Inv, Unread PROVE Line \in Event
<1>1. led.cursor - disk.cursor + 1 \in 1..Len(log)
  BY DEF Inv, Sound, CursorSound, TypeOK, Ledger, Unread
<1> QED BY <1>1 DEF Inv, TypeOK, Line

\* The tail of apply_event keeps an entry an entry.
LEMMA EnterType ==
  ASSUME NEW k \in Pkt, NEW r \in T, NEW e \in Event
  PROVE  Enter(k, r, e) \in Pkt
<1>1. r.to \in STATES /\ r.num \in Nat BY RowTypes
<1>2. e.name \in Via BY DEF Event, Via
<1>3. e.run \in Runs \cup {NoRun} BY DEF Event
<1> QED BY <1>1, <1>2, <1>3 DEF Enter, Pkt

\* Sidecars keep their type and only ever grow.
SidecarsGrow ==
  /\ replanCount' \in [Packets -> Nat] /\ retryCount' \in [Packets -> Nat]
  /\ deadLetters' \subseteq Packets /\ l4Queue' \subseteq Packets
  /\ \A p \in Packets : replanCount[p] <= replanCount'[p] /\ retryCount[p] <= retryCount'[p]
  /\ deadLetters \subseteq deadLetters' /\ l4Queue \subseteq l4Queue'

\* An entry that is sound stays sound when the sidecars grow.
LEMMA GrowthKeepsSound ==
  ASSUME TypeOK, SidecarsGrow, NEW p \in Packets, NEW k \in Pkt, EntrySound(p, k)
  PROVE  EntrySound(p, k)'
BY DEF TypeOK, SidecarsGrow, EntrySound, Pkt, REPLAN_CAP, TIMEOUT_RETRY_MAX

\* Absorbing one line into a sound entry keeps the whole invariant.
LEMMA AbsorbLine ==
  ASSUME Inv, Unread, NEW p \in Packets, NEW k \in Pkt, Advance(p, k),
         EventFrame, SidecarsGrow, EntrySound(p, k)'
  PROVE  Inv'
<1> USE DEF EventFrame, evidence
<1>1. led' \in Ledger
  BY DEF Inv, TypeOK, Ledger, Advance, Absorb
<1>2. TypeOK'
  BY <1>1 DEF Inv, TypeOK, SidecarsGrow
<1>3. CursorSound'
  <2>1. led'.cursor = led.cursor + 1 /\ led'.applied = led.applied \cup {led.cursor + 1}
    BY DEF Advance, Absorb
  <2>2. led'.cursor <= disk.cursor + Len(log)
    BY <2>1 DEF Inv, TypeOK, Ledger, Unread, Sound, CursorSound
  <2>3. led'.applied = 1..led'.cursor
    BY <2>1 DEF Inv, TypeOK, Ledger, Sound, CursorSound, AppliedExactlyOnce
  <2> QED BY <2>1, <2>2, <2>3
    DEF Inv, TypeOK, Ledger, Sound, CursorSound, AppliedExactlyOnce
<1>4. ASSUME NEW q \in Packets PROVE EntrySound(q, disk.packets[q])'
  <2>1. PICK d \in Pkt : d = disk.packets[q]
    BY DEF Inv, TypeOK, Ledger
  <2>2. EntrySound(q, d)'
    BY <2>1, GrowthKeepsSound DEF Inv, Sound
  <2> QED BY <2>1, <2>2 DEF EntrySound
<1>5. ASSUME NEW q \in Packets PROVE EntrySound(q, led.packets[q])'
  <2>1. CASE q = p
    <3>1. led'.packets[q] = k
      BY <2>1 DEF Advance, Absorb, Inv, TypeOK, Ledger
    <3> QED BY <2>1, <3>1 DEF EntrySound
  <2>2. CASE q # p
    <3>1. PICK d \in Pkt : d = led.packets[q]
      BY DEF Inv, TypeOK, Ledger
    <3>2. EntrySound(q, d)'
      BY <3>1, GrowthKeepsSound DEF Inv, Sound
    <3>3. led'.packets[q] = d
      BY <2>2, <3>1 DEF Advance, Absorb, Inv, TypeOK, Ledger
    <3> QED BY <3>2, <3>3 DEF EntrySound
  <2> QED BY <2>1, <2>2
<1> QED BY <1>2, <1>3, <1>4, <1>5 DEF Inv, Sound

-----------------------------------------------------------------------------
(* One lemma per rule of apply_event. *)

LEMMA UnchangedGrow == ASSUME TypeOK, UNCHANGED sidecars PROVE SidecarsGrow
BY DEF TypeOK, sidecars, SidecarsGrow

\* The entry of a packet in the ledger in memory, and its soundness.
LEMMA CurrentEntry ==
  ASSUME Inv, NEW p \in Packets
  PROVE  led.packets[p] \in Pkt /\ EntrySound(p, led.packets[p])
BY DEF Inv, Sound, TypeOK, Ledger

LEMMA SkipKeeps == ASSUME Inv, SkipEvent PROVE Inv'
<1> USE DEF SkipEvent, EventFrame, evidence, sidecars
<1>1. led'.packets = led.packets /\ led'.cursor = led.cursor + 1
      /\ led'.applied = led.applied \cup {led.cursor + 1} /\ led' \in Ledger
  BY DEF Inv, TypeOK, Ledger, Absorb
<1>2. TypeOK'
  BY <1>1 DEF Inv, TypeOK
<1>3. CursorSound'
  <2>1. led'.cursor <= disk.cursor + Len(log)
    BY <1>1 DEF Inv, TypeOK, Ledger, Unread, Sound, CursorSound
  <2>2. led'.applied = 1..led'.cursor
    BY <1>1 DEF Inv, TypeOK, Ledger, Sound, CursorSound, AppliedExactlyOnce
  <2> QED BY <1>1, <2>1, <2>2
    DEF Inv, TypeOK, Ledger, Sound, CursorSound, AppliedExactlyOnce
<1>4. \A p \in Packets : EntrySound(p, disk.packets[p])' /\ EntrySound(p, led.packets[p])'
  BY <1>1 DEF Inv, Sound, EntrySound
<1> QED BY <1>2, <1>3, <1>4 DEF Inv, Sound

LEMMA IgnoreStaleKeeps == ASSUME Inv, NEW p \in Packets, IgnoreStale(p) PROVE Inv'
<1>1. PICK why \in {"stale_generation_ignored", "stale_run_id_ignored",
                    "duplicate_generation_ignored"} :
        Unread /\ Advance(p, [led.packets[p] EXCEPT !.via = why]) /\ EventFrame
        /\ UNCHANGED sidecars
  BY DEF IgnoreStale, Applying
<1>2. PICK k \in Pkt : k = [led.packets[p] EXCEPT !.via = why]
  BY CurrentEntry DEF Pkt, Via
<1>3. EntrySound(p, k)'
  BY <1>1, <1>2, CurrentEntry DEF EntrySound, Pkt, sidecars, DeadLetterReasons
<1> QED BY <1>1, <1>2, <1>3, AbsorbLine, UnchangedGrow DEF Inv

LEMMA ConfirmKeeps == ASSUME Inv, NEW p \in Packets, ConfirmEvent(p) PROVE Inv'
<1>1. Unread /\ Advance(p, [led.packets[p] EXCEPT !.via = "confirmed"]) /\ EventFrame
      /\ UNCHANGED sidecars
  BY DEF ConfirmEvent, Applying
<1>2. PICK k \in Pkt : k = [led.packets[p] EXCEPT !.via = "confirmed"]
  BY CurrentEntry DEF Pkt, Via
<1>3. EntrySound(p, k)'
  BY <1>1, <1>2, CurrentEntry DEF EntrySound, Pkt, sidecars, DeadLetterReasons
<1> QED BY <1>1, <1>2, <1>3, AbsorbLine, UnchangedGrow DEF Inv

LEMMA ReleaseReviewKeeps ==
  ASSUME Inv, NEW p \in Packets, ReleaseReviewFailed(p) PROVE Inv'
<1>1. Unread /\ EventFrame /\ UNCHANGED sidecars
      /\ Advance(p, [led.packets[p] EXCEPT !.state = "SOL_ADJUDICATE", !.via = Line.name])
  BY DEF ReleaseReviewFailed, Applying
<1>v. Line.name \in Via /\ "SOL_ADJUDICATE" \in STATES
  BY <1>1, LineType DEF STATES, Via, Event
<1>2. PICK k \in Pkt :
        k = [led.packets[p] EXCEPT !.state = "SOL_ADJUDICATE", !.via = Line.name]
  BY <1>v, CurrentEntry DEF Pkt
<1>3. EntrySound(p, k)'
  BY <1>1, <1>2, CurrentEntry DEF EntrySound, Pkt, sidecars, FRESH, ReleaseReviewFailed, Applying, Rule
<1> QED BY <1>1, <1>2, <1>3, AbsorbLine, UnchangedGrow DEF Inv

\* An entry with a new state, run, failure count and via.
LEMMA Requeued ==
  ASSUME NEW k \in Pkt, NEW s \in STATES, NEW r \in Runs \cup {NoRun}, NEW n \in Nat, NEW v \in Via
  PROVE  [k EXCEPT !.state = s, !.run = r, !.pre_spawn_failures = n, !.via = v] \in Pkt
BY DEF Pkt

\* A pre-spawn failure frees the run id: the stale-run rule has already dropped
\* the failures of any other run.
LEMMA PreSpawnKeeps == ASSUME Inv, NEW p \in Packets, PreSpawnFailure(p) PROVE Inv'
<1> DEFINE old == led.packets[p]
           n   == old.pre_spawn_failures + 1
           duty  == [old EXCEPT !.state = "DUTY_REVIEW", !.run = NoRun,
                       !.pre_spawn_failures = n, !.via = "pre_spawn_failure_exhausted"]
           queue == [old EXCEPT !.state = "DISPATCHABLE",
                       !.run = IF OtherRun(old, Line) THEN @ ELSE NoRun,
                       !.pre_spawn_failures = n, !.via = "pre_spawn_failure_retryable"]
<1>1. Unread /\ EventFrame /\ UNCHANGED sidecars /\ ~OtherRun(old, Line)
      /\ (Advance(p, duty) \/ Advance(p, queue))
  BY DEF PreSpawnFailure, Applying, Rule, StaleRun
<1>2. CASE Advance(p, duty)
  <2>1. PICK k \in Pkt : k = duty
    <3>1. "DUTY_REVIEW" \in STATES /\ "pre_spawn_failure_exhausted" \in Via
      BY DEF STATES, Via
    <3>2. old \in Pkt /\ n \in Nat
      BY CurrentEntry DEF Pkt
    <3> QED BY <3>1, <3>2, Requeued
  <2>2. EntrySound(p, k)'
    BY <1>1, <2>1, CurrentEntry DEF EntrySound, Pkt, sidecars, FRESH
  <2> QED BY <1>1, <1>2, <2>1, <2>2, AbsorbLine, UnchangedGrow DEF Inv
<1>3. CASE Advance(p, queue)
  <2>1. PICK k \in Pkt : k = queue
    <3>1. "DISPATCHABLE" \in STATES /\ "pre_spawn_failure_retryable" \in Via
      BY DEF STATES, Via
    <3>2. old \in Pkt /\ n \in Nat /\ (IF OtherRun(old, Line) THEN old.run ELSE NoRun) = NoRun
      BY <1>1, CurrentEntry DEF Pkt
    <3>3. queue = [old EXCEPT !.state = "DISPATCHABLE", !.run = NoRun,
                     !.pre_spawn_failures = n, !.via = "pre_spawn_failure_retryable"]
      BY <3>2
    <3> QED BY <3>1, <3>2, <3>3, Requeued
  <2>2. EntrySound(p, k)'
    BY <1>1, <2>1, CurrentEntry DEF EntrySound, Pkt, sidecars, FRESH
  <2> QED BY <1>1, <1>3, <2>1, <2>2, AbsorbLine, UnchangedGrow DEF Inv
<1> QED BY <1>1, <1>2, <1>3

\* Whatever rule gives a packet up leaves its dead-letter file.
LEMMA DeadLetterKeeps ==
  ASSUME Inv, Unread, NEW p \in Packets, NEW reason \in DeadLetterReasons,
         ToDeadLetter(p, led.packets[p], reason), EventFrame, SidecarsGrow
  PROVE  Inv'
<1>1. PICK k \in Pkt : k = [led.packets[p] EXCEPT !.state = "DEAD_LETTER", !.via = reason]
  <2>1. "DEAD_LETTER" \in STATES /\ reason \in Via
    BY DEF STATES, Via, DeadLetterReasons
  <2> QED BY <2>1, CurrentEntry DEF Pkt
<1>2. k.replans = led.packets[p].replans /\ k.retries = led.packets[p].retries
      /\ k.state = "DEAD_LETTER" /\ k.via = reason
  BY <1>1, CurrentEntry DEF Pkt
<1>3. p \in deadLetters' /\ Advance(p, k)
  BY <1>1 DEF ToDeadLetter
<1>4. EntrySound(p, k)'
  <2>1. k.replans <= replanCount'[p] /\ k.replans <= REPLAN_CAP
        /\ k.retries <= retryCount'[p] /\ k.retries <= TIMEOUT_RETRY_MAX
    <3>1. PICK old \in Pkt : old = led.packets[p]
      BY CurrentEntry
    <3>2. EntrySound(p, old)'
      BY <3>1, CurrentEntry, GrowthKeepsSound DEF Inv
    <3> QED BY <1>2, <3>1, <3>2 DEF EntrySound
  <2>2. k.state \notin FRESH /\ k.via # "replan_cap_forced_l4"
    BY <1>2 DEF FRESH, DeadLetterReasons
  <2> QED BY <1>3, <2>1, <2>2 DEF EntrySound
<1> QED BY <1>1, <1>3, <1>4, AbsorbLine

\* The three rules that dead-letter without touching a counter.
LEMMA GiveUpKeeps ==
  ASSUME Inv, NEW p \in Packets, OffTable(p) \/ ReportMissing(p) \/ DutyRecordedOnly(p)
  PROVE  Inv'
<1>1. PICK reason \in DeadLetterReasons :
        Unread /\ ToDeadLetter(p, led.packets[p], reason) /\ EventFrame
        /\ UNCHANGED <<replanCount, retryCount, l4Queue>>
  BY DEF OffTable, ReportMissing, DutyRecordedOnly, Applying, DeadLetterReasons
<1>2. SidecarsGrow
  BY <1>1 DEF Inv, TypeOK, SidecarsGrow, ToDeadLetter
<1> QED BY <1>1, <1>2, DeadLetterKeeps

\* A row taken by a rule that does not bump a counter (t22 and t37 do).
LEMMA EnterSound ==
  ASSUME Inv, NEW p \in Packets, NEW r \in T, r \in Selected(p),
         NEW k \in Pkt, k = Enter(led.packets[p], r, Line),
         r.num \notin {22, 37}, UNCHANGED sidecars
  PROVE  EntrySound(p, k)'
<1>1. k.replans = led.packets[p].replans /\ k.retries = led.packets[p].retries
      /\ k.state = r.to /\ k.via = r.on
  BY DEF Enter, Selected
<1>2. k.replans <= replanCount'[p] /\ k.replans <= REPLAN_CAP
      /\ k.retries <= retryCount'[p] /\ k.retries <= TIMEOUT_RETRY_MAX
  BY <1>1, CurrentEntry DEF EntrySound, sidecars
<1>3. k.state \in FRESH /\ k.run # NoRun => k.replans > 0
  <2>1. CASE r.on = "retry_dispatch"
    BY <2>1 DEF Enter
  <2>2. CASE r.to \in FRESH /\ r.on # "retry_dispatch"
    <3>1. r.from \in FRESH /\ r.on # "dispatched"
      BY <2>2, FreshRows, DispatchRows DEF FRESH
    <3>2. k.run = led.packets[p].run /\ led.packets[p].state \in FRESH
      BY <2>2, <3>1 DEF Enter, Selected
    <3> QED BY <1>1, <3>2, CurrentEntry DEF EntrySound
  <2> QED BY <1>1, <2>1, <2>2
<1>4. k.via \notin DeadLetterReasons /\ k.via # "replan_cap_forced_l4"
  BY <1>1, VerdictRows
<1> QED BY <1>2, <1>3, <1>4 DEF EntrySound

LEMMA TakeRowKeeps == ASSUME Inv, NEW p \in Packets, TakeRow(p) PROVE Inv'
<1>1. PICK r \in Selected(p) :
        /\ r.num \notin {22, 35, 37} /\ Advance(p, Enter(led.packets[p], r, Line))
        /\ Unread /\ EventFrame /\ UNCHANGED sidecars
  BY DEF TakeRow, Applying
<1>2. r \in T BY DEF Selected
<1>3. PICK k \in Pkt : k = Enter(led.packets[p], r, Line)
  BY <1>1, <1>2, LineType, CurrentEntry, EnterType
<1>4. EntrySound(p, k)'
  BY <1>1, <1>2, <1>3, EnterSound
<1> QED BY <1>1, <1>3, <1>4, AbsorbLine, UnchangedGrow DEF Inv

LEMMA L2ExecFailedKeeps == ASSUME Inv, NEW p \in Packets, L2ExecFailed(p) PROVE Inv'
<1> DEFINE sol(k) == [k EXCEPT !.state = "SOL_ADJUDICATE", !.via = "l2_attempts_exhausted"]
<1>1. PICK r \in Selected(p) :
        /\ r.num = 35
        /\ Advance(p, Enter(led.packets[p], r, Line)) \/ Advance(p, sol(Enter(led.packets[p], r, Line)))
        /\ Unread /\ EventFrame /\ UNCHANGED sidecars
  BY DEF L2ExecFailed, Applying
<1>2. r \in T BY DEF Selected
<1>3. PICK k \in Pkt : k = Enter(led.packets[p], r, Line)
  BY <1>1, <1>2, LineType, CurrentEntry, EnterType
<1>4. EntrySound(p, k)'
  BY <1>1, <1>2, <1>3, EnterSound
<1>5. PICK s \in Pkt : s = sol(k)
  <2>1. "SOL_ADJUDICATE" \in STATES /\ "l2_attempts_exhausted" \in Via
    BY DEF STATES, Via
  <2> QED BY <2>1 DEF Pkt
<1>6. EntrySound(p, s)'
  BY <1>4, <1>5 DEF EntrySound, Pkt, FRESH
<1>7. CASE Advance(p, k)
  BY <1>1, <1>4, <1>7, AbsorbLine, UnchangedGrow DEF Inv
<1>8. CASE Advance(p, s)
  BY <1>1, <1>6, <1>8, AbsorbLine, UnchangedGrow DEF Inv
<1> QED BY <1>1, <1>3, <1>5, <1>7, <1>8

\* What one bump does to a counter, and what it says about the cap.
LEMMA BumpFacts ==
  ASSUME NEW count \in [Packets -> Nat], NEW p \in Packets, NEW cap \in Nat,
         NEW b \in BumpOutcomes(count, p, cap)
  PROVE  /\ b.count \in [Packets -> Nat]
         /\ \A q \in Packets : count[q] <= b.count[q]
         /\ ~b.exceeded => b.count[p] = count[p] + 1 /\ count[p] + 1 <= cap
<1>1. CASE b = [count |-> [count EXCEPT ![p] = @ + 1], exceeded |-> count[p] + 1 > cap]
  <2>1. b.count = [count EXCEPT ![p] = @ + 1]
    BY <1>1
  <2>2. b.exceeded = (count[p] + 1 > cap)
    BY <1>1, Zenon
  <2>3. ~b.exceeded => count[p] + 1 <= cap
    <3>1. ~(count[p] + 1 > cap) => count[p] + 1 <= cap
      OBVIOUS
    <3> QED BY <2>2, <3>1, Zenon
  <2> QED BY <2>1, <2>3
<1>2. CASE b = [count |-> count, exceeded |-> TRUE]
  BY <1>2
<1> QED BY <1>1, <1>2 DEF BumpOutcomes

\* t22: the entry's replans grow with the counter, and only up to the cap.
LEMMA ReplanKeeps == ASSUME Inv, NEW p \in Packets, Replan(p) PROVE Inv'
<1>1. PICK r \in Selected(p), b \in BumpOutcomes(replanCount, p, REPLAN_CAP) :
        /\ r.num = 22 /\ replanCount' = b.count
        /\ \/ /\ b.exceeded /\ l4Queue' = l4Queue \cup {p}
              /\ Advance(p, [led.packets[p] EXCEPT !.via = "replan_cap_forced_l4"])
           \/ /\ ~b.exceeded /\ Advance(p, Enter(led.packets[p], r, Line))
              /\ UNCHANGED l4Queue
        /\ Unread /\ EventFrame /\ UNCHANGED <<retryCount, deadLetters>>
  BY DEF Replan, Applying
<1>2. /\ b.count \in [Packets -> Nat]
      /\ \A q \in Packets : replanCount[q] <= b.count[q]
      /\ ~b.exceeded => b.count[p] = replanCount[p] + 1 /\ replanCount[p] + 1 <= REPLAN_CAP
  BY BumpFacts DEF Inv, TypeOK, REPLAN_CAP
<1>3. SidecarsGrow
  <2>1. l4Queue' \subseteq Packets /\ l4Queue \subseteq l4Queue'
    BY <1>1 DEF Inv, TypeOK
  <2>2. \A q \in Packets : retryCount[q] <= retryCount'[q]
    BY <1>1 DEF Inv, TypeOK
  <2> QED BY <1>1, <1>2, <2>1, <2>2 DEF Inv, TypeOK, SidecarsGrow
<1>4. PICK old \in Pkt : old = led.packets[p] /\ EntrySound(p, old)
  BY CurrentEntry
<1>5. EntrySound(p, old)'
  BY <1>3, <1>4, GrowthKeepsSound DEF Inv
<1>6. CASE b.exceeded
  <2>1. PICK k \in Pkt : k = [old EXCEPT !.via = "replan_cap_forced_l4"]
    BY DEF Pkt, Via
  <2>2. EntrySound(p, k)'
    BY <1>1, <1>5, <1>6, <2>1 DEF EntrySound, Pkt, DeadLetterReasons
  <2> QED BY <1>1, <1>3, <1>4, <1>6, <2>1, <2>2, AbsorbLine
<1>7. CASE ~b.exceeded
  <2>1. r \in T /\ r.on = Line.name BY DEF Selected
  <2>2. PICK k \in Pkt : k = Enter(old, r, Line)
    BY <1>1, <1>4, <2>1, LineType, EnterType
  <2>3. k.replans = old.replans + 1 /\ k.retries = old.retries /\ k.via = r.on
    BY <1>1, <2>1, <2>2 DEF Enter
  <2>4. k.replans <= replanCount'[p] /\ k.replans <= REPLAN_CAP /\ k.replans > 0
    <3>1. old.replans \in Nat /\ replanCount[p] \in Nat /\ old.replans <= replanCount[p]
      BY <1>4 DEF EntrySound, Pkt, Inv, TypeOK
    <3>2. replanCount'[p] = replanCount[p] + 1 /\ replanCount[p] + 1 <= REPLAN_CAP
      BY <1>1, <1>2, <1>7
    <3> QED BY <2>3, <3>1, <3>2 DEF REPLAN_CAP
  <2>5. k.via \notin DeadLetterReasons /\ k.via # "replan_cap_forced_l4"
    BY <2>1, <2>3, VerdictRows
  <2>6. EntrySound(p, k)'
    BY <1>5, <2>3, <2>4, <2>5 DEF EntrySound
  <2> QED BY <1>1, <1>3, <1>4, <1>7, <2>2, <2>6, AbsorbLine
<1> QED BY <1>6, <1>7

\* t37: likewise for timeout retries; past the budget the packet is dead-lettered.
LEMMA TimeoutRetryKeeps == ASSUME Inv, NEW p \in Packets, TimeoutRetry(p) PROVE Inv'
<1>1. PICK r \in Selected(p), b \in BumpOutcomes(retryCount, p, TIMEOUT_RETRY_MAX) :
        /\ r.num = 37 /\ retryCount' = b.count
        /\ \/ /\ b.exceeded
              /\ ToDeadLetter(p, led.packets[p], "timeout_retry_exhausted")
           \/ /\ ~b.exceeded /\ Advance(p, Enter(led.packets[p], r, Line))
              /\ UNCHANGED deadLetters
        /\ Unread /\ EventFrame /\ UNCHANGED <<replanCount, l4Queue>>
  BY DEF TimeoutRetry, Applying
<1>2. /\ b.count \in [Packets -> Nat]
      /\ \A q \in Packets : retryCount[q] <= b.count[q]
      /\ ~b.exceeded => b.count[p] = retryCount[p] + 1 /\ retryCount[p] + 1 <= TIMEOUT_RETRY_MAX
  BY BumpFacts DEF Inv, TypeOK, TIMEOUT_RETRY_MAX
<1>3. SidecarsGrow
  <2>1. deadLetters' \subseteq Packets /\ deadLetters \subseteq deadLetters'
    BY <1>1 DEF Inv, TypeOK, ToDeadLetter
  <2>2. \A q \in Packets : replanCount[q] <= replanCount'[q]
    BY <1>1 DEF Inv, TypeOK
  <2> QED BY <1>1, <1>2, <2>1, <2>2 DEF Inv, TypeOK, SidecarsGrow
<1>4. PICK old \in Pkt : old = led.packets[p] /\ EntrySound(p, old)
  BY CurrentEntry
<1>5. EntrySound(p, old)'
  BY <1>3, <1>4, GrowthKeepsSound DEF Inv
<1>6. CASE b.exceeded
  <2>1. "timeout_retry_exhausted" \in DeadLetterReasons BY DEF DeadLetterReasons
  <2> QED BY <1>1, <1>3, <1>6, <2>1, DeadLetterKeeps
<1>7. CASE ~b.exceeded
  <2>1. r \in T /\ r.on = Line.name BY DEF Selected
  <2>2. PICK k \in Pkt : k = Enter(old, r, Line)
    BY <1>1, <1>4, <2>1, LineType, EnterType
  <2>3. k.retries = old.retries + 1 /\ k.replans = old.replans /\ k.via = r.on /\ k.run = NoRun
    BY <1>1, <2>1, <2>2, RetryRow DEF Enter
  <2>4. k.retries <= retryCount'[p] /\ k.retries <= TIMEOUT_RETRY_MAX
    <3>1. old.retries \in Nat /\ old.retries <= retryCount[p] /\ retryCount[p] \in Nat
      BY <1>4 DEF EntrySound, Pkt, Inv, TypeOK
    <3>2. retryCount' = b.count  BY <1>1
    <3> QED  BY <1>2, <1>7, <2>3, <3>1, <3>2 DEF TIMEOUT_RETRY_MAX
  <2>5. k.via \notin DeadLetterReasons /\ k.via # "replan_cap_forced_l4"
    BY <2>1, <2>3, VerdictRows
  <2>6. EntrySound(p, k)'
    BY <1>5, <2>3, <2>4, <2>5 DEF EntrySound
  <2> QED BY <1>1, <1>3, <1>4, <1>7, <2>2, <2>6, AbsorbLine
<1> QED BY <1>6, <1>7

-----------------------------------------------------------------------------
(* The rest of the step, the crash and the producers. *)

LEMMA ApplyEventKeeps == ASSUME Inv, ApplyEvent PROVE Inv'
BY SkipKeeps, IgnoreStaleKeeps, PreSpawnKeeps, ConfirmKeeps, ReleaseReviewKeeps,
   GiveUpKeeps, TakeRowKeeps, ReplanKeeps, TimeoutRetryKeeps, L2ExecFailedKeeps
   DEF ApplyEvent

\* Beginning a step and losing one both start over from the committed ledger.
LEMMA RestartKeeps == ASSUME Inv, StepBegin \/ Crash PROVE Inv'
<1> USE DEF StepBegin, Crash, sidecars, evidence
<1>1. TypeOK'
  BY ConstantsOK DEF Inv, TypeOK, ConstantsOK
<1>2. CursorSound'
  BY DEF Inv, TypeOK, Ledger, Sound, CursorSound, AppliedExactlyOnce
<1>3. \A p \in Packets : EntrySound(p, disk.packets[p])' /\ EntrySound(p, led.packets[p])'
  BY DEF Inv, Sound, EntrySound
<1> QED BY <1>1, <1>2, <1>3 DEF Inv, Sound

LEMMA ReconcileKeeps == ASSUME Inv, Reconcile PROVE Inv'
<1> USE DEF Reconcile, sidecars, evidence
<1> DEFINE moved(k) == [k EXCEPT !.state = "REPORTED", !.via = "report_file_fallback"]
<1>1. \A k \in Pkt : /\ moved(k) \in Pkt /\ moved(k).state = "REPORTED"
                     /\ moved(k).via = "report_file_fallback" /\ moved(k).run = k.run
                     /\ moved(k).replans = k.replans /\ moved(k).retries = k.retries
  <2>1. "REPORTED" \in STATES /\ "report_file_fallback" \in Via
    BY DEF STATES, Via
  <2> QED BY <2>1 DEF Pkt
<1> DEFINE now == [p \in Packets |->
                     IF Reconciled(p) THEN moved(led.packets[p]) ELSE led.packets[p]]
<1>2. led' = [packets |-> now, cursor |-> led.cursor, applied |-> led.applied]
      /\ now \in [Packets -> Pkt]
  BY <1>1, CurrentEntry DEF Hold
<1>3. led'.cursor = led.cursor /\ led'.applied = led.applied /\ led' \in Ledger
  <2> HIDE DEF now
  <2> QED BY <1>2 DEF Inv, TypeOK, Ledger
<1>4. TypeOK'
  BY <1>3 DEF Inv, TypeOK
<1>5. CursorSound'
  BY <1>3 DEF Inv, TypeOK, Ledger, Sound, CursorSound, AppliedExactlyOnce
<1>6. ASSUME NEW p \in Packets PROVE EntrySound(p, led.packets[p])'
  <2>1. led'.packets[p] \in {led.packets[p], moved(led.packets[p])}
    <3>1. led'.packets = now BY <1>2
    <3>2. now[p] \in {led.packets[p], moved(led.packets[p])} OBVIOUS
    <3> QED BY <3>1, <3>2
  <2>2. CASE led'.packets[p] = led.packets[p]
    BY <2>2, CurrentEntry DEF EntrySound
  <2>3. CASE led'.packets[p] = moved(led.packets[p])
    <3>1. PICK k \in Pkt : k = moved(led.packets[p]) /\ k.state = "REPORTED"
            /\ k.via = "report_file_fallback" /\ k.replans = led.packets[p].replans
            /\ k.retries = led.packets[p].retries
      BY <1>1, CurrentEntry
    <3> QED BY <2>3, <3>1, CurrentEntry DEF EntrySound, FRESH
  <2> QED BY <2>1, <2>2, <2>3
<1>7. \A p \in Packets : EntrySound(p, disk.packets[p])'
  BY DEF Inv, Sound, EntrySound
<1> QED BY <1>4, <1>5, <1>6, <1>7 DEF Inv, Sound

\* The watchdog appends an event and times the packet out in memory.
LEMMA WatchdogKeeps == ASSUME Inv, NEW p \in Packets, WatchdogTimeout(p) PROVE Inv'
<1> USE DEF WatchdogTimeout, sidecars, evidence
<1>1. "timeout" \in EventNames /\ "TIMED_OUT" \in STATES
  <2>1. Row("RUNNING", "timeout", "TIMED_OUT", 5) \in T BY DEF T
  <2> QED BY <2>1 DEF EventNames, Row, STATES
<1>2. log' \in Seq(Event) /\ Len(log') = Len(log) + 1
  BY <1>1 DEF Inv, TypeOK, Event
<1> DEFINE k == [led.packets[p] EXCEPT !.state = "TIMED_OUT", !.via = "timeout"]
<1>3. led' = [packets |-> [led.packets EXCEPT ![p] = k],
               cursor |-> led.cursor, applied |-> led.applied]
  BY DEF Hold
<1>4. k \in Pkt
  BY <1>1, CurrentEntry DEF Pkt, Via
<1>5. led'.cursor = led.cursor /\ led'.applied = led.applied /\ led' \in Ledger
  BY <1>3, <1>4 DEF Inv, TypeOK, Ledger
<1>6. TypeOK'
  BY <1>2, <1>5 DEF Inv, TypeOK
<1>7. CursorSound'
  BY <1>2, <1>5 DEF Inv, TypeOK, Ledger, Sound, CursorSound, AppliedExactlyOnce
<1>8. ASSUME NEW q \in Packets PROVE EntrySound(q, led.packets[q])'
  <2>1. CASE q = p
    <3>1. led'.packets[q] = k
      BY <1>3, <2>1 DEF Inv, TypeOK, Ledger
    <3>2. k.state = "TIMED_OUT" /\ k.via = "timeout" /\ k.replans = led.packets[p].replans
          /\ k.retries = led.packets[p].retries
      BY CurrentEntry DEF Pkt
    <3> HIDE DEF k
    <3> QED BY <2>1, <3>1, <3>2, CurrentEntry DEF EntrySound, FRESH
  <2>2. CASE q # p
    <3>1. led'.packets[q] = led.packets[q]
      BY <1>3, <2>2 DEF Inv, TypeOK, Ledger
    <3> QED BY <3>1, CurrentEntry DEF EntrySound
  <2> QED BY <2>1, <2>2
<1>9. \A q \in Packets : EntrySound(q, disk.packets[q])'
  BY DEF Inv, Sound, EntrySound
<1> QED BY <1>6, <1>7, <1>8, <1>9 DEF Inv, Sound

\* The commit: the log is cut exactly at the cursor that is saved with the ledger.
LEMMA CommitKeeps == ASSUME Inv, Commit PROVE Inv'
<1> USE DEF Commit, sidecars, evidence
<1> DEFINE n == led.cursor - disk.cursor
<1>1. n \in 0..Len(log)
  BY DEF Inv, TypeOK, Ledger, Sound, CursorSound
<1>2. log' = SubSeq(log, n + 1, Len(log)) /\ log' \in Seq(Event)
  BY <1>1 DEF Inv, TypeOK
<1>3. TypeOK'
  BY <1>2 DEF Inv, TypeOK
<1>4. CursorSound'
  BY <1>2 DEF Inv, TypeOK, Ledger, Sound, CursorSound, AppliedExactlyOnce
<1>5. \A p \in Packets : EntrySound(p, disk.packets[p])' /\ EntrySound(p, led.packets[p])'
  BY DEF Inv, Sound, EntrySound
<1> QED BY <1>3, <1>4, <1>5 DEF Inv, Sound

\* Producers add events, reports and stamps; the ledgers stay as they are.
LEMMA EnvironmentKeeps == ASSUME Inv, Environment PROVE Inv'
<1> USE DEF sidecars, evidence
<1>1. UNCHANGED <<disk, led, pc, sidecars, crashes>>
  BY DEF Environment, Produce, PrepareReportSlot, RecordSpawnTime, PublishReport
<1>2. \A p \in Packets : EntrySound(p, disk.packets[p])' /\ EntrySound(p, led.packets[p])'
  BY <1>1 DEF Inv, Sound, EntrySound
<1>3. CASE \E e \in Inputs : Produce(e)
  <2>1. PICK e \in Event : log' = Append(log, e) /\ UNCHANGED evidence
    BY <1>3, ConstantsOK DEF Produce, ConstantsOK
  <2>2. log' \in Seq(Event) /\ Len(log') = Len(log) + 1
    BY <2>1 DEF Inv, TypeOK
  <2>3. TypeOK'
    BY <1>1, <2>1, <2>2 DEF Inv, TypeOK
  <2>4. CursorSound'
    BY <1>1, <2>2 DEF Inv, TypeOK, Ledger, Sound, CursorSound, AppliedExactlyOnce
  <2> QED BY <1>2, <2>3, <2>4 DEF Inv, Sound
<1>4. CASE \/ \E p \in Packets : PrepareReportSlot(p) \/ PublishReport(p)
           \/ \E p \in Packets, r \in Runs : RecordSpawnTime(p, r)
  <2>1. log' = log
    BY <1>4 DEF PrepareReportSlot, PublishReport, RecordSpawnTime
  <2>2. report' \in [Packets -> {"absent", "invalid", "stale", "current"}]
    BY <1>4 DEF PrepareReportSlot, PublishReport, RecordSpawnTime, Inv, TypeOK
  <2>3. spawnTimes' \in [Packets -> [att : Nat \cup {NoAttempt}, run : Runs \cup {NoRun}]]
    <3>1. CASE UNCHANGED spawnTimes
      BY <3>1 DEF Inv, TypeOK
    <3>2. CASE \E p \in Packets, r \in Runs : RecordSpawnTime(p, r)
      <4>1. PICK p \in Packets, r \in Runs :
              spawnTimes' = [spawnTimes EXCEPT ![p] =
                               [att |-> disk.packets[p].attempts, run |-> r]]
        BY <3>2 DEF RecordSpawnTime
      <4>2. [att |-> disk.packets[p].attempts, run |-> r]
              \in [att : Nat \cup {NoAttempt}, run : Runs \cup {NoRun}]
        BY DEF Inv, TypeOK, Ledger, Pkt
      <4> QED BY <4>1, <4>2 DEF Inv, TypeOK
    <3> QED BY <1>4, <3>1, <3>2 DEF PrepareReportSlot, PublishReport
  <2>4. TypeOK'
    BY <1>1, <2>1, <2>2, <2>3 DEF Inv, TypeOK
  <2>5. CursorSound'
    BY <1>1, <2>1 DEF Inv, Sound, CursorSound, AppliedExactlyOnce
  <2> QED BY <1>2, <2>4, <2>5 DEF Inv, Sound
<1> QED BY <1>3, <1>4 DEF Environment

LEMMA InitSound == Init => Inv
<1> SUFFICES ASSUME Init PROVE Inv OBVIOUS
<1>1. ASSUME NEW p \in Packets PROVE NewPkt(p) \in Pkt
  BY DEF NewPkt, Pkt, STATES, Via
<1>2. disk.packets \in [Packets -> Pkt] /\ \A p \in Packets : disk.packets[p] = NewPkt(p)
  BY <1>1 DEF Init
<1>3. disk.cursor = 0 /\ disk.applied = {} /\ led = disk /\ disk \in Ledger
  BY <1>1 DEF Init, Ledger
<1>4. TypeOK
  BY <1>3, ConstantsOK DEF Init, TypeOK, ConstantsOK, NoStamp
<1>5. CursorSound
  BY <1>3 DEF Init, CursorSound, AppliedExactlyOnce
<1>6. ASSUME NEW p \in Packets PROVE EntrySound(p, disk.packets[p])
  <2>1. NewPkt(p).replans = 0 /\ NewPkt(p).retries = 0 /\ NewPkt(p).run = NoRun
        /\ NewPkt(p).state # "DEAD_LETTER" /\ NewPkt(p).via = "seed"
    BY DEF NewPkt
  <2>2. replanCount[p] = 0 /\ retryCount[p] = 0
    BY DEF Init
  <2> QED BY <1>2, <2>1, <2>2 DEF EntrySound, REPLAN_CAP, TIMEOUT_RETRY_MAX
<1> QED BY <1>3, <1>4, <1>5, <1>6 DEF Inv, Sound

LEMMA NextKeeps == Inv /\ [Next]_vars => Inv'
<1> SUFFICES ASSUME Inv, [Next]_vars PROVE Inv' OBVIOUS
<1>1. CASE Step
  BY <1>1, RestartKeeps, ApplyEventKeeps, ReconcileKeeps, CommitKeeps DEF Step
<1>2. CASE \E p \in Packets : WatchdogTimeout(p)
  BY <1>2, WatchdogKeeps
<1>3. CASE Crash
  BY <1>3, RestartKeeps
<1>4. CASE Environment
  BY <1>4, EnvironmentKeeps
<1>5. CASE UNCHANGED vars
  BY <1>5 DEF vars, sidecars, evidence, Inv, TypeOK, Sound, CursorSound,
              AppliedExactlyOnce, EntrySound
<1> QED BY <1>1, <1>2, <1>3, <1>4, <1>5 DEF Next

-----------------------------------------------------------------------------
(* The theorems. *)

\* The invariant holds in every reachable state, for all constants.
THEOREM Invariance == Spec => []Inv
BY InitSound, NextKeeps, PTL DEF Spec

\* statemachine_v2 keeps the types of its files.
THEOREM TypeCorrect == Spec => []TypeOK
<1>1. Inv => TypeOK BY DEF Inv
<1> QED BY <1>1, Invariance, PTL

\* step() applies every event exactly once, whatever crashes and races it meets.
THEOREM CursorExact == Spec => []AppliedExactlyOnce
<1>1. Inv => AppliedExactlyOnce BY DEF Inv, Sound, CursorSound
<1> QED BY <1>1, Invariance, PTL

\* No packet is replanned more often than REPLAN_CAP.
THEOREM ReplanBudget == Spec => []ReplanCap
<1>1. Inv => ReplanCap BY DEF Inv, Sound, EntrySound, ReplanCap
<1> QED BY <1>1, Invariance, PTL

\* No packet is re-queued after a timeout more often than TIMEOUT_RETRY_MAX.
THEOREM TimeoutBudget == Spec => []TimeoutRetryCap
<1>1. Inv => TimeoutRetryCap BY DEF Inv, Sound, EntrySound, TimeoutRetryCap
<1> QED BY <1>1, Invariance, PTL

\* What the machine gives up on is visible outside the ledger before it is committed.
THEOREM GiveUpVisible == Spec => []FailVisible
<1>1. Inv => FailVisible BY DEF Inv, Sound, EntrySound, FailVisible
<1> QED BY <1>1, Invariance, PTL

\* At most one transport generation is admitted between retries and replans.
THEOREM SingleGeneration == Spec => []OneGeneration
<1>1. Inv => OneGeneration BY DEF Inv, Sound, EntrySound, OneGeneration
<1> QED BY <1>1, Invariance, PTL
=============================================================================
