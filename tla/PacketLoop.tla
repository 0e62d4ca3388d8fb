----------------------------- MODULE PacketLoop -----------------------------
(***************************************************************************)
(* The cold-start loop around a failing packet: the state machine of       *)
(* harness/statemachine.py, the retry table of harness/retry.py that the   *)
(* terminal epilogue (and an operator) runs on every failure, and the duty *)
(* officer of harness/duty_driver.py and harness/duty_route.py.            *)
(*                                                                         *)
(* They share files, not calls.  A step holds progress_ledger.lock, applies*)
(* the unread lines of events.ndjson to the ledger in memory and replaces  *)
(* it; everybody else reads the committed ledger without a lock, decides,  *)
(* and appends a line.  So a decision may be taken on a state that is no   *)
(* longer true, and twice; the claim on a retry's attempt number and the   *)
(* search for an earlier ruling, both under .events.lock, are what keeps   *)
(* two deciders apart.                                                     *)
(***************************************************************************)
EXTENDS PacketTable, Rulings, Sequences, SequencesExt, FiniteSetsExt

CONSTANTS Packets,       \* packets admitted to the ledger
          Classes,       \* names in retry_classes.yaml; "none" is no match
          Action,        \* Action[c]: retry, duty_review or dead_letter
          MaxRetries,    \* MaxRetries[c]: the class's max_retries
          RunBudget,     \* run_level_retry_budget
          EnforceDuty,   \* duty_officer.enforce
          Drivers,       \* processes draining the duty tickets
          MaxReplanned,  \* bound: replans asked for
          MaxManual,     \* bound: retry.py calls by an operator
          MaxFaults      \* bound: epilogues killed between two retry.py calls, and children
                         \* that end without an event or stall past the limit

ASSUME LoopConstants ==
  /\ IsFiniteSet(Packets) /\ IsFiniteSet(Classes) /\ "none" \notin Classes
  /\ Action \in [Classes -> {"retry", "duty_review", "dead_letter"}]
  /\ MaxRetries \in [Classes -> Nat]
  /\ RunBudget \in Nat /\ EnforceDuty \in BOOLEAN
  /\ MaxReplanned \in Nat /\ MaxManual \in Nat /\ MaxFaults \in Nat

Callers == {"epilogue", "operator"}
NoAttempt == -1

\* T of statemachine.py: the v2 table's first twenty-five rows, t37, and a ticket for a timeout.
Table == {r \in T : r.num \in (1..25) \cup {37, 39}}

VARIABLES
  disk,       \* progress_ledger.json with its counter sidecars
  mem,        \* the ledger a running step holds; the committed one when none runs
  stepper,    \* who holds progress_ledger.lock: nobody, the epilogue, a command
  log,        \* the lines of events.ndjson after the ledger's cursor
  claimed,    \* claimed[p]: the attempts of all retry_dispatch lines ever written for p
  ruled,      \* ruled[p]: duty outcomes ever written for p
  lastClass,  \* retry_last_fail_class.json
  tickets,    \* packets with a ticket in duty_review/
  children,   \* children[p]: attempts of p whose supervisor still runs
  report,     \* packets whose report is newer than their spawn stamp
  call,       \* call[c]: the retry.py run of caller c, with what it has read
  epilogue,   \* where the terminal epilogue is
  todo,       \* failed packets the epilogue has still to route
  asked,      \* asked[d]: the packet driver d has put to the duty officer
  manual, faults

ledger == <<disk, mem, stepper>>
files == <<claimed, ruled, lastClass, tickets>>
work == <<children, report>>
deciders == <<call, epilogue, todo, asked, manual>>
vars == <<ledger, log, files, work, deciders, faults>>

NoPacket == "none"
NoCall == [at |-> "idle"]

NewPkt == [state |-> "DISPATCHABLE", attempts |-> 0, timeouts |-> 0, replans |-> 0, reviews |-> 0]

Init ==
  /\ disk = [p \in Packets |-> NewPkt] /\ mem = disk /\ stepper = "nobody"
  /\ log = <<>>
  /\ claimed = [p \in Packets |-> <<>>]
  /\ ruled = [p \in Packets |-> 0]
  /\ lastClass = [p \in Packets |-> "none"]
  /\ tickets = {}
  /\ children = [p \in Packets |-> {}] /\ report = {}
  /\ call = [c \in Callers |-> NoCall] /\ epilogue = "idle" /\ todo = {}
  /\ asked = [d \in Drivers |-> NoPacket] /\ manual = 0 /\ faults = 0

-----------------------------------------------------------------------------
(***************************************************************************)
(* apply_event: one line of the log, for the packet it names.              *)
(***************************************************************************)
Event(p, name, att) == [p |-> p, name |-> name, att |-> att]
Write(lines) == log' = log \o lines
Unread(p, names) == \E i \in DOMAIN log : log[i].p = p /\ log[i].name \in names

Row1(k, e) == {r \in Table : r.from = k.state /\ r.on = e.name}
DeadLetter(k) == [k EXCEPT !.state = "DEAD_LETTER"]

\* bump_replan_counter() and bump_timeout_retry_counter() say that the cap is exceeded.
ReplansSpent(k) == k.replans >= REPLAN_CAP
TimeoutsSpent(k) == k.timeouts >= TIMEOUT_RETRY_MAX

report_is_current(p) == p \in report

\* An older attempt's event, or one that the ledger already reflects.
Absorbed(k, e) ==
  \/ e.att # NoAttempt /\ e.att < k.attempts
  \/ k.state = "REPORTED" /\ e.name = "subagent_stop" /\ report_is_current(e.p)
  \/ k.state = "TIMED_OUT" /\ e.name = "timeout"
  \/ k.state = "DEAD_LETTER" /\ Row1(k, e) = {}
  \/ k.state = "RUNNING" /\ e.name = "dispatched" /\ e.att = k.attempts

\* The row's transition, unless its cap is spent.
Taken(k, r) ==
  CASE r.num = 22 /\ ReplansSpent(k) -> k
    [] r.num = 37 /\ TimeoutsSpent(k) ->
         [DeadLetter(k) EXCEPT !.timeouts = @ + 1]
    [] OTHER ->
         [k EXCEPT !.state = r.to,
                   !.attempts = IF r.num \in {9, 37} THEN @ + 1 ELSE @,
                   !.timeouts = IF r.num = 37 THEN @ + 1 ELSE @,
                   !.replans = IF r.num = 22 THEN @ + 1 ELSE @,
                   !.reviews = IF r.num \in {11, 12} THEN @ + 1 ELSE @]

Applied(k, e) ==
  IF Absorbed(k, e) THEN k
  ELSE IF Row1(k, e) = {} THEN DeadLetter(k)
  ELSE LET r == CHOOSE r \in Row1(k, e) : TRUE IN
       IF r.num = 4 /\ ~report_is_current(e.p) THEN DeadLetter(k)
       ELSE IF r.num \in {11, 12} /\ ~EnforceDuty THEN DeadLetter(k)
       ELSE Taken(k, r)

-----------------------------------------------------------------------------
(***************************************************************************)
(* A step of the state machine: drain, reconcile, watchdog, save.          *)
(***************************************************************************)
StepBegins(who) ==
  /\ stepper = "nobody" /\ stepper' = who
  /\ UNCHANGED <<disk, mem, log, files, work, faults>>

CommandSteps ==
  /\ log # <<>> /\ StepBegins("command")
  /\ UNCHANGED deciders

\* The epilogue's steps are statemachine_v2's, which also tells apart the runs that a replan
\* started under one attempt: an event of a run that is not the current one is left alone.
Superseded(k, e) == stepper = "epilogue" /\ k.replans > 0 /\ e.att = k.attempts

ApplyEvent ==
  /\ stepper # "nobody" /\ log # <<>>
  /\ LET e == Head(log) IN
       \/ mem' = [mem EXCEPT ![e.p] = Applied(@, e)]
       \/ Superseded(mem[e.p], e) /\ UNCHANGED mem
  /\ log' = Tail(log)
  /\ UNCHANGED <<disk, stepper, files, work, deciders, faults>>

\* watchdog(): running past the limit, and no supervisor heartbeats for this attempt.
\* A stalled supervisor does not, and may still report later.
Overdue(p) ==
  /\ mem[p].state = "RUNNING" /\ ~report_is_current(p)
  /\ mem[p].attempts \notin children[p] \/ faults < MaxFaults

\* reconcile() and watchdog() over the whole ledger, then the rename.
StepEnds ==
  /\ stepper # "nobody" /\ log = <<>>
  /\ \E late \in SUBSET {p \in Packets : Overdue(p)} :
       /\ mem' = [p \in Packets |->
                    IF p \in late THEN [mem[p] EXCEPT !.state = "TIMED_OUT"]
                    ELSE IF mem[p].state = "RUNNING" /\ report_is_current(p)
                    THEN [mem[p] EXCEPT !.state = "REPORTED"]
                    ELSE mem[p]]
       /\ log' = SetToSeq({Event(p, "timeout", mem[p].attempts) : p \in late})
       /\ faults' = faults + Cardinality({p \in late : mem[p].attempts \in children[p]})
       /\ faults' <= MaxFaults
  /\ disk' = mem' /\ stepper' = "nobody"
  /\ IF stepper = "epilogue"
     THEN /\ epilogue' = IF epilogue = "steps" THEN "routes" ELSE "idle"
          /\ todo' = IF epilogue = "steps"
                     THEN {p \in Packets : mem'[p].state \in {"FAILED", "TIMED_OUT"}} ELSE {}
     ELSE UNCHANGED <<epilogue, todo>>
  /\ UNCHANGED <<files, children, report, call, asked, manual>>

-----------------------------------------------------------------------------
(***************************************************************************)
(* Around the machine: the dispatcher, the child, the verifier, the human. *)
(***************************************************************************)
Others == UNCHANGED <<ledger, files, deciders>>

\* Dispatcher and supervisor: one launch of an attempt; the old report is moved aside.
Launch(p) ==
  /\ disk[p].state = "DISPATCHABLE" /\ ~Unread(p, {"dispatched"})
  /\ Write(<<Event(p, "dispatched", disk[p].attempts)>>)
  /\ children' = [children EXCEPT ![p] = @ \cup {disk[p].attempts}]
  /\ report' = report \ {p}
  /\ UNCHANGED faults /\ Others

\* The child ends: its supervisor says stop when it left a report, failed otherwise -
\* or is itself killed and says nothing.
ChildEnds(p) ==
  \E n \in children[p] :
    /\ children' = [children EXCEPT ![p] = @ \ {n}]
    /\ \/ /\ report' = report \cup {p} /\ UNCHANGED faults
          /\ Write(<<Event(p, "subagent_stop", n)>>)
       \/ /\ Write(<<Event(p, "exec_failed", n)>>) /\ UNCHANGED <<report, faults>>
       \/ /\ faults < MaxFaults /\ faults' = faults + 1
          /\ report' \in {report, report \cup {p}} /\ UNCHANGED log
    /\ Others

Verdicts == {"acceptance_pass", "acceptance_fail"}
Judge(p) ==
  /\ disk[p].state = "REPORTED" /\ ~Unread(p, Verdicts)
  /\ \E v \in Verdicts : Write(<<Event(p, v, NoAttempt)>>)
  /\ UNCHANGED <<work, faults>> /\ Others

\* Escalations are answered by a person: triage, replan, release to the queue again.
Human(p) ==
  /\ \E r \in Table :
       /\ r.on \in {"dead_letter_summary", "sol_replan", "dag_assert_pass"}
       /\ r.from = disk[p].state /\ ~Unread(p, {r.on})
       /\ r.on = "sol_replan" => disk[p].replans < MaxReplanned
       /\ Write(<<Event(p, r.on, NoAttempt)>>)
  /\ UNCHANGED <<work, faults>> /\ Others

-----------------------------------------------------------------------------
(***************************************************************************)
(* retry.py, run by caller c for packet p.                                 *)
(***************************************************************************)
Spent == MapThenSumSet(LAMBDA p : disk[p].attempts, Packets)

RetryFrame == UNCHANGED <<ledger, ruled, work, epilogue, asked, faults>>

\* The ledger is read once, without a lock; a packet that is not failed is left alone.
RetryReads(c, p) ==
  /\ call[c] = NoCall
  /\ call' = [call EXCEPT ![c] =
                IF disk[p].state \notin {"FAILED", "TIMED_OUT"} THEN NoCall
                ELSE [at |-> "classify", p |-> p, attempts |-> disk[p].attempts, spent |-> Spent]]
  /\ UNCHANGED <<log, claimed, lastClass, tickets>> /\ RetryFrame

\* The circuit breaker is open, or no class matches the failure text.
Unclassified(c) ==
  /\ call[c].at = "classify"
  /\ call' = [call EXCEPT ![c] = [at |-> "duty_review", p |-> call[c].p]]
  /\ UNCHANGED <<log, claimed, lastClass, tickets, todo, manual>> /\ RetryFrame

\* Mutants: one retry too many, or no second look at a class that failed twice.
Decision_Late(k, last, attempts, spent) ==
  IF last = k \/ Action[k] = "duty_review" THEN "duty_review"
  ELSE IF Action[k] = "dead_letter" \/ attempts > MaxRetries[k] \/ spent >= RunBudget
       THEN "budget_exhausted"
  ELSE "retry_dispatch"
Decision_NoRepeat(k, last, attempts, spent) ==
  IF Action[k] = "duty_review" THEN "duty_review"
  ELSE IF Action[k] = "dead_letter" \/ attempts >= MaxRetries[k] \/ spent >= RunBudget
       THEN "budget_exhausted"
  ELSE "retry_dispatch"

\* What the table says of a failure of class k, the last one being of class last.
Decision(k, last, attempts, spent) ==
  IF last = k \/ Action[k] = "duty_review" THEN "duty_review"
  ELSE IF Action[k] = "dead_letter" \/ attempts >= MaxRetries[k] \/ spent >= RunBudget
       THEN "budget_exhausted"
  ELSE "retry_dispatch"

\* The last class is read, and this one recorded, in a sidecar.
Classifies(c) ==
  /\ call[c].at = "classify"
  /\ LET r == call[c] IN
     \E k \in Classes :
       /\ call' = [call EXCEPT ![c] =
                     [at |-> Decision(k, lastClass[r.p], r.attempts, r.spent),
                      p |-> r.p, attempts |-> r.attempts]]
       /\ lastClass' = [lastClass EXCEPT ![r.p] = k]
  /\ UNCHANGED <<log, claimed, tickets, todo, manual>> /\ RetryFrame

\* Mutant: the packet is referred and no ticket is left for the driver.
write_ticket_None(p) == UNCHANGED tickets

\* The duty officer's ticket.
write_ticket(p) == tickets' = tickets \cup {p}

\* The event is appended as it is, then the ticket is left.
Refers(c) ==
  /\ call[c].at = "duty_review"
  /\ Write(<<Event(call[c].p, "duty_review", NoAttempt)>>)
  /\ write_ticket(call[c].p)
  /\ call' = [call EXCEPT ![c] = NoCall]
  /\ UNCHANGED <<claimed, lastClass, todo, manual>> /\ RetryFrame

\* dead_letter(): the record of it is for a person; the event is appended as it is.
GivesUp(c) ==
  /\ call[c].at = "budget_exhausted"
  /\ Write(<<Event(call[c].p, "budget_exhausted", NoAttempt)>>)
  /\ call' = [call EXCEPT ![c] = NoCall]
  /\ UNCHANGED <<tickets, claimed, lastClass, todo, manual>> /\ RetryFrame

\* Mutant: the log is not searched for the attempt's retry.
has_retry_dispatch_Never(p, n) == FALSE

has_retry_dispatch(p, n) == n \in {claimed[p][i] : i \in DOMAIN claimed[p]}

\* Under .events.lock: one retry_dispatch per attempt.
Claims(c) ==
  /\ call[c].at = "retry_dispatch"
  /\ LET p == call[c].p
         n == call[c].attempts + 1 IN
     IF has_retry_dispatch(p, n) THEN UNCHANGED <<log, claimed>>
     ELSE /\ Write(<<Event(p, "retry_dispatch", n)>>)
          /\ claimed' = [claimed EXCEPT ![p] = Append(@, n)]
  /\ call' = [call EXCEPT ![c] = NoCall]
  /\ UNCHANGED <<lastClass, tickets, todo, manual>> /\ RetryFrame

RetryRuns(c) == Unclassified(c) \/ Classifies(c) \/ Refers(c) \/ GivesUp(c) \/ Claims(c)

OperatorRetries ==
  /\ manual < MaxManual /\ manual' = manual + 1
  /\ \E p \in Packets : disk[p].state \in {"FAILED", "TIMED_OUT"} /\ RetryReads("operator", p)
  /\ UNCHANGED todo

-----------------------------------------------------------------------------
(***************************************************************************)
(* The terminal epilogue: step, route every failed packet, step again.     *)
(***************************************************************************)
\* Mutant: the failures are read off the ledger as it lies, without a step first.
EpilogueBegins_NoStep ==
  /\ epilogue = "idle"
  /\ epilogue' = "routes"
  /\ todo' = {p \in Packets : disk[p].state \in {"FAILED", "TIMED_OUT"}}
  /\ UNCHANGED <<ledger, log, files, work, call, asked, manual, faults>>

EpilogueBegins ==
  /\ epilogue = "idle" /\ StepBegins("epilogue")
  /\ epilogue' = "steps"
  /\ UNCHANGED <<call, todo, asked, manual>>

EpilogueRoutes ==
  /\ epilogue = "routes"
  /\ \E p \in todo : RetryReads("epilogue", p) /\ todo' = todo \ {p}
  /\ UNCHANGED manual

EpilogueStepsAgain ==
  /\ epilogue = "routes" /\ todo = {} /\ call["epilogue"] = NoCall
  /\ StepBegins("epilogue")
  /\ epilogue' = "again"
  /\ UNCHANGED <<call, todo, asked, manual>>

\* The process dies (and the retry.py it waits for) before its second step.
EpilogueKilled ==
  /\ epilogue = "routes" /\ faults < MaxFaults
  /\ faults' = faults + 1
  /\ epilogue' = "idle" /\ todo' = {} /\ call' = [call EXCEPT !["epilogue"] = NoCall]
  /\ UNCHANGED <<ledger, log, files, work, asked, manual>>

-----------------------------------------------------------------------------
(***************************************************************************)
(* The duty officer.                                                       *)
(***************************************************************************)
\* adjudicate(): a ticket of a packet in review that nobody has ruled on; the
\* officer is a child process and takes up to ten minutes.
Asks(d) ==
  /\ asked[d] = NoPacket
  /\ \E p \in tickets :
       /\ disk[p].state = "DUTY_REVIEW" /\ ruled[p] = 0
       /\ asked' = [asked EXCEPT ![d] = p]
  /\ UNCHANGED <<ledger, log, files, work, call, epilogue, todo, manual, faults>>

\* What the events of every ruling that may come back say, after the gate.
Outcomes == {gate_ruling(r, EnforceDuty) : r \in Ruling}

\* Mutant: the earlier ruling is not looked for again under the lock.
Raced_Never(p) == FALSE

\* prior_outcome() once more, under .events.lock.
Raced(p) == ruled[p] > 0

\* The gate's event; a ticket that says nothing of the failure is ruled duty_terminal.
Rules(d) ==
  /\ asked[d] # NoPacket
  /\ LET p == asked[d] IN
     IF Raced(p) THEN UNCHANGED <<log, ruled>>
     ELSE /\ \E o \in Outcomes : Write(<<Event(p, o, NoAttempt)>>)
          /\ ruled' = [ruled EXCEPT ![p] = @ + 1]
  /\ asked' = [asked EXCEPT ![d] = NoPacket]
  /\ UNCHANGED <<ledger, claimed, lastClass, tickets, work, call, epilogue, todo, manual, faults>>

-----------------------------------------------------------------------------
Steps == CommandSteps \/ ApplyEvent \/ StepEnds
Epilogue == EpilogueBegins \/ EpilogueRoutes \/ EpilogueStepsAgain \/ EpilogueKilled
Retries == \E c \in Callers : RetryRuns(c)
Duty == \E d \in Drivers : Asks(d) \/ Rules(d)
World == \E p \in Packets : Launch(p) \/ ChildEnds(p) \/ Judge(p) \/ Human(p)

Next == Steps \/ Epilogue \/ Retries \/ OperatorRetries \/ Duty \/ World

Spec == Init /\ [][Next]_vars

\* The epilogue runs again on later edges and the step's lock is released; a retry.py,
\* an officer with a ticket and a routed packet are not left half done.
FairSpec ==
  /\ Spec
  /\ WF_vars(ApplyEvent) /\ WF_vars(StepEnds) /\ SF_vars(EpilogueBegins)
  /\ WF_vars(EpilogueRoutes) /\ SF_vars(EpilogueStepsAgain)
  /\ WF_vars(Retries) /\ \A d \in Drivers : WF_vars(Asks(d)) /\ WF_vars(Rules(d))

-----------------------------------------------------------------------------
(***************************************************************************)
(* Properties.                                                             *)
(***************************************************************************)
\* One retry per attempt, whoever called retry.py and how often
\* (retry.py:99 has_retry_dispatch: a second one would dead-letter the packet).
RetryOncePerAttempt ==
  \A p \in Packets : \A i, j \in DOMAIN claimed[p] : claimed[p][i] = claimed[p][j] => i = j

\* A failure is answered once: the loop never has two answers for one packet under way, of
\* which the second would find the packet moved on and dead-letter it (statemachine.py:328
\* off_table_event), however the epilogue is cut short - as long as retry.py is its alone.
Answers == {"retry_dispatch", "duty_review", "budget_exhausted"}
OneAnswer ==
  manual = 0 =>
    \A i, j \in DOMAIN log :
      log[i].name \in Answers /\ log[j].name \in Answers /\ log[i].p = log[j].p => i = j

\* Every failure is answered: retried, referred or given up (terminal_packet_epilogue.py:47 route_terminal_retries).
EveryFailureAnswered ==
  \A p \in Packets : disk[p].state \in {"FAILED", "TIMED_OUT"}
                     ~> disk[p].state \notin {"FAILED", "TIMED_OUT"}

\* A packet in review that was never ruled on is, unless something else ends its review
\* (duty_route.py:120 adjudicate).
EveryReviewRuled ==
  \A p \in Packets : disk[p].state = "DUTY_REVIEW"
                     ~> disk[p].state # "DUTY_REVIEW" \/ ruled[p] > 0

-----------------------------------------------------------------------------
(***************************************************************************)
(* What makes these inductive.                                             *)
(***************************************************************************)
Entries == [state : STATES, attempts : Nat, timeouts : Nat, replans : 0..REPLAN_CAP,
            reviews : {0, 1}]

DutyOutcomes == {"duty_retryable", "duty_fixable", "duty_terminal"}
Sent == {"duty_retryable", "duty_fixable"}

LineNames ==
  {"dispatched", "subagent_stop", "exec_failed", "timeout", "acceptance_pass",
   "acceptance_fail", "dead_letter_summary", "sol_replan", "dag_assert_pass"}
  \cup Answers \cup DutyOutcomes

Lines == [p : Packets, name : LineNames, att : Nat \cup {NoAttempt}]

MaxTries == Max({MaxRetries[k] : k \in Classes} \cup {0})

CallOK(r) ==
  /\ r.at \in {"idle", "classify", "duty_review", "budget_exhausted", "retry_dispatch"}
  /\ r.at # "idle" => r.p \in Packets
  /\ r.at \in {"classify", "retry_dispatch"} => r.attempts \in Nat

TypeOK ==
  /\ disk \in [Packets -> Entries] /\ mem \in [Packets -> Entries]
  /\ stepper \in {"nobody", "command", "epilogue"} /\ log \in Seq(Lines)
  /\ claimed \in [Packets -> Seq(Nat)] /\ ruled \in [Packets -> {0, 1}]
  /\ lastClass \in [Packets -> Classes \cup {"none"}] /\ tickets \subseteq Packets
  /\ children \in [Packets -> SUBSET Nat] /\ report \subseteq Packets
  /\ call = [c \in Callers |-> call[c]] /\ \A c \in Callers : CallOK(call[c])
  /\ epilogue \in {"idle", "steps", "routes", "again"} /\ todo \subseteq Packets
  /\ asked \in [Drivers -> Packets \cup {NoPacket}]
  /\ manual \in 0..MaxManual /\ faults \in 0..MaxFaults

Claimed(p) == {claimed[p][i] : i \in DOMAIN claimed[p]}

\* One line of the log at most has its name in `names` and is about a given packet.
Single(names) ==
  \A i, j \in DOMAIN log :
    log[i].name \in names /\ log[j].name \in names /\ log[i].p = log[j].p => i = j

RetryLineSound(i) ==
  log[i].name = "retry_dispatch" =>
    /\ log[i].att = mem[log[i].p].attempts + 1 /\ log[i].att <= MaxTries
    /\ log[i].att \in Claimed(log[i].p)

CallSound(c) ==
  /\ call[c].at \in {"classify", "retry_dispatch"}
     => call[c].attempts <= mem[call[c].p].attempts
  /\ call[c].at = "retry_dispatch" => call[c].attempts < MaxTries

\* The ledger counts a retry only after its attempt was claimed, the log holds at most the
\* next attempt's claim, and whoever is about to claim has read a ledger that may be old, but
\* not ahead of the one in memory.
RetriesSound ==
  /\ RetryOncePerAttempt
  /\ \A p \in Packets :
       /\ disk[p].attempts <= mem[p].attempts /\ mem[p].attempts <= MaxTries
       /\ 1..mem[p].attempts \subseteq Claimed(p)
  /\ \A i \in DOMAIN log : RetryLineSound(i)
  /\ Single({"retry_dispatch"})
  /\ \A c \in Callers : CallSound(c)

\* A packet is ruled on once, and sent back to work by that ruling or by none.
RulingsSound ==
  /\ \A p \in Packets : mem[p].reviews <= ruled[p]
  /\ \A i \in DOMAIN log : log[i].name \in Sent =>
       ruled[log[i].p] = 1 /\ mem[log[i].p].reviews = 0
  /\ Single(Sent)

\* Without an operator only the epilogue answers, between its two steps, and a packet it has
\* still to answer has no answer in the log.
AnswersSound ==
  /\ stepper = "epilogue" <=> epilogue \in {"steps", "again"}
  /\ manual = 0 =>
       /\ call["operator"] = NoCall
       /\ epilogue # "routes" => call["epilogue"] = NoCall
       /\ epilogue = "routes" =>
            /\ call["epilogue"].at # "idle" => call["epilogue"].p \notin todo
            /\ \A i \in DOMAIN log : log[i].name \in Answers =>
                 /\ log[i].p \notin todo
                 /\ call["epilogue"].at # "idle" => log[i].p # call["epilogue"].p
       /\ Single(Answers)

Inv == TypeOK /\ RetriesSound /\ RulingsSound /\ AnswersSound

-----------------------------------------------------------------------------
(***************************************************************************)
(* The loop implements PacketLife.                                         *)
(***************************************************************************)
Phase(state) ==
  CASE state \in {"NONE", "PLANNED", "DISPATCHABLE"} -> "waiting"
    [] state = "RUNNING" -> "running"
    [] state = "REPORTED" -> "reported"
    [] state \in {"FAILED", "TIMED_OUT"} -> "failed"
    [] state = "DUTY_REVIEW" -> "review"
    [] state = "ACCEPTED" -> "accepted"
    [] OTHER -> "escalated"

\* What the abstract packet sees of an entry.
Abs(k) == [phase |-> Phase(k.state), tries |-> k.attempts, reviews |-> k.reviews,
           replans |-> k.replans]

\* The abstract packet is the one of the ledger in memory.
Life == INSTANCE PacketLife WITH
  MaxReplans <- REPLAN_CAP,
  life <- [p \in Packets |-> Abs(mem[p])]

\* A packet's life is bounded: retries by its class, rulings that send it back by one, replans
\* by the cap - across racing callers and rulings (PacketLife.Spec).
LivesBounded == Life!Spec
=============================================================================
