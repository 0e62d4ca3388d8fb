--------------------------- MODULE WorkerRunProofs ---------------------------
(***************************************************************************)
(* The runs of a packet for any number of runs and faults: Sound is        *)
(* inductive, so every run tells at most one ending, its report first, and *)
(* the roster row is never behind or taken back.  One lemma per action     *)
(* that touches what the invariant is about; the steps of the ledger and   *)
(* of the dispatchers, which touch only their own state, share one.        *)
(***************************************************************************)
EXTENDS WorkerRun, TLAPS

LEMMA InitSound == Init => Sound
<1> SUFFICES ASSUME Init PROVE Sound
  OBVIOUS
<1> USE RunsOK DEF Init
<1>1. claim \in [run : Runs \cup {NoRun}, att : Nat, body : BOOLEAN, old : BOOLEAN]
  BY DEF NoClaim
<1>2. row \in [run : Runs \cup {NoRun}, state : LiveRows \cup TERMINAL_STATES \cup {"none", "lost"},
               start : Nat, pid : Runs \cup {NoRun}]
  OBVIOUS
<1>3. hclean \in BOOLEAN
  BY Zenon
<1>4. TypeOK
  BY <1>1, <1>2, <1>3 DEF TypeOK, Outcomes, DatStates, SatStates
<1>5. Placed /\ Grounded /\ Owned
  BY DEF Placed, Grounded, Owned, LiveRows, Unregistered, Looping
<1>6. Heard /\ OneOutcome /\ StopAfterReport /\ CancelledWasAsked
  BY DEF Heard, Ended, Lost, OneOutcome, StopAfterReport, CancelledWasAsked
<1> QED BY <1>4, <1>5, <1>6 DEF Sound

\* A step that leaves the runs alone keeps everything but the types.
LEMMA FrameSound ==
  ASSUME Sound, TypeOK', faults <= faults',
         \A q \in Runs : dat'[q] # "ended" => dat[q] # "ended",
         UNCHANGED <<supervisor, worker, row, cancel, events, published, hooks>>
  PROVE  Sound'
<1> USE RunsOK DEF Sound, supervisor, hooks
<1>1. Placed'
  BY DEF Placed, TypeOK
<1>2. Heard'
  BY DEF Heard, Ended, Lost, TypeOK
<1>3. Grounded' /\ Owned'
  BY DEF Grounded, Owned
<1>4. OneOutcome' /\ StopAfterReport' /\ CancelledWasAsked'
  BY DEF OneOutcome, StopAfterReport, CancelledWasAsked
<1> QED BY <1>1, <1>2, <1>3, <1>4

LEMMA DispatcherSteps ==
  ASSUME Sound, NEW r \in Runs,
         \/ Machine(r) \/ ReadAttempt(r) \/ Throttled(r) \/ CreateClaim(r) \/ WriteClaim(r)
         \/ ClaimExists(r) \/ ReadClaim(r) \/ TakeOver(r) \/ WorktreeFails(r)
         \/ DispatcherDies(r)
  PROVE  Sound'
<1> USE RunsOK DEF Sound, TypeOK, DatStates, GoD, dispatcher, supervisor, hooks
<1>1. CASE Admit(r)
  BY <1>1, FrameSound DEF Admit
<1>2. CASE Requeue(r)
  BY <1>2, FrameSound DEF Requeue
<1>3. CASE Retry(r)
  BY <1>3, FrameSound DEF Retry
<1>4. CASE ReadAttempt(r)
  BY <1>4, FrameSound DEF ReadAttempt
<1>5. CASE Throttled(r)
  BY <1>5, FrameSound DEF Throttled
<1>6. CASE CreateClaim(r)
  BY <1>6, FrameSound DEF CreateClaim, NoClaim, SameGeneration
<1>7. CASE WriteClaim(r)
  <2>1. claim' \in [run : Runs \cup {NoRun}, att : Nat, body : BOOLEAN, old : BOOLEAN]
    BY <1>7 DEF WriteClaim
  <2> QED BY <1>7, <2>1, FrameSound DEF WriteClaim
<1>8. CASE ClaimExists(r)
  BY <1>8, FrameSound DEF ClaimExists
<1>9. CASE ReadClaim(r)
  BY <1>9, FrameSound DEF ReadClaim, NoClaim, SameGeneration
<1>10. CASE TakeOver(r)
  BY <1>10, FrameSound DEF TakeOver
<1>11. CASE WorktreeFails(r)
  BY <1>11, FrameSound DEF WorktreeFails
<1>12. CASE DispatcherDies(r)
  BY <1>12, FrameSound DEF DispatcherDies
<1> QED BY <1>1, <1>2, <1>3, <1>4, <1>5, <1>6, <1>7, <1>8, <1>9, <1>10, <1>11, <1>12 DEF Machine

LEMMA ClaimAgesSound ==
  ASSUME Sound, ClaimAges
  PROVE  Sound'
<1>1. claim' \in [run : Runs \cup {NoRun}, att : Nat, body : BOOLEAN, old : BOOLEAN]
  BY DEF Sound, TypeOK, ClaimAges
<1> QED BY <1>1, FrameSound DEF Sound, TypeOK, ClaimAges, supervisor, hooks

LEMMA AnnounceSound ==
  ASSUME Sound, NEW r \in Runs, Announce(r)
  PROVE  Sound'
<1> USE RunsOK DEF Sound, Announce, Emit, GoD, dispatcher, supervisor, hooks
<1>1. TypeOK'
  BY DEF TypeOK, Outcomes, OutcomeEvents, Events, LiveRows, TERMINAL_STATES, DatStates,
         SatStates, Placed
<1>2. Placed'
  BY DEF TypeOK, Placed, LiveRows, SatStates, Owned, Unregistered
<1>3. Heard'
  BY DEF TypeOK, Placed, Heard, Owned, Ended, Lost, LiveRows, OutcomeEvents, Unregistered
<1>4. Grounded' /\ CancelledWasAsked'
  BY DEF TypeOK, Grounded, CancelledWasAsked, Outcomes
<1>5. Owned'
  BY DEF TypeOK, Owned, Placed, LiveRows, Unregistered, Looping, SatStates, Outcomes
<1>6. OneOutcome' /\ StopAfterReport'
  BY DEF TypeOK, OneOutcome, StopAfterReport, Heard, Grounded, Ended, Lost, Placed, OutcomeEvents
<1> QED BY <1>1, <1>2, <1>3, <1>4, <1>5, <1>6

LEMMA LaunchSound ==
  ASSUME Sound, NEW r \in Runs, Launch(r)
  PROVE  Sound'
<1> USE RunsOK DEF Sound, Launch, GoD, GoS, dispatcher, supervisor, hooks
<1>1. TypeOK'
  BY DEF TypeOK, Outcomes, OutcomeEvents, Events, LiveRows, TERMINAL_STATES, DatStates,
         SatStates, Placed
<1>2. Placed'
  BY DEF TypeOK, Placed, LiveRows, SatStates, Owned, Unregistered
<1>3. Heard'
  BY DEF TypeOK, Placed, Heard, Owned, Ended, Lost, LiveRows, OutcomeEvents, Unregistered
<1>4. Grounded' /\ CancelledWasAsked'
  BY DEF TypeOK, Grounded, CancelledWasAsked, Outcomes
<1>5. Owned'
  BY DEF TypeOK, Owned, Placed, LiveRows, Unregistered, Looping, SatStates, Outcomes
<1>6. OneOutcome' /\ StopAfterReport'
  BY DEF TypeOK, OneOutcome, StopAfterReport, Heard, Grounded, Ended, Lost, Placed, OutcomeEvents
<1> QED BY <1>1, <1>2, <1>3, <1>4, <1>5, <1>6

LEMMA LaunchFailsSound ==
  ASSUME Sound, NEW r \in Runs, LaunchFails(r)
  PROVE  Sound'
<1> USE RunsOK DEF Sound, LaunchFails, Emit, GoD, NoClaim, dispatcher, supervisor, hooks
<1>1. TypeOK'
  BY DEF TypeOK, Outcomes, OutcomeEvents, Events, LiveRows, TERMINAL_STATES, DatStates,
         SatStates, Placed
<1>2. Placed'
  BY DEF TypeOK, Placed, LiveRows, SatStates, Owned, Unregistered
<1>3. Heard'
  BY DEF TypeOK, Placed, Heard, Owned, Ended, Lost, LiveRows, OutcomeEvents, Unregistered
<1>4. Grounded' /\ CancelledWasAsked'
  BY DEF TypeOK, Grounded, CancelledWasAsked, Outcomes
<1>5. Owned'
  BY DEF TypeOK, Owned, Placed, LiveRows, Unregistered, Looping, SatStates, Outcomes
<1>6. OneOutcome' /\ StopAfterReport'
  BY DEF TypeOK, OneOutcome, StopAfterReport, Heard, Grounded, Ended, Lost, Placed, OutcomeEvents
<1> QED BY <1>1, <1>2, <1>3, <1>4, <1>5, <1>6

LEMMA BeginSound ==
  ASSUME Sound, NEW r \in Runs, Begin(r)
  PROVE  Sound'
<1> USE RunsOK DEF Sound, Begin, GoS, dispatcher, supervisor, hooks
<1>1. TypeOK'
  BY DEF TypeOK, Outcomes, OutcomeEvents, Events, LiveRows, TERMINAL_STATES, DatStates,
         SatStates, Placed
<1>2. Placed'
  BY DEF TypeOK, Placed, LiveRows, SatStates, Owned, Unregistered
<1>3. Heard'
  BY DEF TypeOK, Placed, Heard, Owned, Ended, Lost, LiveRows, OutcomeEvents, Unregistered
<1>4. Grounded' /\ CancelledWasAsked'
  BY DEF TypeOK, Grounded, CancelledWasAsked, Outcomes
<1>5. Owned'
  BY DEF TypeOK, Owned, Placed, LiveRows, Unregistered, Looping, SatStates, Outcomes
<1>6. OneOutcome' /\ StopAfterReport'
  BY DEF TypeOK, OneOutcome, StopAfterReport, Heard, Grounded, Ended, Lost, Placed, OutcomeEvents
<1> QED BY <1>1, <1>2, <1>3, <1>4, <1>5, <1>6

LEMMA RegisterSound ==
  ASSUME Sound, NEW r \in Runs, Register(r)
  PROVE  Sound'
<1> USE RunsOK DEF Sound, Register, GoS, Updated, dispatcher, supervisor, hooks
<1>1. TypeOK'
  BY DEF TypeOK, Outcomes, OutcomeEvents, Events, LiveRows, TERMINAL_STATES, DatStates,
         SatStates, Placed
<1>2. Placed'
  BY DEF TypeOK, Placed, LiveRows, SatStates, Owned, Unregistered
<1>3. Heard'
  BY DEF TypeOK, Placed, Heard, Owned, Ended, Lost, LiveRows, OutcomeEvents, Unregistered
<1>4. Grounded' /\ CancelledWasAsked'
  BY DEF TypeOK, Grounded, CancelledWasAsked, Outcomes
<1>5. Owned'
  BY DEF TypeOK, Owned, Placed, LiveRows, Unregistered, Looping, SatStates, Outcomes
<1>6. OneOutcome' /\ StopAfterReport'
  BY DEF TypeOK, OneOutcome, StopAfterReport, Heard, Grounded, Ended, Lost, Placed, OutcomeEvents
<1> QED BY <1>1, <1>2, <1>3, <1>4, <1>5, <1>6

LEMMA SpawnSound ==
  ASSUME Sound, NEW r \in Runs, Spawn(r)
  PROVE  Sound'
<1> USE RunsOK DEF Sound, Spawn, GoS, dispatcher, supervisor, hooks
<1>1. TypeOK'
  BY DEF TypeOK, Outcomes, OutcomeEvents, Events, LiveRows, TERMINAL_STATES, DatStates,
         SatStates, Placed
<1>2. Placed'
  BY DEF TypeOK, Placed, LiveRows, SatStates, Owned, Unregistered
<1>3. Heard'
  BY DEF TypeOK, Placed, Heard, Owned, Ended, Lost, LiveRows, OutcomeEvents, Unregistered
<1>4. Grounded' /\ CancelledWasAsked'
  BY DEF TypeOK, Grounded, CancelledWasAsked, Outcomes
<1>5. Owned'
  BY DEF TypeOK, Owned, Placed, LiveRows, Unregistered, Looping, SatStates, Outcomes
<1>6. OneOutcome' /\ StopAfterReport'
  BY DEF TypeOK, OneOutcome, StopAfterReport, Heard, Grounded, Ended, Lost, Placed, OutcomeEvents
<1> QED BY <1>1, <1>2, <1>3, <1>4, <1>5, <1>6

LEMMA RecordSpawnSound ==
  ASSUME Sound, NEW r \in Runs, RecordSpawn(r)
  PROVE  Sound'
<1> USE RunsOK DEF Sound, RecordSpawn, GoS, Updated, dispatcher, supervisor, hooks
<1>1. TypeOK'
  BY DEF TypeOK, Outcomes, OutcomeEvents, Events, LiveRows, TERMINAL_STATES, DatStates,
         SatStates, Placed
<1>2. Placed'
  BY DEF TypeOK, Placed, LiveRows, SatStates, Owned, Unregistered
<1>3. Heard'
  BY DEF TypeOK, Placed, Heard, Owned, Ended, Lost, LiveRows, OutcomeEvents, Unregistered
<1>4. Grounded' /\ CancelledWasAsked'
  BY DEF TypeOK, Grounded, CancelledWasAsked, Outcomes
<1>5. Owned'
  BY DEF TypeOK, Owned, Placed, LiveRows, Unregistered, Looping, SatStates, Outcomes
<1>6. OneOutcome' /\ StopAfterReport'
  BY DEF TypeOK, OneOutcome, StopAfterReport, Heard, Grounded, Ended, Lost, Placed, OutcomeEvents
<1> QED BY <1>1, <1>2, <1>3, <1>4, <1>5, <1>6

LEMMA HeartbeatSound ==
  ASSUME Sound, NEW r \in Runs, Heartbeat(r)
  PROVE  Sound'
<1> USE RunsOK DEF Sound, Heartbeat, Updated, dispatcher, supervisor, hooks
<1>1. TypeOK'
  BY DEF TypeOK, Outcomes, OutcomeEvents, Events, LiveRows, TERMINAL_STATES, DatStates,
         SatStates, Placed
<1>2. Placed'
  BY DEF TypeOK, Placed, LiveRows, SatStates, Owned, Unregistered
<1>3. Heard'
  BY DEF TypeOK, Placed, Heard, Owned, Ended, Lost, LiveRows, OutcomeEvents, Unregistered
<1>4. Grounded' /\ CancelledWasAsked'
  BY DEF TypeOK, Grounded, CancelledWasAsked, Outcomes
<1>5. Owned'
  BY DEF TypeOK, Owned, Placed, LiveRows, Unregistered, Looping, SatStates, Outcomes
<1>6. OneOutcome' /\ StopAfterReport'
  BY DEF TypeOK, OneOutcome, StopAfterReport, Heard, Grounded, Ended, Lost, Placed, OutcomeEvents
<1> QED BY <1>1, <1>2, <1>3, <1>4, <1>5, <1>6

LEMMA WorkerExitsSound ==
  ASSUME Sound, NEW r \in Runs, WorkerExits(r)
  PROVE  Sound'
<1> USE RunsOK DEF Sound, WorkerExits, dispatcher, supervisor, hooks
<1>1. TypeOK'
  BY DEF TypeOK, Outcomes, OutcomeEvents, Events, LiveRows, TERMINAL_STATES, DatStates,
         SatStates, Placed
<1>2. Placed'
  BY DEF TypeOK, Placed, LiveRows, SatStates, Owned, Unregistered
<1>3. Heard'
  BY DEF TypeOK, Placed, Heard, Owned, Ended, Lost, LiveRows, OutcomeEvents, Unregistered
<1>4. Grounded' /\ CancelledWasAsked'
  BY DEF TypeOK, Grounded, CancelledWasAsked, Outcomes
<1>5. Owned'
  BY DEF TypeOK, Owned, Placed, LiveRows, Unregistered, Looping, SatStates, Outcomes
<1>6. OneOutcome' /\ StopAfterReport'
  BY DEF TypeOK, OneOutcome, StopAfterReport, Heard, Grounded, Ended, Lost, Placed, OutcomeEvents
<1> QED BY <1>1, <1>2, <1>3, <1>4, <1>5, <1>6

LEMMA CompleteSound ==
  ASSUME Sound, NEW r \in Runs, Complete(r)
  PROVE  Sound'
<1> USE RunsOK DEF Sound, Complete, Decide, GoS, dispatcher, supervisor, hooks
<1>1. TypeOK'
  BY DEF TypeOK, Outcomes, OutcomeEvents, Events, LiveRows, TERMINAL_STATES, DatStates,
         SatStates, Placed
<1>2. Placed'
  BY DEF TypeOK, Placed, LiveRows, SatStates, Owned, Unregistered
<1>3. Heard'
  BY DEF TypeOK, Placed, Heard, Owned, Ended, Lost, LiveRows, OutcomeEvents, Unregistered
<1>4. Grounded' /\ CancelledWasAsked'
  BY DEF TypeOK, Grounded, CancelledWasAsked, Outcomes
<1>5. Owned'
  BY DEF TypeOK, Owned, Placed, LiveRows, Unregistered, Looping, SatStates, Outcomes
<1>6. OneOutcome' /\ StopAfterReport'
  BY DEF TypeOK, OneOutcome, StopAfterReport, Heard, Grounded, Ended, Lost, Placed, OutcomeEvents
<1> QED BY <1>1, <1>2, <1>3, <1>4, <1>5, <1>6

LEMMA WorkerFailedSound ==
  ASSUME Sound, NEW r \in Runs, WorkerFailed(r)
  PROVE  Sound'
<1> USE RunsOK DEF Sound, WorkerFailed, Decide, GoS, dispatcher, supervisor, hooks
<1>1. TypeOK'
  BY DEF TypeOK, Outcomes, OutcomeEvents, Events, LiveRows, TERMINAL_STATES, DatStates,
         SatStates, Placed
<1>2. Placed'
  BY DEF TypeOK, Placed, LiveRows, SatStates, Owned, Unregistered
<1>3. Heard'
  BY DEF TypeOK, Placed, Heard, Owned, Ended, Lost, LiveRows, OutcomeEvents, Unregistered
<1>4. Grounded' /\ CancelledWasAsked'
  BY DEF TypeOK, Grounded, CancelledWasAsked, Outcomes
<1>5. Owned'
  BY DEF TypeOK, Owned, Placed, LiveRows, Unregistered, Looping, SatStates, Outcomes
<1>6. OneOutcome' /\ StopAfterReport'
  BY DEF TypeOK, OneOutcome, StopAfterReport, Heard, Grounded, Ended, Lost, Placed, OutcomeEvents
<1> QED BY <1>1, <1>2, <1>3, <1>4, <1>5, <1>6

LEMMA StopWorkerSound ==
  ASSUME Sound, NEW r \in Runs, StopWorker(r)
  PROVE  Sound'
<1> USE RunsOK DEF Sound, StopWorker, Decide, GoS, CancelRequest, dispatcher, supervisor, hooks
<1>1. TypeOK'
  BY DEF TypeOK, Outcomes, OutcomeEvents, Events, LiveRows, TERMINAL_STATES, DatStates,
         SatStates, Placed
<1>2. Placed'
  BY DEF TypeOK, Placed, LiveRows, SatStates, Owned, Unregistered
<1>3. Heard'
  BY DEF TypeOK, Placed, Heard, Owned, Ended, Lost, LiveRows, OutcomeEvents, Unregistered
<1>4. Grounded' /\ CancelledWasAsked'
  BY DEF TypeOK, Grounded, CancelledWasAsked, Outcomes
<1>5. Owned'
  BY DEF TypeOK, Owned, Placed, LiveRows, Unregistered, Looping, SatStates, Outcomes
<1>6. OneOutcome' /\ StopAfterReport'
  BY DEF TypeOK, OneOutcome, StopAfterReport, Heard, Grounded, Ended, Lost, Placed, OutcomeEvents
<1> QED BY <1>1, <1>2, <1>3, <1>4, <1>5, <1>6

LEMMA RecordSound ==
  ASSUME Sound, NEW r \in Runs, Record(r)
  PROVE  Sound'
<1> USE RunsOK DEF Sound, Record, GoS, Updated, RowState, dispatcher, supervisor, hooks
<1>1. TypeOK'
  BY DEF TypeOK, Outcomes, OutcomeEvents, Events, LiveRows, TERMINAL_STATES, DatStates,
         SatStates, Placed
<1>2. Placed'
  BY DEF TypeOK, Placed, LiveRows, SatStates, Owned, Unregistered
<1>3. Heard'
  BY DEF TypeOK, Placed, Heard, Owned, Ended, Lost, LiveRows, OutcomeEvents, Unregistered
<1>4. Grounded' /\ CancelledWasAsked'
  BY DEF TypeOK, Grounded, CancelledWasAsked, Outcomes
<1>5. Owned'
  BY DEF TypeOK, Owned, Placed, LiveRows, Unregistered, Looping, SatStates, Outcomes
<1>6. OneOutcome' /\ StopAfterReport'
  BY DEF TypeOK, OneOutcome, StopAfterReport, Heard, Grounded, Ended, Lost, Placed, OutcomeEvents
<1> QED BY <1>1, <1>2, <1>3, <1>4, <1>5, <1>6

LEMMA LogSound ==
  ASSUME Sound, NEW r \in Runs, Log(r)
  PROVE  Sound'
<1> USE RunsOK DEF Sound, Log, GoS, Emit, OutcomeEvent, dispatcher, supervisor, hooks
<1>1. TypeOK'
  BY DEF TypeOK, Outcomes, OutcomeEvents, Events, LiveRows, TERMINAL_STATES, DatStates,
         SatStates, Placed
<1>2. Placed'
  BY DEF TypeOK, Placed, LiveRows, SatStates, Owned, Unregistered
<1>3. Heard'
  BY DEF TypeOK, Placed, Heard, Owned, Ended, Lost, LiveRows, OutcomeEvents, Unregistered
<1>4. Grounded' /\ CancelledWasAsked'
  BY DEF TypeOK, Grounded, CancelledWasAsked, Outcomes
<1>5. Owned'
  BY DEF TypeOK, Owned, Placed, LiveRows, Unregistered, Looping, SatStates, Outcomes
<1>6. OneOutcome' /\ StopAfterReport'
  BY DEF TypeOK, OneOutcome, StopAfterReport, Heard, Grounded, Ended, Lost, Placed, OutcomeEvents
<1> QED BY <1>1, <1>2, <1>3, <1>4, <1>5, <1>6

LEMMA FinishSound ==
  ASSUME Sound, NEW r \in Runs, Finish(r)
  PROVE  Sound'
<1> USE RunsOK DEF Sound, Finish, GoS, dispatcher, supervisor, hooks
<1>1. TypeOK'
  BY DEF TypeOK, Outcomes, OutcomeEvents, Events, LiveRows, TERMINAL_STATES, DatStates,
         SatStates, Placed
<1>2. Placed'
  BY DEF TypeOK, Placed, LiveRows, SatStates, Owned, Unregistered
<1>3. Heard'
  BY DEF TypeOK, Placed, Heard, Owned, Ended, Lost, LiveRows, OutcomeEvents, Unregistered
<1>4. Grounded' /\ CancelledWasAsked'
  BY DEF TypeOK, Grounded, CancelledWasAsked, Outcomes
<1>5. Owned'
  BY DEF TypeOK, Owned, Placed, LiveRows, Unregistered, Looping, SatStates, Outcomes
<1>6. OneOutcome' /\ StopAfterReport'
  BY DEF TypeOK, OneOutcome, StopAfterReport, Heard, Grounded, Ended, Lost, Placed, OutcomeEvents
<1> QED BY <1>1, <1>2, <1>3, <1>4, <1>5, <1>6

LEMMA StepFailsSound ==
  ASSUME Sound, NEW r \in Runs, StepFails(r)
  PROVE  Sound'
<1> USE RunsOK DEF Sound, StepFails, Decide, GoS, dispatcher, supervisor, hooks
<1>1. TypeOK'
  BY DEF TypeOK, Outcomes, OutcomeEvents, Events, LiveRows, TERMINAL_STATES, DatStates,
         SatStates, Placed
<1>2. Placed'
  BY DEF TypeOK, Placed, LiveRows, SatStates, Owned, Unregistered
<1>3. Heard'
  BY DEF TypeOK, Placed, Heard, Owned, Ended, Lost, LiveRows, OutcomeEvents, Unregistered
<1>4. Grounded' /\ CancelledWasAsked'
  BY DEF TypeOK, Grounded, CancelledWasAsked, Outcomes
<1>5. Owned'
  BY DEF TypeOK, Owned, Placed, LiveRows, Unregistered, Looping, SatStates, Outcomes
<1>6. OneOutcome' /\ StopAfterReport'
  BY DEF TypeOK, OneOutcome, StopAfterReport, Heard, Grounded, Ended, Lost, Placed, OutcomeEvents
<1> QED BY <1>1, <1>2, <1>3, <1>4, <1>5, <1>6

LEMMA SupervisorDiesSound ==
  ASSUME Sound, NEW r \in Runs, SupervisorDies(r)
  PROVE  Sound'
<1> USE RunsOK DEF Sound, SupervisorDies, GoS, SupervisorAlive, dispatcher, supervisor, hooks
<1>1. TypeOK'
  BY DEF TypeOK, Outcomes, OutcomeEvents, Events, LiveRows, TERMINAL_STATES, DatStates,
         SatStates, Placed
<1>2. Placed'
  BY DEF TypeOK, Placed, LiveRows, SatStates, Owned, Unregistered
<1>3. Heard'
  BY DEF TypeOK, Placed, Heard, Owned, Ended, Lost, LiveRows, OutcomeEvents, Unregistered
<1>4. Grounded' /\ CancelledWasAsked'
  BY DEF TypeOK, Grounded, CancelledWasAsked, Outcomes
<1>5. Owned'
  BY DEF TypeOK, Owned, Placed, LiveRows, Unregistered, Looping, SatStates, Outcomes
<1>6. OneOutcome' /\ StopAfterReport'
  BY DEF TypeOK, OneOutcome, StopAfterReport, Heard, Grounded, Ended, Lost, Placed, OutcomeEvents
<1> QED BY <1>1, <1>2, <1>3, <1>4, <1>5, <1>6

LEMMA ParentStopSound ==
  ASSUME Sound, ParentStop
  PROVE  Sound'
<1> USE RunsOK DEF Sound, ParentStop, dispatcher, supervisor, hooks
<1>1. TypeOK'
  BY DEF TypeOK, Outcomes, OutcomeEvents, Events, LiveRows, TERMINAL_STATES, DatStates,
         SatStates, Placed
<1>2. Placed'
  BY DEF TypeOK, Placed, LiveRows, SatStates, Owned, Unregistered
<1>3. Heard'
  BY DEF TypeOK, Placed, Heard, Owned, Ended, Lost, LiveRows, OutcomeEvents, Unregistered
<1>4. Grounded' /\ CancelledWasAsked'
  BY DEF TypeOK, Grounded, CancelledWasAsked, Outcomes
<1>5. Owned'
  BY DEF TypeOK, Owned, Placed, LiveRows, Unregistered, Looping, SatStates, Outcomes
<1>6. OneOutcome' /\ StopAfterReport'
  BY DEF TypeOK, OneOutcome, StopAfterReport, Heard, Grounded, Ended, Lost, Placed, OutcomeEvents
<1> QED BY <1>1, <1>2, <1>3, <1>4, <1>5, <1>6

LEMMA WriteCancelSound ==
  ASSUME Sound, WriteCancel
  PROVE  Sound'
<1> USE RunsOK DEF Sound, WriteCancel, dispatcher, supervisor, hooks
<1>1. TypeOK'
  BY DEF TypeOK, Outcomes, OutcomeEvents, Events, LiveRows, TERMINAL_STATES, DatStates,
         SatStates, Placed
<1>2. Placed'
  BY DEF TypeOK, Placed, LiveRows, SatStates, Owned, Unregistered
<1>3. Heard'
  BY DEF TypeOK, Placed, Heard, Owned, Ended, Lost, LiveRows, OutcomeEvents, Unregistered
<1>4. Grounded' /\ CancelledWasAsked'
  BY DEF TypeOK, Grounded, CancelledWasAsked, Outcomes
<1>5. Owned'
  BY DEF TypeOK, Owned, Placed, LiveRows, Unregistered, Looping, SatStates, Outcomes
<1>6. OneOutcome' /\ StopAfterReport'
  BY DEF TypeOK, OneOutcome, StopAfterReport, Heard, Grounded, Ended, Lost, Placed, OutcomeEvents
<1> QED BY <1>1, <1>2, <1>3, <1>4, <1>5, <1>6

LEMMA ScanSound ==
  ASSUME Sound, Scan
  PROVE  Sound'
<1> USE RunsOK DEF Sound, Scan, Orphaned, SupervisorAlive, dispatcher, supervisor, hooks
<1>1. TypeOK'
  BY DEF TypeOK, Outcomes, OutcomeEvents, Events, LiveRows, TERMINAL_STATES, DatStates,
         SatStates, Placed
<1>2. Placed'
  BY DEF TypeOK, Placed, LiveRows, SatStates, Owned, Unregistered
<1>3. Heard'
  BY DEF TypeOK, Placed, Heard, Owned, Ended, Lost, LiveRows, OutcomeEvents, Unregistered
<1>4. Grounded' /\ CancelledWasAsked'
  BY DEF TypeOK, Grounded, CancelledWasAsked, Outcomes
<1>5. Owned'
  BY DEF TypeOK, Owned, Placed, LiveRows, Unregistered, Looping, SatStates, Outcomes
<1>6. OneOutcome' /\ StopAfterReport'
  BY DEF TypeOK, OneOutcome, StopAfterReport, Heard, Grounded, Ended, Lost, Placed, OutcomeEvents
<1> QED BY <1>1, <1>2, <1>3, <1>4, <1>5, <1>6

LEMMA KillGroupSound ==
  ASSUME Sound, KillGroup
  PROVE  Sound'
<1> USE RunsOK DEF Sound, KillGroup, dispatcher, supervisor, hooks
<1>1. TypeOK'
  BY DEF TypeOK, Outcomes, OutcomeEvents, Events, LiveRows, TERMINAL_STATES, DatStates,
         SatStates, Placed
<1>2. Placed'
  BY DEF TypeOK, Placed, LiveRows, SatStates, Owned, Unregistered
<1>3. Heard'
  BY DEF TypeOK, Placed, Heard, Owned, Ended, Lost, LiveRows, OutcomeEvents, Unregistered
<1>4. Grounded' /\ CancelledWasAsked'
  BY DEF TypeOK, Grounded, CancelledWasAsked, Outcomes
<1>5. Owned'
  BY DEF TypeOK, Owned, Placed, LiveRows, Unregistered, Looping, SatStates, Outcomes
<1>6. OneOutcome' /\ StopAfterReport'
  BY DEF TypeOK, OneOutcome, StopAfterReport, Heard, Grounded, Ended, Lost, Placed, OutcomeEvents
<1> QED BY <1>1, <1>2, <1>3, <1>4, <1>5, <1>6

LEMMA MarkLostSound ==
  ASSUME Sound, MarkLost
  PROVE  Sound'
<1> USE RunsOK DEF Sound, MarkLost, Orphaned, SupervisorAlive, HookEnds, dispatcher, supervisor, hooks
<1>0. hclean' \in BOOLEAN
  BY Zenon DEF TypeOK
<1>1. TypeOK'
  BY <1>0 DEF TypeOK, OutcomeEvents, Events, LiveRows, TERMINAL_STATES, Placed
<1>2. Placed'
  BY DEF TypeOK, Placed, LiveRows, SatStates, Owned, Unregistered
<1>3. Heard'
  BY DEF TypeOK, Placed, Heard, Owned, Ended, Lost, LiveRows, OutcomeEvents, Unregistered
<1>4. Grounded' /\ CancelledWasAsked'
  BY DEF TypeOK, Grounded, CancelledWasAsked, Outcomes
<1>5. Owned'
  BY DEF TypeOK, Owned, Placed, LiveRows, Unregistered, Looping, SatStates, Outcomes
<1>6. OneOutcome' /\ StopAfterReport'
  BY DEF TypeOK, OneOutcome, StopAfterReport, Heard, Grounded, Ended, Lost, Placed, OutcomeEvents
<1> QED BY <1>1, <1>2, <1>3, <1>4, <1>5, <1>6

LEMMA LogLostSound ==
  ASSUME Sound, LogLost
  PROVE  Sound'
<1> USE RunsOK DEF Sound, LogLost, Emit, HookEnds, dispatcher, supervisor, hooks
<1>0. hclean' \in BOOLEAN
  BY Zenon DEF TypeOK
<1>1. TypeOK'
  BY <1>0 DEF TypeOK, OutcomeEvents, Events, LiveRows, TERMINAL_STATES, Placed
<1>2. Placed'
  BY DEF TypeOK, Placed, LiveRows, SatStates, Owned, Unregistered
<1>3. Heard'
  BY DEF TypeOK, Placed, Heard, Owned, Ended, Lost, LiveRows, OutcomeEvents, Unregistered
<1>4. Grounded' /\ CancelledWasAsked'
  BY DEF TypeOK, Grounded, CancelledWasAsked, Outcomes
<1>5. Owned'
  BY DEF TypeOK, Owned, Placed, LiveRows, Unregistered, Looping, SatStates, Outcomes
<1>6. OneOutcome' /\ StopAfterReport'
  BY DEF TypeOK, OneOutcome, StopAfterReport, Heard, Grounded, Ended, Lost, Placed, OutcomeEvents
<1> QED BY <1>1, <1>2, <1>3, <1>4, <1>5, <1>6

LEMMA HookDiesSound ==
  ASSUME Sound, HookDies
  PROVE  Sound'
<1> USE RunsOK DEF Sound, HookDies, HookEnds, dispatcher, supervisor, hooks
<1>0. hclean' \in BOOLEAN
  BY Zenon DEF TypeOK
<1>1. TypeOK'
  BY <1>0 DEF TypeOK, OutcomeEvents, Events, LiveRows, TERMINAL_STATES, Placed
<1>2. Placed'
  BY DEF TypeOK, Placed, LiveRows, SatStates, Owned, Unregistered
<1>3. Heard'
  BY DEF TypeOK, Placed, Heard, Owned, Ended, Lost, LiveRows, OutcomeEvents, Unregistered
<1>4. Grounded' /\ CancelledWasAsked'
  BY DEF TypeOK, Grounded, CancelledWasAsked, Outcomes
<1>5. Owned'
  BY DEF TypeOK, Owned, Placed, LiveRows, Unregistered, Looping, SatStates, Outcomes
<1>6. OneOutcome' /\ StopAfterReport'
  BY DEF TypeOK, OneOutcome, StopAfterReport, Heard, Grounded, Ended, Lost, Placed, OutcomeEvents
<1> QED BY <1>1, <1>2, <1>3, <1>4, <1>5, <1>6

LEMMA StutterSound == Sound /\ UNCHANGED vars => Sound'
<1> SUFFICES ASSUME Sound, UNCHANGED vars PROVE Sound'
  OBVIOUS
<1> USE DEF Sound, vars, dispatcher, supervisor, hooks
<1>1. TypeOK' /\ Placed' /\ Grounded' /\ Owned'
  BY DEF TypeOK, Placed, Grounded, Owned
<1>2. Heard' /\ OneOutcome' /\ StopAfterReport' /\ CancelledWasAsked'
  BY DEF Heard, Ended, Lost, OneOutcome, StopAfterReport, CancelledWasAsked
<1> QED BY <1>1, <1>2

LEMMA NextSound == Sound /\ [Next]_vars => Sound'
<1> SUFFICES ASSUME Sound, [Next]_vars PROVE Sound'
  OBVIOUS
<1>1. ASSUME NEW r \in Runs,
             \/ Machine(r) \/ dispatch_single(r) \/ Throttled(r) \/ WorktreeFails(r)
             \/ LaunchFails(r) \/ DispatcherDies(r)
      PROVE  Sound'
  BY <1>1, DispatcherSteps, AnnounceSound, LaunchSound, LaunchFailsSound DEF dispatch_single
<1>2. ASSUME NEW r \in Runs,
             run(r) \/ Heartbeat(r) \/ WorkerExits(r) \/ StepFails(r) \/ SupervisorDies(r)
      PROVE  Sound'
  BY <1>2, BeginSound, RegisterSound, SpawnSound, RecordSpawnSound, HeartbeatSound,
     WorkerExitsSound, CompleteSound, WorkerFailedSound, StopWorkerSound, RecordSound,
     LogSound, FinishSound, StepFailsSound, SupervisorDiesSound DEF run
<1>3. ASSUME ParentStop \/ WriteCancel \/ cold_reconcile_exec \/ HookDies
      PROVE  Sound'
  BY <1>3, ParentStopSound, WriteCancelSound, ScanSound, KillGroupSound, MarkLostSound,
     LogLostSound, HookDiesSound DEF cold_reconcile_exec
<1> QED BY <1>1, <1>2, <1>3, ClaimAgesSound, StutterSound DEF Next

\* The inductive invariant holds of every behaviour of dispatchers, supervisors
\* and hooks, with any number of runs and faults.
THEOREM RunsSound == Spec => []Sound
<1>1. Init => Sound
  BY InitSound
<1>2. Sound /\ [Next]_vars => Sound'
  BY NextSound
<1> QED BY <1>1, <1>2, PTL DEF Spec

\* Every variable keeps its type.
THEOREM RunTypes == Spec => []TypeOK
<1>1. Sound => TypeOK
  BY DEF Sound
<1> QED BY <1>1, RunsSound, PTL

\* No run tells two endings: append_event_once() together with the order of
\* run()'s steps and the handler's, and with the reconcile of lost supervisors.
THEOREM RunTellsOneEnding == Spec => []OneOutcome
<1>1. Sound => OneOutcome
  BY DEF Sound
<1> QED BY <1>1, RunsSound, PTL

\* publish_report() precedes every stop event.
THEOREM ReportPrecedesStop == Spec => []StopAfterReport
<1>1. Sound => StopAfterReport
  BY DEF Sound
<1> QED BY <1>1, RunsSound, PTL

\* A stale cancel file of parent_stop() never cancels another run.
THEOREM CancelHitsItsRun == Spec => []CancelledWasAsked
<1>1. Sound => CancelledWasAsked
  BY DEF Sound
<1> QED BY <1>1, RunsSound, PTL

\* Without faults a run whose ending is logged holds no capacity: run() updates
\* the roster before it appends the event.
THEOREM RosterFollowsLog == Spec => []RosterNotBehind
<1>1. Sound => RosterNotBehind
  BY DEF Sound, TypeOK, RosterNotBehind, Heard, Placed, Owned
<1> QED BY <1>1, RunsSound, PTL

\* Store.update(): a late record never takes the row back, and a row that is over
\* stays over until another run starts.
THEOREM RosterMovesForward == Spec => RowMovesForward
<1> DEFINE Forward ==
      /\ row'.run # row.run => row'.state = "starting" /\ row'.start >= row.start
      /\ row'.run = row.run /\ row.state \notin LiveRows => row'.state \notin LiveRows
<1>1. Sound /\ [Next]_vars => [Forward]_vars
  <2> SUFFICES ASSUME Sound, Next PROVE Forward
    OBVIOUS
  <2>1. ASSUME row' = row PROVE Forward
    BY <2>1
  <2>2. ASSUME NEW r \in Runs, Register(r) PROVE Forward
    BY <2>2, RunsOK DEF Register, Updated, Sound, TypeOK, Owned, LiveRows, Unregistered
  <2>3. ASSUME NEW r \in Runs, RecordSpawn(r) \/ Heartbeat(r) PROVE Forward
    BY <2>3, RunsOK DEF RecordSpawn, Heartbeat, Updated, Sound, TypeOK, Owned, LiveRows,
       Unregistered, Looping
  <2>4. ASSUME NEW r \in Runs, Record(r) PROVE Forward
    BY <2>4, RunsOK DEF Record, RowState, Updated, Sound, TypeOK, Owned, LiveRows, Outcomes,
       Unregistered
  <2>5. ASSUME MarkLost PROVE Forward
    BY <2>5 DEF MarkLost, LiveRows
  <2>6. ASSUME NEW r \in Runs,
               \/ Machine(r) \/ dispatch_single(r) \/ Throttled(r) \/ WorktreeFails(r)
               \/ LaunchFails(r) \/ DispatcherDies(r)
        PROVE  row' = row
    BY <2>6 DEF Machine, Admit, Requeue, Retry, dispatch_single, ReadAttempt, CreateClaim,
       WriteClaim, ClaimExists, ReadClaim, TakeOver, Announce, Launch, Throttled,
       WorktreeFails, LaunchFails, DispatcherDies
  <2>7. ASSUME NEW r \in Runs,
               \/ Begin(r) \/ Spawn(r) \/ Complete(r) \/ WorkerFailed(r) \/ StopWorker(r)
               \/ Log(r) \/ Finish(r) \/ WorkerExits(r) \/ StepFails(r) \/ SupervisorDies(r)
        PROVE  row' = row
    BY <2>7 DEF Begin, Spawn, Complete, WorkerFailed, StopWorker, Log, Finish, WorkerExits,
       StepFails, SupervisorDies
  <2>8. ASSUME ClaimAges \/ ParentStop \/ WriteCancel \/ Scan \/ KillGroup \/ LogLost \/ HookDies
        PROVE  row' = row
    BY <2>8 DEF ClaimAges, ParentStop, WriteCancel, Scan, KillGroup, LogLost, HookDies
  <2> QED BY <2>1, <2>2, <2>3, <2>4, <2>5, <2>6, <2>7, <2>8
             DEF Next, run, cold_reconcile_exec
<1>2. [][Forward]_vars => RowMovesForward
  BY PTL DEF RowMovesForward
<1> QED BY <1>1, <1>2, RunsSound, PTL DEF Spec
==============================================================================
