---------------------------- MODULE L2QueueProofs ----------------------------
(***************************************************************************)
(* The verification queue for any number of requests, drainers, reapers,   *)
(* verifiers and deaths: Sound is inductive.  Each lemma takes one action  *)
(* and shows the four groups of the invariant: types, the exactly-once     *)
(* gate, what the log has heard, and one verifier per request.             *)
(***************************************************************************)
EXTENDS L2Queue, FiniteSetTheorems, TLAPS

LEMMA InitSound == Init => Sound
  BY QueueOK, FS_EmptySet DEF Init, Sound, TypeOK, Placed, Gate, Heard, Born,
     VerdictAfterRequest, EscalationVisible, OneVerifier, Holding, Verifying,
     Completed, Claims, Completions, Events, AtStates, RatStates, JatStates, Results

LEMMA enqueueSound ==
  ASSUME Sound, NEW k \in Keys, enqueue(k)
  PROVE  Sound'
<1> USE QueueOK DEF Sound, enqueue, drainer, reaper, jobs
<1>1. TypeOK' /\ Placed'
  BY DEF TypeOK, Claims, Completions, Events, AtStates, RatStates, JatStates, Results, Placed, Completed
<1>2. Gate'
  BY DEF TypeOK, Placed, Gate, Holding, Completed
<1>3. Heard' /\ VerdictAfterRequest' /\ EscalationVisible'
  BY DEF TypeOK, Placed, Heard, VerdictAfterRequest, EscalationVisible, Results
<1>4. Born' /\ OneVerifier'
  BY DEF TypeOK, Born, OneVerifier, Verifying
<1> QED BY <1>1, <1>2, <1>3, <1>4

LEMMA RecordAgesSound ==
  ASSUME Sound, NEW k \in Keys, RecordAges(k)
  PROVE  Sound'
<1> USE QueueOK DEF Sound, RecordAges, drainer, reaper, jobs
<1>1. TypeOK' /\ Placed'
  BY DEF TypeOK, Claims, Completions, Events, AtStates, RatStates, JatStates, Results, Placed, Completed
<1>2. Gate'
  BY DEF TypeOK, Placed, Gate, Holding, Completed
<1>3. Heard' /\ VerdictAfterRequest' /\ EscalationVisible'
  BY DEF TypeOK, Placed, Heard, VerdictAfterRequest, EscalationVisible, Results
<1>4. Born' /\ OneVerifier'
  BY DEF TypeOK, Born, OneVerifier, Verifying
<1> QED BY <1>1, <1>2, <1>3, <1>4

LEMMA ClaimAgesSound ==
  ASSUME Sound, NEW k \in Keys, ClaimAges(k)
  PROVE  Sound'
<1> USE QueueOK DEF Sound, ClaimAges, Working, drainer, reaper, jobs
<1>1. TypeOK' /\ Placed'
  BY DEF TypeOK, Claims, Completions, Events, AtStates, RatStates, JatStates, Results, Placed, Completed
<1>2. Gate'
  BY DEF TypeOK, Placed, Gate, Holding, Completed
<1>3. Heard' /\ VerdictAfterRequest' /\ EscalationVisible'
  BY DEF TypeOK, Placed, Heard, VerdictAfterRequest, EscalationVisible, Results
<1>4. Born' /\ OneVerifier'
  BY DEF TypeOK, Born, OneVerifier, Verifying
<1> QED BY <1>1, <1>2, <1>3, <1>4

LEMMA BirthClaimAgesSound ==
  ASSUME Sound, NEW k \in Keys, BirthClaimAges(k)
  PROVE  Sound'
<1> USE QueueOK DEF Sound, BirthClaimAges, queue, drainer, reaper
<1>1. TypeOK' /\ Placed'
  BY DEF TypeOK, Claims, Completions, Events, AtStates, RatStates, JatStates, Results, Placed, Completed
<1>2. Gate'
  BY DEF TypeOK, Placed, Gate, Holding, Completed
<1>3. Heard' /\ VerdictAfterRequest' /\ EscalationVisible'
  BY DEF TypeOK, Placed, Heard, VerdictAfterRequest, EscalationVisible, Results
<1>4. Born' /\ OneVerifier'
  BY DEF TypeOK, Born, OneVerifier, Verifying
<1> QED BY <1>1, <1>2, <1>3, <1>4

LEMMA CheckRecordSound ==
  ASSUME Sound, NEW d \in Drainers, NEW k \in Keys, CheckRecord(d, k)
  PROVE  Sound'
<1> USE QueueOK DEF Sound, CheckRecord, GoD, queue, reaper, jobs
<1>1. TypeOK' /\ Placed'
  BY DEF TypeOK, Claims, Completions, Events, AtStates, RatStates, JatStates, Results, Placed, Completed
<1>2. Gate'
  BY DEF TypeOK, Placed, Gate, Holding, Completed
<1>3. Heard' /\ VerdictAfterRequest' /\ EscalationVisible'
  BY DEF TypeOK, Placed, Heard, VerdictAfterRequest, EscalationVisible, Results
<1>4. Born' /\ OneVerifier'
  BY DEF TypeOK, Born, OneVerifier, Verifying
<1> QED BY <1>1, <1>2, <1>3, <1>4

LEMMA try_claimSound ==
  ASSUME Sound, NEW d \in Drainers, try_claim(d)
  PROVE  Sound'
<1> USE QueueOK DEF Sound, try_claim, GoD, reaper, jobs
<1>1. TypeOK' /\ Placed'
  <2>1. TypeOK'
    BY DEF TypeOK, Claims, Completions, Events, AtStates, RatStates, JatStates, Results, Placed
  <2>2. Placed'
    BY DEF TypeOK, Placed, Completed
  <2> QED  BY <2>1, <2>2
<1>2. Gate'
  <2>1. /\ rec[d] \in Keys /\ claims[rec[d]] = "none" /\ at[d] = "checked"
        /\ \A k \in Keys : claims'[k] = IF k = rec[d] THEN "empty" ELSE claims[k]
        /\ \A e \in Drainers : at'[e] = IF e = d THEN "opened" ELSE at[e]
    BY DEF TypeOK, Placed
  <2>2. rec' = rec /\ handed' = handed /\ reaped' = reaped /\ completions' = completions
        /\ handed \in [Keys -> Nat]
    BY DEF TypeOK
  <2>3. \A k \in Keys : \A e \in Drainers :
          Holding(e, k)' => Holding(e, k) \/ (e = d /\ k = rec[d])
    BY <2>1, <2>2 DEF Holding
  <2>4. Gate  OBVIOUS
  <2> QED  BY <2>1, <2>2, <2>3, <2>4 DEF Gate, Completed
<1>3. Heard' /\ VerdictAfterRequest' /\ EscalationVisible'
  BY DEF TypeOK, Placed, Heard, VerdictAfterRequest, EscalationVisible, Results
<1>4. Born' /\ OneVerifier'
  BY DEF TypeOK, Born, OneVerifier, Verifying
<1> QED BY <1>1, <1>2, <1>3, <1>4

LEMMA AlreadyClaimedSound ==
  ASSUME Sound, NEW d \in Drainers, AlreadyClaimed(d)
  PROVE  Sound'
<1> USE QueueOK DEF Sound, AlreadyClaimed, GoD, queue, reaper, jobs
<1>1. TypeOK' /\ Placed'
  BY DEF TypeOK, Claims, Completions, Events, AtStates, RatStates, JatStates, Results, Placed, Completed
<1>2. Gate'
  BY DEF TypeOK, Placed, Gate, Holding, Completed
<1>3. Heard' /\ VerdictAfterRequest' /\ EscalationVisible'
  BY DEF TypeOK, Placed, Heard, VerdictAfterRequest, EscalationVisible, Results
<1>4. Born' /\ OneVerifier'
  BY DEF TypeOK, Born, OneVerifier, Verifying
<1> QED BY <1>1, <1>2, <1>3, <1>4

LEMMA WriteClaimSound ==
  ASSUME Sound, NEW d \in Drainers, WriteClaim(d)
  PROVE  Sound'
<1> USE QueueOK DEF Sound, WriteClaim, GoD, reaper, jobs
<1>1. TypeOK' /\ Placed'
  BY DEF TypeOK, Claims, Completions, Events, AtStates, RatStates, JatStates, Results, Placed, Completed
<1>2. Gate'
  BY DEF TypeOK, Placed, Gate, Holding, Completed
<1>3. Heard' /\ VerdictAfterRequest' /\ EscalationVisible'
  BY DEF TypeOK, Placed, Heard, VerdictAfterRequest, EscalationVisible, Results
<1>4. Born' /\ OneVerifier'
  BY DEF TypeOK, Born, OneVerifier, Verifying
<1> QED BY <1>1, <1>2, <1>3, <1>4

LEMMA AnnounceSound ==
  ASSUME Sound, NEW d \in Drainers, Announce(d)
  PROVE  Sound'
<1> USE QueueOK DEF Sound, Announce, Emit, GoD, queue, reaper, jobs
<1>1. TypeOK' /\ Placed'
  BY DEF TypeOK, Claims, Completions, Events, AtStates, RatStates, JatStates, Results, Placed, Completed
<1>2. Gate'
  BY DEF TypeOK, Placed, Gate, Holding, Completed
<1>3. Heard' /\ VerdictAfterRequest' /\ EscalationVisible'
  BY DEF TypeOK, Placed, Heard, VerdictAfterRequest, EscalationVisible, Results
<1>4. Born' /\ OneVerifier'
  BY DEF TypeOK, Born, OneVerifier, Verifying
<1> QED BY <1>1, <1>2, <1>3, <1>4

LEMMA HandToDispatcherSound ==
  ASSUME Sound, NEW d \in Drainers, HandToDispatcher(d)
  PROVE  Sound'
<1> USE QueueOK DEF Sound, HandToDispatcher, GoD, queue, reaper, jobs
<1>1. TypeOK' /\ Placed'
  BY DEF TypeOK, Claims, Completions, Events, AtStates, RatStates, JatStates, Results, Placed, Completed
<1>2. Gate'
  BY DEF TypeOK, Placed, Gate, Holding, Completed
<1>3. Heard' /\ VerdictAfterRequest' /\ EscalationVisible'
  BY DEF TypeOK, Placed, Heard, VerdictAfterRequest, EscalationVisible, Results
<1>4. Born' /\ OneVerifier'
  BY DEF TypeOK, Born, OneVerifier, Verifying
<1> QED BY <1>1, <1>2, <1>3, <1>4

LEMMA BeatSound ==
  ASSUME Sound, NEW d \in Drainers, Beat(d)
  PROVE  Sound'
<1> USE QueueOK DEF Sound, Beat, drainer, reaper, jobs
<1>1. TypeOK' /\ Placed'
  BY DEF TypeOK, Claims, Completions, Events, AtStates, RatStates, JatStates, Results, Placed, Completed
<1>2. Gate'
  BY DEF TypeOK, Placed, Gate, Holding, Completed
<1>3. Heard' /\ VerdictAfterRequest' /\ EscalationVisible'
  BY DEF TypeOK, Placed, Heard, VerdictAfterRequest, EscalationVisible, Results
<1>4. Born' /\ OneVerifier'
  BY DEF TypeOK, Born, OneVerifier, Verifying
<1> QED BY <1>1, <1>2, <1>3, <1>4

LEMMA BirthSound ==
  ASSUME Sound, NEW d \in Drainers, NEW j \in Jobs, Birth(d, j)
  PROVE  Sound'
<1> USE QueueOK DEF Sound, Birth, Done, GoD, GoJ, queue, reaper
<1>1. TypeOK' /\ Placed'
  BY DEF TypeOK, Claims, Completions, Events, AtStates, RatStates, JatStates, Results, Placed, Completed
<1>2. Gate'
  BY DEF TypeOK, Placed, Gate, Holding, Completed
<1>3. Heard' /\ VerdictAfterRequest' /\ EscalationVisible'
  BY DEF TypeOK, Placed, Heard, VerdictAfterRequest, EscalationVisible, Results
<1>4. Born' /\ OneVerifier'
  BY DEF TypeOK, Born, OneVerifier, Verifying
<1> QED BY <1>1, <1>2, <1>3, <1>4

LEMMA DispatchFailsSound ==
  ASSUME Sound, NEW d \in Drainers, DispatchFails(d)
  PROVE  Sound'
<1> USE QueueOK DEF Sound, DispatchFails, Done, GoD, queue, reaper
<1>1. TypeOK' /\ Placed'
  BY DEF TypeOK, Claims, Completions, Events, AtStates, RatStates, JatStates, Results, Placed, Completed
<1>2. Gate'
  BY DEF TypeOK, Placed, Gate, Holding, Completed
<1>3. Heard' /\ VerdictAfterRequest' /\ EscalationVisible'
  BY DEF TypeOK, Placed, Heard, VerdictAfterRequest, EscalationVisible, Results
<1>4. Born' /\ OneVerifier'
  BY DEF TypeOK, Born, OneVerifier, Verifying
<1> QED BY <1>1, <1>2, <1>3, <1>4

LEMMA StaleUnclaimedSound ==
  ASSUME Sound, NEW d \in Drainers, NEW k \in Keys, StaleUnclaimed(d, k)
  PROVE  Sound'
<1> USE QueueOK DEF Sound, StaleUnclaimed, GoD, queue, reaper, jobs
<1>1. TypeOK' /\ Placed'
  BY DEF TypeOK, Claims, Completions, Events, AtStates, RatStates, JatStates, Results, Placed, Completed
<1>2. Gate'
  BY DEF TypeOK, Placed, Gate, Holding, Completed
<1>3. Heard' /\ VerdictAfterRequest' /\ EscalationVisible'
  BY DEF TypeOK, Placed, Heard, VerdictAfterRequest, EscalationVisible, Results
<1>4. Born' /\ OneVerifier'
  BY DEF TypeOK, Born, OneVerifier, Verifying
<1> QED BY <1>1, <1>2, <1>3, <1>4

LEMMA StaleCheckSound ==
  ASSUME Sound, NEW d \in Drainers, StaleCheck(d)
  PROVE  Sound'
<1> USE QueueOK DEF Sound, StaleCheck, Done, GoD, queue, reaper, jobs
<1>1. TypeOK' /\ Placed'
  BY DEF TypeOK, Claims, Completions, Events, AtStates, RatStates, JatStates, Results, Placed, Completed
<1>2. Gate'
  BY DEF TypeOK, Placed, Gate, Holding, Completed
<1>3. Heard' /\ VerdictAfterRequest' /\ EscalationVisible'
  BY DEF TypeOK, Placed, Heard, VerdictAfterRequest, EscalationVisible, Results
<1>4. Born' /\ OneVerifier'
  BY DEF TypeOK, Born, OneVerifier, Verifying
<1> QED BY <1>1, <1>2, <1>3, <1>4

LEMMA StaleMarkSound ==
  ASSUME Sound, NEW d \in Drainers, StaleMark(d)
  PROVE  Sound'
<1> USE QueueOK DEF Sound, StaleMark, GoD, reaper, jobs
<1>1. TypeOK' /\ Placed'
  BY DEF TypeOK, Claims, Completions, Events, AtStates, RatStates, JatStates, Results, Placed, Completed
<1>2. Gate'
  BY DEF TypeOK, Placed, Gate, Holding, Completed
<1>3. Heard' /\ VerdictAfterRequest' /\ EscalationVisible'
  BY DEF TypeOK, Placed, Heard, VerdictAfterRequest, EscalationVisible, Results
<1>4. Born' /\ OneVerifier'
  BY DEF TypeOK, Born, OneVerifier, Verifying
<1> QED BY <1>1, <1>2, <1>3, <1>4

LEMMA StaleEmitSound ==
  ASSUME Sound, NEW d \in Drainers, StaleEmit(d)
  PROVE  Sound'
<1> USE QueueOK DEF Sound, StaleEmit, Done, Emit, GoD, reaper, jobs
<1>1. TypeOK' /\ Placed'
  BY DEF TypeOK, Claims, Completions, Events, AtStates, RatStates, JatStates, Results, Placed, Completed
<1>2. Gate'
  BY DEF TypeOK, Placed, Gate, Holding, Completed
<1>3. Heard' /\ VerdictAfterRequest' /\ EscalationVisible'
  BY DEF TypeOK, Placed, Heard, VerdictAfterRequest, EscalationVisible, Results
<1>4. Born' /\ OneVerifier'
  BY DEF TypeOK, Born, OneVerifier, Verifying
<1> QED BY <1>1, <1>2, <1>3, <1>4

LEMMA ReapCorruptSound ==
  ASSUME Sound, NEW p \in Reapers, NEW k \in Keys, ReapCorrupt(p, k)
  PROVE  Sound'
<1> USE QueueOK DEF Sound, ReapCorrupt, drainer, jobs
<1>a. k \in Keys /\ IsFiniteSet(reaped[k])
  BY DEF Placed
<1>b. IsFiniteSet(reaped[k] \cup {0})
  BY <1>a, FS_AddElement
<1>c. \A q \in Keys : IsFiniteSet(reaped'[q])
  BY <1>a, <1>b DEF TypeOK, Placed
<1>d. TypeOK'
  BY <1>a DEF TypeOK, Claims, Completions, Events, AtStates, RatStates, JatStates, Results
<1>1. TypeOK' /\ Placed'
  BY <1>c, <1>d DEF Placed, TypeOK, Completed
<1>e. \A q \in Keys : reaped'[q] = {} => reaped[q] = {} /\ claims'[q] = claims[q]
  <2>1. 0 \in reaped'[k]
    BY DEF TypeOK
  <2>2. \A q \in Keys : q # k => reaped'[q] = reaped[q] /\ claims'[q] = claims[q]
    BY DEF TypeOK
  <2> QED BY <2>1, <2>2
<1>2. Gate'
  <2>1. Gate /\ UNCHANGED <<completions, at, rec, handed>>
    OBVIOUS
  <2> HIDE QueueOK DEF Sound, ReapCorrupt
  <2> QED BY <1>e, <2>1 DEF Gate, Holding, Completed
<1>3. Heard' /\ VerdictAfterRequest' /\ EscalationVisible'
  BY DEF TypeOK, Placed, Heard, VerdictAfterRequest, EscalationVisible, Results
<1>4. Born' /\ OneVerifier'
  BY DEF TypeOK, Born, OneVerifier, Verifying
<1> QED BY <1>1, <1>2, <1>3, <1>4

LEMMA ReapSeeSound ==
  ASSUME Sound, NEW p \in Reapers, NEW k \in Keys, ReapSee(p, k)
  PROVE  Sound'
<1> USE QueueOK DEF Sound, ReapSee, GoR, queue, drainer, jobs
<1>0. reclaim_count(k) \in Nat
  BY FS_CardinalityType DEF Placed, reclaim_count
<1>1. TypeOK' /\ Placed'
  BY <1>0 DEF TypeOK, Claims, Completions, Events, AtStates, RatStates, JatStates, Results, Placed, Completed
<1>2. Gate'
  BY DEF TypeOK, Placed, Gate, Holding, Completed
<1>3. Heard' /\ VerdictAfterRequest' /\ EscalationVisible'
  BY DEF TypeOK, Placed, Heard, VerdictAfterRequest, EscalationVisible, Results
<1>4. Born' /\ OneVerifier'
  BY DEF TypeOK, Born, OneVerifier, Verifying
<1> QED BY <1>1, <1>2, <1>3, <1>4

LEMMA ReapMoveSound ==
  ASSUME Sound, NEW p \in Reapers, ReapMove(p)
  PROVE  Sound'
<1> USE QueueOK DEF Sound, ReapMove, GoR, drainer, jobs
<1>a. rkey[p] \in Keys /\ IsFiniteSet(reaped[rkey[p]])
  BY DEF Placed
<1>b. IsFiniteSet(reaped[rkey[p]] \cup {rnum[p]})
  BY <1>a, FS_AddElement
<1>c. \A q \in Keys : IsFiniteSet(reaped'[q])
  BY <1>a, <1>b DEF TypeOK, Placed
<1>d. TypeOK'
  BY <1>a DEF TypeOK, Claims, Completions, Events, AtStates, RatStates, JatStates, Results
<1>1. TypeOK' /\ Placed'
  BY <1>c, <1>d DEF Placed, TypeOK, Completed
<1>e. \A q \in Keys : reaped'[q] = {} => reaped[q] = {} /\ claims'[q] = claims[q]
  <2>1. CASE claims[rkey[p]] = "none"
    BY <2>1
  <2>2. CASE claims[rkey[p]] # "none"
    <3>1. rnum[p] \in reaped'[rkey[p]]
      BY <1>a, <2>2 DEF TypeOK
    <3>2. \A q \in Keys : q # rkey[p] => reaped'[q] = reaped[q] /\ claims'[q] = claims[q]
      BY <1>a, <2>2 DEF TypeOK
    <3> QED BY <3>1, <3>2
  <2> QED BY <2>1, <2>2
<1>2. Gate'
  BY <1>e DEF TypeOK, Placed, Gate, Holding, Completed
<1>3. Heard' /\ VerdictAfterRequest' /\ EscalationVisible'
  BY DEF TypeOK, Placed, Heard, VerdictAfterRequest, EscalationVisible, Results
<1>4. Born' /\ OneVerifier'
  BY DEF TypeOK, Born, OneVerifier, Verifying
<1> QED BY <1>1, <1>2, <1>3, <1>4

LEMMA ReapReportSound ==
  ASSUME Sound, NEW p \in Reapers, ReapReport(p)
  PROVE  Sound'
<1> USE QueueOK DEF Sound, ReapReport, Emit, GoR, drainer, jobs
<1>1. TypeOK' /\ Placed'
  BY DEF TypeOK, Claims, Completions, Events, AtStates, RatStates, JatStates, Results, Placed, Completed
<1>2. Gate'
  BY DEF TypeOK, Placed, Gate, Holding, Completed
<1>3. Heard' /\ VerdictAfterRequest' /\ EscalationVisible'
  BY DEF TypeOK, Placed, Heard, VerdictAfterRequest, EscalationVisible, Results
<1>4. Born' /\ OneVerifier'
  BY DEF TypeOK, Born, OneVerifier, Verifying
<1> QED BY <1>1, <1>2, <1>3, <1>4

LEMMA EscalateEmitSound ==
  ASSUME Sound, NEW p \in Reapers, EscalateEmit(p)
  PROVE  Sound'
<1> USE QueueOK DEF Sound, EscalateEmit, Emit, GoR, queue, drainer, jobs
<1>1. TypeOK' /\ Placed'
  BY DEF TypeOK, Claims, Completions, Events, AtStates, RatStates, JatStates, Results, Placed, Completed
<1>2. Gate'
  BY DEF TypeOK, Placed, Gate, Holding, Completed
<1>3. Heard' /\ VerdictAfterRequest' /\ EscalationVisible'
  BY DEF TypeOK, Placed, Heard, VerdictAfterRequest, EscalationVisible, Results
<1>4. Born' /\ OneVerifier'
  BY DEF TypeOK, Born, OneVerifier, Verifying
<1> QED BY <1>1, <1>2, <1>3, <1>4

LEMMA EscalateMarkSound ==
  ASSUME Sound, NEW p \in Reapers, EscalateMark(p)
  PROVE  Sound'
<1> USE QueueOK DEF Sound, EscalateMark, GoR, drainer, jobs
<1>1. TypeOK' /\ Placed'
  BY DEF TypeOK, Claims, Completions, Events, AtStates, RatStates, JatStates, Results, Placed, Completed
<1>2. Gate'
  BY DEF TypeOK, Placed, Gate, Holding, Completed
<1>3. Heard' /\ VerdictAfterRequest' /\ EscalationVisible'
  BY DEF TypeOK, Placed, Heard, VerdictAfterRequest, EscalationVisible, Results
<1>4. Born' /\ OneVerifier'
  BY DEF TypeOK, Born, OneVerifier, Verifying
<1> QED BY <1>1, <1>2, <1>3, <1>4

LEMMA CompleteCheckSound ==
  ASSUME Sound, NEW j \in Jobs, CompleteCheck(j)
  PROVE  Sound'
<1> USE QueueOK DEF Sound, CompleteCheck, GoJ, queue, drainer, reaper
<1>1. TypeOK' /\ Placed'
  BY DEF TypeOK, Claims, Completions, Events, AtStates, RatStates, JatStates, Results, Placed, Completed
<1>2. Gate'
  BY DEF TypeOK, Placed, Gate, Holding, Completed
<1>3. Heard' /\ VerdictAfterRequest' /\ EscalationVisible'
  BY DEF TypeOK, Placed, Heard, VerdictAfterRequest, EscalationVisible, Results
<1>4. Born' /\ OneVerifier'
  BY DEF TypeOK, Born, OneVerifier, Verifying
<1> QED BY <1>1, <1>2, <1>3, <1>4

LEMMA VerifierFailsSound ==
  ASSUME Sound, NEW j \in Jobs, VerifierFails(j)
  PROVE  Sound'
<1> USE QueueOK DEF Sound, VerifierFails, GoJ, queue, drainer, reaper
<1>1. TypeOK' /\ Placed'
  BY DEF TypeOK, Claims, Completions, Events, AtStates, RatStates, JatStates, Results, Placed, Completed
<1>2. Gate'
  BY DEF TypeOK, Placed, Gate, Holding, Completed
<1>3. Heard' /\ VerdictAfterRequest' /\ EscalationVisible'
  BY DEF TypeOK, Placed, Heard, VerdictAfterRequest, EscalationVisible, Results
<1>4. Born' /\ OneVerifier'
  BY DEF TypeOK, Born, OneVerifier, Verifying
<1> QED BY <1>1, <1>2, <1>3, <1>4

LEMMA CompleteMarkSound ==
  ASSUME Sound, NEW j \in Jobs, CompleteMark(j)
  PROVE  Sound'
<1> USE QueueOK DEF Sound, CompleteMark, GoJ, drainer, reaper
<1>1. TypeOK' /\ Placed'
  BY DEF TypeOK, Claims, Completions, Events, AtStates, RatStates, JatStates, Results, Placed, Completed
<1>2. Gate'
  BY DEF TypeOK, Placed, Gate, Holding, Completed, Results
<1>3. Heard' /\ VerdictAfterRequest' /\ EscalationVisible'
  BY DEF TypeOK, Placed, Heard, VerdictAfterRequest, EscalationVisible, Results
<1>4. Born' /\ OneVerifier'
  BY DEF TypeOK, Born, OneVerifier, Verifying
<1> QED BY <1>1, <1>2, <1>3, <1>4

LEMMA CompleteEmitSound ==
  ASSUME Sound, NEW j \in Jobs, CompleteEmit(j)
  PROVE  Sound'
<1> USE QueueOK DEF Sound, CompleteEmit, Emit, GoJ, drainer, reaper
<1>1. TypeOK' /\ Placed'
  BY DEF TypeOK, Claims, Completions, Events, AtStates, RatStates, JatStates, Results, Placed, Completed
<1>2. Gate'
  BY DEF TypeOK, Placed, Gate, Holding, Completed
<1>3. Heard' /\ VerdictAfterRequest' /\ EscalationVisible'
  BY DEF TypeOK, Placed, Heard, VerdictAfterRequest, EscalationVisible, Results
<1>4. Born' /\ OneVerifier'
  BY DEF TypeOK, Born, OneVerifier, Verifying
<1> QED BY <1>1, <1>2, <1>3, <1>4

LEMMA CompleteUnlinkSound ==
  ASSUME Sound, NEW j \in Jobs, CompleteUnlink(j)
  PROVE  Sound'
<1> USE QueueOK DEF Sound, CompleteUnlink, GoJ, drainer, reaper
<1>1. TypeOK' /\ Placed'
  BY DEF TypeOK, Claims, Completions, Events, AtStates, RatStates, JatStates, Results, Placed, Completed
<1>2. Gate'
  BY DEF TypeOK, Placed, Gate, Holding, Completed
<1>3. Heard' /\ VerdictAfterRequest' /\ EscalationVisible'
  BY DEF TypeOK, Placed, Heard, VerdictAfterRequest, EscalationVisible, Results
<1>4. Born' /\ OneVerifier'
  BY DEF TypeOK, Born, OneVerifier, Verifying
<1> QED BY <1>1, <1>2, <1>3, <1>4

LEMMA DrainerDiesSound ==
  ASSUME Sound, NEW d \in Drainers, DrainerDies(d)
  PROVE  Sound'
<1> USE QueueOK DEF Sound, DrainerDies, Done, GoD, queue, reaper, jobs
<1>1. TypeOK' /\ Placed'
  BY DEF TypeOK, Claims, Completions, Events, AtStates, RatStates, JatStates, Results, Placed, Completed
<1>2. Gate'
  BY DEF TypeOK, Placed, Gate, Holding, Completed
<1>3. Heard' /\ VerdictAfterRequest' /\ EscalationVisible'
  BY DEF TypeOK, Placed, Heard, VerdictAfterRequest, EscalationVisible, Results
<1>4. Born' /\ OneVerifier'
  BY DEF TypeOK, Born, OneVerifier, Verifying
<1> QED BY <1>1, <1>2, <1>3, <1>4

LEMMA ReaperDiesSound ==
  ASSUME Sound, NEW p \in Reapers, ReaperDies(p)
  PROVE  Sound'
<1> USE QueueOK DEF Sound, ReaperDies, GoR, queue, drainer, jobs
<1>1. TypeOK' /\ Placed'
  BY DEF TypeOK, Claims, Completions, Events, AtStates, RatStates, JatStates, Results, Placed, Completed
<1>2. Gate'
  BY DEF TypeOK, Placed, Gate, Holding, Completed
<1>3. Heard' /\ VerdictAfterRequest' /\ EscalationVisible'
  BY DEF TypeOK, Placed, Heard, VerdictAfterRequest, EscalationVisible, Results
<1>4. Born' /\ OneVerifier'
  BY DEF TypeOK, Born, OneVerifier, Verifying
<1> QED BY <1>1, <1>2, <1>3, <1>4

LEMMA SupervisorDiesSound ==
  ASSUME Sound, NEW j \in Jobs, SupervisorDies(j)
  PROVE  Sound'
<1> USE QueueOK DEF Sound, SupervisorDies, GoJ, queue, drainer, reaper
<1>1. TypeOK' /\ Placed'
  BY DEF TypeOK, Claims, Completions, Events, AtStates, RatStates, JatStates, Results, Placed, Completed
<1>2. Gate'
  BY DEF TypeOK, Placed, Gate, Holding, Completed
<1>3. Heard' /\ VerdictAfterRequest' /\ EscalationVisible'
  BY DEF TypeOK, Placed, Heard, VerdictAfterRequest, EscalationVisible, Results
<1>4. Born' /\ OneVerifier'
  BY DEF TypeOK, Born, OneVerifier, Verifying
<1> QED BY <1>1, <1>2, <1>3, <1>4

LEMMA StutterSound == Sound /\ UNCHANGED vars => Sound'
  BY DEF Sound, TypeOK, Placed, Gate, Heard, Born, VerdictAfterRequest,
     EscalationVisible, OneVerifier, Holding, Verifying, Completed,
     vars, queue, drainer, reaper, jobs

LEMMA NextSound == Sound /\ [Next]_vars => Sound'
<1> SUFFICES ASSUME Sound, [Next]_vars
             PROVE  Sound'
  OBVIOUS
<1>1. ASSUME NEW k \in Keys, enqueue(k) \/ RecordAges(k) \/ ClaimAges(k) \/ BirthClaimAges(k)
      PROVE  Sound'
  BY <1>1, enqueueSound, RecordAgesSound, ClaimAgesSound, BirthClaimAgesSound
<1>2. ASSUME NEW d \in Drainers, drain(d) \/ check_stale_pending(d) \/ Beat(d) \/ DrainerDies(d)
      PROVE  Sound'
  BY <1>2, CheckRecordSound, try_claimSound, AlreadyClaimedSound, WriteClaimSound,
     AnnounceSound, HandToDispatcherSound, DispatchFailsSound, BirthSound,
     StaleUnclaimedSound, StaleCheckSound, StaleMarkSound, StaleEmitSound,
     BeatSound, DrainerDiesSound DEF drain, check_stale_pending
<1>3. ASSUME NEW p \in Reapers, reap_stale_claims(p) \/ ReaperDies(p)
      PROVE  Sound'
  BY <1>3, ReapCorruptSound, ReapSeeSound, ReapMoveSound, ReapReportSound,
     EscalateEmitSound, EscalateMarkSound, ReaperDiesSound DEF reap_stale_claims
<1>4. ASSUME NEW j \in Jobs, complete(j) \/ VerifierFails(j) \/ SupervisorDies(j)
      PROVE  Sound'
  BY <1>4, CompleteCheckSound, CompleteMarkSound, CompleteEmitSound,
     CompleteUnlinkSound, VerifierFailsSound, SupervisorDiesSound DEF complete
<1> QED BY <1>1, <1>2, <1>3, <1>4, StutterSound DEF Next

\* Every reachable state of the queue's files and processes satisfies the invariant.
THEOREM QueueSound == Spec => []Sound
  BY InitSound, NextSound, PTL DEF Spec

\* try_claim: a request neither reaped nor completed is handed over at most once.
THEOREM HandedOnce == Spec => []ExactlyOnceGate
<1>1. Sound => ExactlyOnceGate
  BY DEF Sound, Gate, ExactlyOnceGate
<1> QED BY <1>1, QueueSound, PTL

\* dispatch_single's birth claim: two verifiers of a request never overlap.
THEOREM VerifiersNeverOverlap == Spec => []OneVerifier
<1>1. Sound => OneVerifier
  BY DEF Sound
<1> QED BY <1>1, QueueSound, PTL

\* drain announces before it dispatches: transition 30 is logged before 31 to 34.
THEOREM RequestLoggedFirst == Spec => []VerdictAfterRequest
<1>1. Sound => VerdictAfterRequest
  BY DEF Sound
<1> QED BY <1>1, QueueSound, PTL

\* reap_stale_claims escalates to the packet before it closes the request for good.
THEOREM GiveUpLoggedFirst == Spec => []EscalationVisible
<1>1. Sound => EscalationVisible
  BY DEF Sound
<1> QED BY <1>1, QueueSound, PTL

-----------------------------------------------------------------------------
(* How often a request is reclaimed.  Sound counts nothing; ReclaimsSound    *)
(* charges every file in reaped/ to the budget, to the reaper that moved it  *)
(* or to a death, and is kept by every step.                                 *)

\* A union is no larger than its parts together; one element more counts at most one.
LEMMA Unions ==
  ASSUME NEW A, NEW B, IsFiniteSet(A), IsFiniteSet(B)
  PROVE  /\ IsFiniteSet(A \cup B) /\ Cardinality(A \cup B) \in Nat
         /\ Cardinality(A) \in Nat /\ Cardinality(B) \in Nat
         /\ Cardinality(A \cup B) <= Cardinality(A) + Cardinality(B)
<1>1. IsFiniteSet(A \cap B) /\ IsFiniteSet(A \cup B)  BY FS_Subset, FS_Union
<1>2. Cardinality(A \cap B) \in Nat /\ Cardinality(A \cup B) \in Nat
      /\ Cardinality(A) \in Nat /\ Cardinality(B) \in Nat
  BY <1>1, FS_CardinalityType
<1>3. Cardinality(A \cup B) = Cardinality(A) + Cardinality(B) - Cardinality(A \cap B)  BY FS_Union
<1> QED  BY <1>1, <1>2, <1>3

LEMMA OneMore ==
  ASSUME NEW A, NEW x, IsFiniteSet(A)
  PROVE  /\ Cardinality({x}) = 1 /\ IsFiniteSet({x}) /\ Cardinality(A \cup {x}) \in Nat
         /\ Cardinality(A \cup {x}) <= Cardinality(A) + 1
<1>1. Cardinality({x}) = 1 /\ IsFiniteSet({x})  BY FS_Singleton
<1> QED  BY <1>1, Unions

\* Parts of a finite set.
LEMMA Sizes ==
  ASSUME NEW R, IsFiniteSet(R), NEW A \in SUBSET R, NEW B \in SUBSET R, A \cap B = {}
  PROVE  /\ Cardinality(A) \in Nat /\ Cardinality(B) \in Nat /\ Cardinality(R) \in Nat
         /\ Cardinality(A) + Cardinality(B) <= Cardinality(R)
<1>1. IsFiniteSet(A) /\ IsFiniteSet(B) /\ IsFiniteSet(A \cap B)  BY FS_Subset
<1>2. Cardinality(A) \in Nat /\ Cardinality(B) \in Nat /\ Cardinality(R) \in Nat
  BY <1>1, FS_CardinalityType
<1>3. Cardinality(A \cap B) = 0  BY FS_EmptySet
<1>4. Cardinality(A \cup B) = Cardinality(A) + Cardinality(B) - Cardinality(A \cap B)
  BY <1>1, FS_Union
<1>5. A \cup B \in SUBSET R  OBVIOUS
<1>6. Cardinality(A \cup B) <= Cardinality(R)  BY <1>5, FS_Subset
<1> QED  BY <1>2, <1>3, <1>4, <1>6

\* The files past the budget and the reapers about a request can be counted.
LEMMA Counted ==
  ASSUME Sound, NEW k \in Keys
  PROVE  /\ Cardinality(PastBudget(k)) \in Nat /\ Cardinality(Reapers) \in Nat
         /\ Cardinality(Looking(k)) \in Nat /\ Cardinality(Answering(k)) \in Nat
         /\ Cardinality(Looking(k)) + Cardinality(Answering(k)) <= Cardinality(Reapers)
         /\ IsFiniteSet(PastBudget(k)) /\ IsFiniteSet(Looking(k)) /\ IsFiniteSet(Answering(k))
<1>1. IsFiniteSet(reaped[k]) /\ PastBudget(k) \in SUBSET reaped[k]
  BY DEF Sound, Placed, PastBudget
<1>2. IsFiniteSet(PastBudget(k))  BY <1>1, FS_Subset
<1>3. Looking(k) \in SUBSET Reapers /\ Answering(k) \in SUBSET Reapers
      /\ Looking(k) \cap Answering(k) = {}
  BY DEF Looking, Answering
<1>4. IsFiniteSet(Looking(k)) /\ IsFiniteSet(Answering(k))  BY <1>3, QueueOK, FS_Subset
<1> QED  BY <1>2, <1>3, <1>4, QueueOK, Sizes, FS_CardinalityType

\* What the charge comes to.
Charged(k) == Cardinality(PastBudget(k)) + IF Abandoned(k) THEN 1 ELSE 0

\* A step that no reaper takes: a completion closes the account, a death may abandon a claim.
LEMMA OthersReclaim ==
  ASSUME Sound, ReclaimsSound, UNCHANGED <<rat, rkey, rnum>>,
         \A k \in Keys : claims'[k] = "empty_old" => ~Opened(k)',
         \A k \in Keys : Completed(k) => Completed(k)',
         \A k \in Keys : PastBudget(k)' = PastBudget(k),
         \/ crashes' = crashes /\ \A k \in Keys : Abandoned(k)' => Abandoned(k)
         \/ crashes' = crashes + 1
  PROVE  ReclaimsSound'
<1>1. \A p \in Reapers : rat'[p] = "seen" => rnum'[p] > 0  BY DEF ReclaimsSound
<1>2. ASSUME NEW k \in Keys
      PROVE  IF Completed(k)' THEN Charged(k)' + Cardinality(Looking(k)') <= Cardinality(Reapers) + crashes'
             ELSE Charged(k)' <= Cardinality(Answering(k)') + crashes'
  <2>1. Looking(k)' = Looking(k) /\ Answering(k)' = Answering(k) /\ PastBudget(k)' = PastBudget(k)
    BY DEF Looking, Answering
  <2>2. crashes \in Nat  BY DEF Sound, TypeOK
  <2>3. Charged(k)' <= Charged(k) + (crashes' - crashes) /\ Charged(k)' \in Nat /\ Charged(k) \in Nat
    BY <2>1, <2>2, Counted DEF Charged
  <2>4. IF Completed(k) THEN Charged(k) + Cardinality(Looking(k)) <= Cardinality(Reapers) + crashes
        ELSE Charged(k) <= Cardinality(Answering(k)) + crashes
    BY DEF ReclaimsSound, Charged
  <2> HIDE DEF Charged
  <2>5. crashes' \in Nat  BY <2>2
  <2>6. CASE Completed(k)  BY <2>1, <2>2, <2>3, <2>4, <2>5, <2>6, Counted
  <2>7. CASE ~Completed(k)  BY <2>1, <2>2, <2>3, <2>4, <2>5, <2>7, Counted
  <2> QED  BY <2>6, <2>7
<1> QED  BY <1>1, <1>2 DEF ReclaimsSound, Charged

\* The queue's files and the drainers before a step and after, as far as the charge depends on them.
LEMMA ClaimsReclaim ==
  ASSUME Sound, ReclaimsSound, UNCHANGED <<rat, rkey, rnum, reaped, crashes>>,
         \A k \in Keys : completions'[k] = completions[k] \/ completions'[k] # "none",
         \A k \in Keys : \/ claims'[k] = claims[k] /\ (Opened(k) <=> Opened(k)')
                         \/ claims'[k] \notin {"empty", "empty_old"}
                         \/ claims'[k] = "empty" /\ Opened(k)'
                         \/ claims'[k] = "empty_old" /\ claims[k] = "empty" /\ ~Opened(k) /\ ~Opened(k)'
  PROVE  ReclaimsSound'
<1>1. \A k \in Keys : claims'[k] = "empty_old" => ~Opened(k)'  BY DEF ReclaimsSound
<1>2. \A k \in Keys : Completed(k) => Completed(k)'  BY DEF Completed
<1>3. \A k \in Keys : PastBudget(k)' = PastBudget(k)  BY DEF PastBudget
<1>4. \A k \in Keys : Abandoned(k)' => Abandoned(k)  BY DEF Abandoned
<1> QED  BY <1>1, <1>2, <1>3, <1>4, OthersReclaim

\* drain() and check_stale_pending(): a drainer opens a claim and writes it, or touches none.
LEMMA DrainersReclaim ==
  ASSUME Sound, ReclaimsSound, NEW d \in Drainers, drain(d) \/ check_stale_pending(d) \/ Beat(d)
  PROVE  ReclaimsSound'
<1>0. at \in [Drainers -> AtStates] /\ rec \in [Drainers -> Keys \cup {NoKey}]
      /\ claims \in [Keys -> Claims] /\ completions \in [Keys -> Completions]
      /\ (at[d] # "idle" => rec[d] \in Keys)
  BY DEF Sound, TypeOK, Placed
<1>1. ASSUME UNCHANGED <<rat, rkey, rnum, reaped, crashes, claims, completions>>,
             \A k \in Keys : Opened(k)' <=> Opened(k)
      PROVE  ReclaimsSound'
  BY <1>1, ClaimsReclaim
<1>2. ASSUME UNCHANGED <<rat, rkey, rnum, reaped, crashes, claims, completions>>,
             at[d] # "opened", at'[d] # "opened",
             \A e \in Drainers \ {d} : at'[e] = at[e] /\ rec'[e] = rec[e]
      PROVE  ReclaimsSound'
  BY <1>1, <1>2 DEF Opened
<1>3. ASSUME NEW k \in Keys, CheckRecord(d, k) PROVE ReclaimsSound'
  BY <1>0, <1>2, <1>3 DEF CheckRecord, GoD, queue, reaper
<1>4. CASE try_claim(d)
  <2>1. Opened(rec[d])'  BY <1>0, <1>4 DEF try_claim, GoD, Opened
  <2>2. \A k \in Keys : claims'[k] = IF k = rec[d] THEN "empty" ELSE claims[k]
    BY <1>0, <1>4 DEF try_claim
  <2>3. \A k \in Keys \ {rec[d]} : Opened(k) <=> Opened(k)'
    BY <1>0, <1>4 DEF try_claim, GoD, Opened
  <2> QED  BY <1>4, <2>1, <2>2, <2>3, ClaimsReclaim DEF try_claim, reaper
<1>5. CASE AlreadyClaimed(d)
  BY <1>0, <1>2, <1>5 DEF AlreadyClaimed, GoD, queue, reaper
<1>6. CASE WriteClaim(d)
  <2>1. \A k \in Keys : claims'[k] = IF k = rec[d] THEN "fresh" ELSE claims[k]
    BY <1>0, <1>6 DEF WriteClaim
  <2>2. \A k \in Keys \ {rec[d]} : Opened(k) <=> Opened(k)'
    BY <1>0, <1>6 DEF WriteClaim, GoD, Opened
  <2> QED  BY <1>6, <2>1, <2>2, ClaimsReclaim DEF WriteClaim, reaper
<1>7. CASE Announce(d)
  BY <1>0, <1>2, <1>7 DEF Announce, GoD, reaper
<1>8. CASE HandToDispatcher(d)
  BY <1>0, <1>2, <1>8 DEF HandToDispatcher, GoD, queue, reaper
<1>9. CASE DispatchFails(d)
  BY <1>0, <1>2, <1>9 DEF DispatchFails, Done, GoD, queue, reaper
<1>10. ASSUME NEW j \in Jobs, Birth(d, j) PROVE ReclaimsSound'
  BY <1>0, <1>2, <1>10 DEF Birth, Done, GoD, queue, reaper
<1>11. ASSUME NEW k \in Keys, StaleUnclaimed(d, k) PROVE ReclaimsSound'
  BY <1>0, <1>2, <1>11 DEF StaleUnclaimed, GoD, queue, reaper
<1>12. CASE StaleCheck(d)
  BY <1>0, <1>2, <1>12 DEF StaleCheck, Done, GoD, queue, reaper
<1>13. CASE StaleMark(d)
  <2>1. \A k \in Keys : completions'[k] = completions[k] \/ completions'[k] # "none"
    BY <1>0, <1>13 DEF StaleMark
  <2>2. \A k \in Keys : Opened(k) <=> Opened(k)'
    BY <1>0, <1>13 DEF StaleMark, GoD, Opened
  <2> QED  BY <1>13, <2>1, <2>2, ClaimsReclaim DEF StaleMark, reaper
<1>14. CASE StaleEmit(d)
  BY <1>0, <1>2, <1>14 DEF StaleEmit, Done, GoD, reaper
<1>15. CASE Beat(d)
  <2>1. \A k \in Keys : claims'[k] = IF k = rec[d] THEN "fresh" ELSE claims[k]
    BY <1>0, <1>15 DEF Beat
  <2>2. \A k \in Keys : Opened(k) <=> Opened(k)'
    BY <1>15 DEF Beat, drainer, Opened
  <2> QED  BY <1>15, <2>1, <2>2, ClaimsReclaim DEF Beat, reaper
<1> QED  BY <1>3, <1>4, <1>5, <1>6, <1>7, <1>8, <1>9, <1>10, <1>11, <1>12, <1>13, <1>14, <1>15
         DEF drain, check_stale_pending

\* Producers, the clock and complete().
LEMMA WorldReclaims ==
  ASSUME Sound, ReclaimsSound,
         \/ \E k \in Keys : enqueue(k) \/ RecordAges(k) \/ ClaimAges(k) \/ BirthClaimAges(k)
         \/ \E j \in Jobs : complete(j) \/ VerifierFails(j)
         \/ UNCHANGED vars
  PROVE  ReclaimsSound'
<1>0. claims \in [Keys -> Claims] /\ completions \in [Keys -> Completions]
      /\ \A j \in Jobs : jat[j] # "unborn" => jkey[j] \in Keys
  BY DEF Sound, TypeOK, Placed
<1>1. ASSUME UNCHANGED <<rat, rkey, rnum, reaped, crashes, claims, completions, at, rec>>
      PROVE  ReclaimsSound'
  <2>1. \A k \in Keys : Opened(k)' <=> Opened(k)  BY <1>1 DEF Opened
  <2> QED  BY <1>1, <2>1, ClaimsReclaim
<1>2. ASSUME NEW k \in Keys, enqueue(k) \/ RecordAges(k) \/ BirthClaimAges(k) PROVE ReclaimsSound'
  BY <1>1, <1>2 DEF enqueue, RecordAges, BirthClaimAges, queue, drainer, reaper
<1>3. ASSUME NEW k \in Keys, ClaimAges(k) PROVE ReclaimsSound'
  <2>1. ~Opened(k) /\ \A q \in Keys : Opened(q)' <=> Opened(q)
    BY <1>3 DEF ClaimAges, Working, Opened, drainer
  <2>2. \A q \in Keys : claims'[q] = IF q # k THEN claims[q]
                                     ELSE IF claims[q] = "fresh" THEN "stale" ELSE "empty_old"
    BY <1>0, <1>3 DEF ClaimAges
  <2>3. claims[k] \in {"fresh", "empty"}  BY <1>3 DEF ClaimAges
  <2> QED  BY <1>3, <2>1, <2>2, <2>3, ClaimsReclaim DEF ClaimAges, reaper
<1>4. ASSUME NEW j \in Jobs, CompleteCheck(j) \/ VerifierFails(j) \/ CompleteEmit(j)
      PROVE  ReclaimsSound'
  BY <1>1, <1>4 DEF CompleteCheck, VerifierFails, CompleteEmit, queue, drainer, reaper
<1>5. ASSUME NEW j \in Jobs, CompleteMark(j) PROVE ReclaimsSound'
  <2>1. \A k \in Keys : completions'[k] = completions[k] \/ completions'[k] # "none"
    BY <1>0, <1>5 DEF CompleteMark, Results
  <2>2. \A k \in Keys : Opened(k) <=> Opened(k)'  BY <1>5 DEF CompleteMark, drainer, Opened
  <2> QED  BY <1>5, <2>1, <2>2, ClaimsReclaim DEF CompleteMark, reaper
<1>6. ASSUME NEW j \in Jobs, CompleteUnlink(j) PROVE ReclaimsSound'
  <2>1. \A k \in Keys : claims'[k] = IF k = jkey[j] THEN "none" ELSE claims[k]
    BY <1>0, <1>6 DEF CompleteUnlink
  <2>2. \A k \in Keys : Opened(k) <=> Opened(k)'  BY <1>6 DEF CompleteUnlink, drainer, Opened
  <2> QED  BY <1>6, <2>1, <2>2, ClaimsReclaim DEF CompleteUnlink, reaper
<1>7. CASE UNCHANGED vars  BY <1>1, <1>7 DEF vars, queue, drainer, reaper
<1> QED  BY <1>2, <1>3, <1>4, <1>5, <1>6, <1>7 DEF complete

\* A death of a drainer or of a supervisor is one file more at most.
LEMMA DeathsReclaim ==
  ASSUME Sound, ReclaimsSound,
         (\E d \in Drainers : DrainerDies(d)) \/ (\E j \in Jobs : SupervisorDies(j))
  PROVE  ReclaimsSound'
<1>1. UNCHANGED <<rat, rkey, rnum, reaped, claims, completions>> /\ crashes' = crashes + 1
  BY DEF DrainerDies, SupervisorDies, queue, reaper
<1>2. \A k \in Keys : Opened(k)' => Opened(k)
  <2>1. ASSUME NEW d \in Drainers, DrainerDies(d), NEW k \in Keys, Opened(k)' PROVE Opened(k)
    BY <2>1 DEF DrainerDies, Done, GoD, Opened, Sound, TypeOK
  <2>2. ASSUME NEW j \in Jobs, SupervisorDies(j), NEW k \in Keys, Opened(k)' PROVE Opened(k)
    BY <2>2 DEF SupervisorDies, drainer, Opened
  <2> QED  BY <2>1, <2>2
<1>3. \A k \in Keys : claims'[k] = "empty_old" => ~Opened(k)'  BY <1>1, <1>2 DEF ReclaimsSound
<1>4. \A k \in Keys : (Completed(k) => Completed(k)') /\ PastBudget(k)' = PastBudget(k)
  BY <1>1 DEF Completed, PastBudget
<1> QED  BY <1>1, <1>3, <1>4, OthersReclaim

\* A body-less claim goes to reaped/ as its dead drainer's file.
LEMMA ReapCorruptReclaims ==
  ASSUME Sound, ReclaimsSound, NEW p \in Reapers, NEW k \in Keys, ReapCorrupt(p, k)
  PROVE  ReclaimsSound'
<1>1. claims[k] = "empty_old" /\ UNCHANGED <<rat, rkey, rnum, crashes, completions, at, rec>>
      /\ claims' = [claims EXCEPT ![k] = "none"] /\ reaped' = [reaped EXCEPT ![k] = @ \cup {0}]
      /\ claims \in [Keys -> Claims] /\ reaped \in [Keys -> SUBSET Nat]
  BY DEF ReapCorrupt, drainer, Sound, TypeOK
<1>2. \A q \in Keys : claims'[q] = (IF q = k THEN "none" ELSE claims[q])
                      /\ reaped'[q] = (IF q = k THEN reaped[q] \cup {0} ELSE reaped[q])
  BY <1>1
<1>3. \A q \in Keys : Opened(q)' <=> Opened(q)  BY <1>1 DEF Opened
<1>4. \A q \in Keys : claims'[q] = "empty_old" => ~Opened(q)'
  BY <1>2, <1>3 DEF ReclaimsSound
<1>5. \A q \in Keys : Completed(q) => Completed(q)'  BY <1>1 DEF Completed
<1>6. \A q \in Keys : PastBudget(q)' = PastBudget(q)
  <2> SUFFICES ASSUME NEW q \in Keys PROVE PastBudget(q)' = PastBudget(q)  OBVIOUS
  <2>1. ~(0 > claim_max_reclaims)  BY QueueOK
  <2> QED  BY <1>2, <2>1 DEF PastBudget
<1>7. \A q \in Keys : Abandoned(q)' => Abandoned(q)
  <2>1. Abandoned(k)  BY <1>1 DEF Abandoned, ReclaimsSound
  <2> QED  BY <1>2, <1>3, <2>1 DEF Abandoned
<1> QED  BY <1>1, <1>4, <1>5, <1>6, <1>7, OthersReclaim

\* A reaper looks at a claim of a request without a completion.
LEMMA ReapSeeReclaims ==
  ASSUME Sound, ReclaimsSound, NEW p \in Reapers, NEW k \in Keys, ReapSee(p, k)
  PROVE  ReclaimsSound'
<1>1. rat[p] = "idle" /\ ~Completed(k) /\ UNCHANGED <<reaped, crashes, completions, claims, at, rec>>
      /\ rat' = [rat EXCEPT ![p] = "seen"] /\ rkey' = [rkey EXCEPT ![p] = k]
      /\ rnum' = [rnum EXCEPT ![p] = reclaim_count(k) + 1]
      /\ rat \in [Reapers -> RatStates] /\ rkey \in [Reapers -> Keys \cup {NoKey}]
      /\ rnum \in [Reapers -> Nat]
  BY DEF ReapSee, GoR, queue, drainer, Sound, TypeOK
<1>2. reclaim_count(k) \in Nat
  BY FS_CardinalityType DEF Sound, Placed, reclaim_count
<1>3. \A q \in Reapers : rat'[q] = "seen" => rnum'[q] > 0
  BY <1>1, <1>2 DEF ReclaimsSound
<1>4. \A q \in Keys : claims'[q] = "empty_old" => ~Opened(q)'
  BY <1>1 DEF ReclaimsSound, Opened
<1>5. ASSUME NEW q \in Keys
      PROVE  /\ PastBudget(q)' = PastBudget(q) /\ (Abandoned(q)' <=> Abandoned(q))
             /\ (Completed(q)' <=> Completed(q)) /\ Answering(q)' = Answering(q)
             /\ Completed(q) => Looking(q)' = Looking(q)
  <2>1. PastBudget(q)' = PastBudget(q) /\ (Abandoned(q)' <=> Abandoned(q))
        /\ (Completed(q)' <=> Completed(q))
    BY <1>1 DEF PastBudget, Abandoned, Opened, Completed
  <2>2. Answering(q)' = Answering(q)  BY <1>1 DEF Answering
  <2>3. Completed(q) => Looking(q)' = Looking(q)  BY <1>1 DEF Looking
  <2> QED  BY <2>1, <2>2, <2>3
<1> QED  BY <1>1, <1>3, <1>4, <1>5 DEF ReclaimsSound

\* The claim is moved: past the budget, by a reaper that answers for it, or that had looked
\* before the completion.
LEMMA ReapMoveReclaims ==
  ASSUME Sound, ReclaimsSound, NEW p \in Reapers, ReapMove(p)
  PROVE  ReclaimsSound'
<1>0. rat[p] = "seen" /\ rnum[p] > 0 /\ rkey[p] \in Keys /\ rnum[p] \in Nat
      /\ UNCHANGED <<rkey, rnum, crashes, completions, at, rec>>
      /\ rat \in [Reapers -> RatStates] /\ claims \in [Keys -> Claims]
      /\ reaped \in [Keys -> SUBSET Nat] /\ crashes \in Nat
  BY DEF ReapMove, drainer, Sound, TypeOK, Placed, ReclaimsSound
<1>1. PICK k \in Keys, n \in Nat, place \in {"idle", "moved"} :
        /\ k = rkey[p] /\ n = rnum[p] /\ n > 0
        /\ rat' = [rat EXCEPT ![p] = place]
        /\ \/ place = "idle" /\ claims' = claims /\ reaped' = reaped
           \/ place = "moved" /\ claims' = [claims EXCEPT ![k] = "none"]
              /\ reaped' = [reaped EXCEPT ![k] = @ \cup {n}]
  BY <1>0 DEF ReapMove, GoR
<1>2. \A q \in Keys : Opened(q)' <=> Opened(q)  BY <1>0 DEF Opened
<1>3. \A q \in Keys : claims'[q] = claims[q] \/ claims'[q] = "none"  BY <1>0, <1>1
<1>4. \A q \in Keys : claims'[q] = "empty_old" => ~Opened(q)'
  BY <1>2, <1>3 DEF ReclaimsSound
<1>5. \A q \in Reapers : rat'[q] = "seen" => rnum'[q] > 0
  BY <1>0, <1>1 DEF ReclaimsSound
<1>6. ASSUME NEW q \in Keys
      PROVE  /\ Abandoned(q)' => Abandoned(q)
             /\ Completed(q)' <=> Completed(q)
             /\ Looking(q)' = (IF q = k THEN Looking(q) \ {p} ELSE Looking(q))
             /\ p \in Looking(k) /\ p \notin Answering(k)
             /\ Answering(q)' = (IF q = k /\ place = "moved" /\ n > claim_max_reclaims
                                 THEN Answering(q) \cup {p} ELSE Answering(q))
             /\ PastBudget(q)' = (IF q = k /\ place = "moved" /\ n > claim_max_reclaims
                                  THEN PastBudget(q) \cup {n} ELSE PastBudget(q))
  <2>1. reaped'[q] = reaped[q] \/ (q = k /\ place = "moved" /\ reaped'[q] = reaped[q] \cup {n})
    BY <1>0, <1>1
  <2>2. Abandoned(q)' => Abandoned(q)  BY <1>1, <1>2, <1>3, <2>1 DEF Abandoned
  <2>3. Completed(q)' <=> Completed(q)  BY <1>0 DEF Completed
  <2>4. \A r \in Reapers : rat'[r] = IF r = p THEN place ELSE rat[r]  BY <1>0, <1>1
  <2>5. Looking(q)' = (IF q = k THEN Looking(q) \ {p} ELSE Looking(q))
        /\ p \in Looking(k) /\ p \notin Answering(k)
    BY <1>0, <1>1, <2>4 DEF Looking, Answering
  <2>6. Answering(q)' = (IF q = k /\ place = "moved" /\ n > claim_max_reclaims
                         THEN Answering(q) \cup {p} ELSE Answering(q))
    BY <1>0, <1>1, <2>4 DEF Answering
  <2>7. PastBudget(q)' = (IF q = k /\ place = "moved" /\ n > claim_max_reclaims
                          THEN PastBudget(q) \cup {n} ELSE PastBudget(q))
    <3>1. CASE place = "idle"  BY <1>1, <3>1 DEF PastBudget
    <3>2. CASE place = "moved"
      <4>1. reaped'[q] = IF q = k THEN reaped[q] \cup {n} ELSE reaped[q]  BY <1>0, <1>1, <3>2
      <4> QED  BY <3>2, <4>1 DEF PastBudget
    <3> QED  BY <3>1, <3>2
  <2> QED  BY <2>2, <2>3, <2>5, <2>6, <2>7
<1>7. ASSUME NEW q \in Keys
      PROVE  /\ Completed(q) => Charged(q)' + Cardinality(Looking(q)') <= Charged(q) + Cardinality(Looking(q))
             /\ ~Completed(q) => Charged(q)' + Cardinality(Answering(q)) <= Charged(q) + Cardinality(Answering(q)')
             /\ Charged(q) \in Nat /\ Charged(q)' \in Nat
             /\ Cardinality(Looking(q)') \in Nat /\ Cardinality(Answering(q)') \in Nat
  <2> DEFINE moved == q = k /\ place = "moved" /\ n > claim_max_reclaims
  <2>1. /\ Cardinality(PastBudget(q)) \in Nat /\ Cardinality(Looking(q)) \in Nat
        /\ Cardinality(Answering(q)) \in Nat
        /\ IsFiniteSet(PastBudget(q)) /\ IsFiniteSet(Looking(q)) /\ IsFiniteSet(Answering(q))
    BY Counted
  <2>2. /\ Cardinality(PastBudget(q)') \in Nat
        /\ Cardinality(PastBudget(q)') <= Cardinality(PastBudget(q)) + (IF moved THEN 1 ELSE 0)
    <3>1. CASE moved
      <4>1. PastBudget(q)' = PastBudget(q) \cup {n}  BY <1>6, <3>1
      <4> QED  BY <2>1, <3>1, <4>1, OneMore
    <3>2. CASE ~moved
      <4>1. PastBudget(q)' = PastBudget(q)  BY <1>6, <3>2
      <4> QED  BY <2>1, <3>2, <4>1
    <3> QED  BY <3>1, <3>2
  <2>3. Cardinality(Looking(q)') = IF q = k THEN Cardinality(Looking(q)) - 1 ELSE Cardinality(Looking(q))
    BY <1>6, <2>1, FS_RemoveElement
  <2>4. Cardinality(Answering(q)') = IF moved THEN Cardinality(Answering(q)) + 1 ELSE Cardinality(Answering(q))
    BY <1>6, <2>1, FS_AddElement
  <2>5. Cardinality(Looking(q)') \in Nat
    <3>1. IsFiniteSet(Looking(q) \ {p})  BY <2>1, FS_RemoveElement
    <3> QED  BY <1>6, <2>1, <3>1, FS_CardinalityType
  <2>6. moved => q = k  OBVIOUS
  <2> HIDE DEF moved
  <2> QED  BY <1>6, <2>1, <2>2, <2>3, <2>4, <2>5, <2>6 DEF Charged
<1>8. ASSUME NEW q \in Keys
      PROVE  IF Completed(q)' THEN Charged(q)' + Cardinality(Looking(q)') <= Cardinality(Reapers) + crashes'
             ELSE Charged(q)' <= Cardinality(Answering(q)') + crashes'
  <2>1. IF Completed(q) THEN Charged(q) + Cardinality(Looking(q)) <= Cardinality(Reapers) + crashes
        ELSE Charged(q) <= Cardinality(Answering(q)) + crashes
    BY DEF ReclaimsSound, Charged
  <2> HIDE DEF Charged
  <2>2. crashes' = crashes  BY <1>0
  <2> QED  BY <1>0, <1>6, <1>7, <2>1, <2>2, Counted
<1> QED  BY <1>4, <1>5, <1>8 DEF ReclaimsSound, Charged

\* A reaper reports within the budget, announces past it, or writes the completion.
LEMMA ReapAnswersReclaims ==
  ASSUME Sound, ReclaimsSound, NEW p \in Reapers, ReapReport(p) \/ EscalateEmit(p) \/ EscalateMark(p)
  PROVE  ReclaimsSound'
<1>0. /\ rat \in [Reapers -> RatStates] /\ completions \in [Keys -> Completions]
      /\ rkey[p] \in Keys /\ rnum[p] \in Nat /\ crashes \in Nat
      /\ UNCHANGED <<rkey, rnum, reaped, crashes, claims, at, rec>>
      /\ \/ /\ rat' = [rat EXCEPT ![p] = "idle"] /\ UNCHANGED completions
            /\ rat[p] = "moved" /\ rnum[p] <= claim_max_reclaims
         \/ /\ rat' = [rat EXCEPT ![p] = "escalating"] /\ UNCHANGED completions
            /\ rat[p] = "moved" /\ rnum[p] > claim_max_reclaims
         \/ /\ rat' = [rat EXCEPT ![p] = "idle"] /\ rat[p] = "escalating"
            /\ completions' = [completions EXCEPT ![rkey[p]] = "escalated_l3"]
  BY DEF ReapReport, EscalateEmit, EscalateMark, GoR, drainer, Sound, TypeOK, Placed
<1>1. \A q \in Keys : claims'[q] = "empty_old" => ~Opened(q)'
  BY <1>0 DEF ReclaimsSound, Opened
<1>2. \A q \in Reapers : rat'[q] = "seen" => rnum'[q] > 0
  BY <1>0 DEF ReclaimsSound
<1>3. ASSUME NEW q \in Keys
      PROVE  /\ Charged(q)' = Charged(q) /\ Looking(q)' = Looking(q)
             /\ Answering(q)' = Answering(q) \/ Completed(q)'
             /\ Completed(q) => Completed(q)'
  <2>1. Charged(q)' = Charged(q)  BY <1>0 DEF Charged, PastBudget, Abandoned, Opened
  <2>2. Looking(q)' = Looking(q)  BY <1>0 DEF Looking
  <2>3. Completed(q) => Completed(q)'  BY <1>0 DEF Completed
  <2>4. Answering(q)' = Answering(q) \/ Completed(q)'
    <3>1. CASE rat'[p] = "idle" /\ rat[p] = "escalating" /\ q = rkey[p]
              /\ completions' = [completions EXCEPT ![rkey[p]] = "escalated_l3"]
      BY <1>0, <3>1 DEF Completed
    <3>2. CASE q # rkey[p]  BY <1>0, <3>2 DEF Answering
    <3>3. CASE rat[p] = "moved" /\ rnum[p] <= claim_max_reclaims
      BY <1>0, <3>3, QueueOK DEF Answering
    <3>4. CASE rat[p] = "moved" /\ rnum[p] > claim_max_reclaims /\ rat' = [rat EXCEPT ![p] = "escalating"]
      BY <1>0, <3>4 DEF Answering
    <3> QED  BY <1>0, <3>1, <3>2, <3>3, <3>4
  <2> QED  BY <2>1, <2>2, <2>3, <2>4
<1>4. ASSUME NEW q \in Keys
      PROVE  IF Completed(q)' THEN Charged(q)' + Cardinality(Looking(q)') <= Cardinality(Reapers) + crashes'
             ELSE Charged(q)' <= Cardinality(Answering(q)') + crashes'
  <2>1. IF Completed(q) THEN Charged(q) + Cardinality(Looking(q)) <= Cardinality(Reapers) + crashes
        ELSE Charged(q) <= Cardinality(Answering(q)) + crashes
    BY DEF ReclaimsSound, Charged
  <2>2. Charged(q) \in Nat  BY Counted DEF Charged
  <2> HIDE DEF Charged
  <2>3. crashes' = crashes  BY <1>0
  <2> QED  BY <1>0, <1>3, <2>1, <2>2, <2>3, Counted
<1> QED  BY <1>1, <1>2, <1>4 DEF ReclaimsSound, Charged

\* A reaper that dies leaves its move to the deaths.
LEMMA ReaperDiesReclaims ==
  ASSUME Sound, ReclaimsSound, NEW p \in Reapers, ReaperDies(p)
  PROVE  ReclaimsSound'
<1>0. /\ rat \in [Reapers -> RatStates] /\ crashes \in Nat /\ crashes' = crashes + 1
      /\ UNCHANGED <<rkey, rnum, reaped, claims, completions, at, rec>>
      /\ rat' = [rat EXCEPT ![p] = "idle"]
  BY DEF ReaperDies, GoR, queue, drainer, Sound, TypeOK
<1>1. \A q \in Keys : claims'[q] = "empty_old" => ~Opened(q)'
  BY <1>0 DEF ReclaimsSound, Opened
<1>2. \A q \in Reapers : rat'[q] = "seen" => rnum'[q] > 0
  BY <1>0 DEF ReclaimsSound
<1>3. ASSUME NEW q \in Keys
      PROVE  /\ Charged(q)' = Charged(q) /\ Looking(q)' = Looking(q) \ {p}
             /\ Answering(q)' = Answering(q) \ {p} /\ (Completed(q)' <=> Completed(q))
  <2>1. Charged(q)' = Charged(q)  BY <1>0 DEF Charged, PastBudget, Abandoned, Opened
  <2>2. Looking(q)' = Looking(q) \ {p}  BY <1>0 DEF Looking
  <2>3. Answering(q)' = Answering(q) \ {p}  BY <1>0 DEF Answering
  <2>4. Completed(q)' <=> Completed(q)  BY <1>0 DEF Completed
  <2> QED  BY <2>1, <2>2, <2>3, <2>4
<1>4. ASSUME NEW q \in Keys
      PROVE  IF Completed(q)' THEN Charged(q)' + Cardinality(Looking(q)') <= Cardinality(Reapers) + crashes'
             ELSE Charged(q)' <= Cardinality(Answering(q)') + crashes'
  <2>1. IF Completed(q) THEN Charged(q) + Cardinality(Looking(q)) <= Cardinality(Reapers) + crashes
        ELSE Charged(q) <= Cardinality(Answering(q)) + crashes
    BY DEF ReclaimsSound, Charged
  <2>2. Charged(q) \in Nat  BY Counted DEF Charged
  <2> HIDE DEF Charged
  <2>3. /\ Cardinality(Looking(q)') \in {Cardinality(Looking(q)) - 1, Cardinality(Looking(q))}
        /\ Cardinality(Answering(q)') \in {Cardinality(Answering(q)) - 1, Cardinality(Answering(q))}
    BY <1>3, Counted, FS_RemoveElement
  <2> QED  BY <1>0, <1>3, <2>1, <2>2, <2>3, Counted
<1> QED  BY <1>1, <1>2, <1>4 DEF ReclaimsSound, Charged

\* Whatever happens next, the charge is met.
LEMMA NextReclaims == Sound /\ ReclaimsSound /\ [Next]_vars => ReclaimsSound'
<1> SUFFICES ASSUME Sound, ReclaimsSound, [Next]_vars PROVE ReclaimsSound'
  OBVIOUS
<1>1. ASSUME NEW d \in Drainers, drain(d) \/ check_stale_pending(d) \/ Beat(d) \/ DrainerDies(d)
      PROVE  ReclaimsSound'
  BY <1>1, DrainersReclaim, DeathsReclaim
<1>2. ASSUME NEW p \in Reapers, reap_stale_claims(p) \/ ReaperDies(p)
      PROVE  ReclaimsSound'
  BY <1>2, ReapCorruptReclaims, ReapSeeReclaims, ReapMoveReclaims, ReapAnswersReclaims,
     ReaperDiesReclaims DEF reap_stale_claims
<1>3. ASSUME NEW j \in Jobs, complete(j) \/ VerifierFails(j) \/ SupervisorDies(j)
      PROVE  ReclaimsSound'
  BY <1>3, WorldReclaims, DeathsReclaim
<1> QED  BY <1>1, <1>2, <1>3, WorldReclaims DEF Next

\* Nothing is reaped or abandoned at first.
LEMMA InitReclaims == Init => ReclaimsSound
<1> SUFFICES ASSUME Init PROVE ReclaimsSound
  OBVIOUS
<1>1. \A k \in Keys : PastBudget(k) = {} /\ Answering(k) = {} /\ Looking(k) = {}
                      /\ ~Abandoned(k) /\ ~Completed(k) /\ claims[k] = "none"
  BY DEF Init, PastBudget, Answering, Looking, Abandoned, Completed
<1>2. crashes = 0 /\ \A p \in Reapers : rat[p] = "idle"  BY DEF Init
<1> QED  BY <1>1, <1>2, FS_EmptySet DEF ReclaimsSound

\* Files within the budget, of which 0 is a dead drainer's, and files past it.
LEMMA ChargeBounds ==
  ASSUME Sound, ReclaimsSound, NEW k \in Keys
  PROVE  reclaim_count(k) <= claim_max_reclaims + Cardinality(Reapers) + crashes
<1> DEFINE first == IF 0 \in reaped[k] THEN {0} ELSE {}
           within == 1..claim_max_reclaims
<1>1. reaped[k] \subseteq first \cup (within \cup PastBudget(k)) /\ crashes \in Nat
  <2>1. reaped[k] \in SUBSET Nat  BY DEF Sound, TypeOK
  <2>2. ASSUME NEW n \in reaped[k] PROVE n \in first \cup (within \cup PastBudget(k))
    BY <2>1, QueueOK DEF PastBudget
  <2> QED  BY <2>2 DEF Sound, TypeOK
<1>2. IsFiniteSet(within) /\ Cardinality(within) = claim_max_reclaims
  BY QueueOK, FS_Interval
<1>3. IsFiniteSet(PastBudget(k)) /\ Cardinality(PastBudget(k)) \in Nat  BY Counted
<1>4. IsFiniteSet(first) /\ Cardinality(first) <= (IF Abandoned(k) THEN 1 ELSE 0) /\ Cardinality(first) \in Nat
  <2>1. CASE 0 \in reaped[k]
    <3>1. first = {0} /\ Abandoned(k)  BY <2>1 DEF Abandoned
    <3>2. Cardinality({0}) = 1 /\ IsFiniteSet({0})  BY FS_Singleton
    <3> HIDE DEF first
    <3> QED  BY <3>1, <3>2
  <2>2. CASE 0 \notin reaped[k]  BY <2>2, FS_EmptySet
  <2> QED  BY <2>1, <2>2
<1> HIDE DEF first, within
<1>5. IsFiniteSet(within \cup PastBudget(k))
      /\ Cardinality(within \cup PastBudget(k)) <= claim_max_reclaims + Cardinality(PastBudget(k))
  BY <1>2, <1>3, QueueOK, Unions
<1>6. IsFiniteSet(first \cup (within \cup PastBudget(k)))
      /\ Cardinality(first \cup (within \cup PastBudget(k)))
           <= Cardinality(first) + Cardinality(within \cup PastBudget(k))
  BY <1>4, <1>5, Unions
<1>7. reclaim_count(k) <= Cardinality(first \cup (within \cup PastBudget(k))) /\ reclaim_count(k) \in Nat
  <2>1. reaped[k] \in SUBSET (first \cup (within \cup PastBudget(k)))  BY <1>1
  <2> QED  BY <1>6, <2>1, FS_Subset, FS_CardinalityType DEF reclaim_count, Sound, Placed
<1>8. Cardinality(first \cup (within \cup PastBudget(k))) \in Nat
      /\ Cardinality(within \cup PastBudget(k)) \in Nat
  BY <1>5, <1>6, FS_CardinalityType
<1>9. Charged(k) <= Cardinality(Reapers) + crashes /\ Charged(k) \in Nat
  <2>1. Charged(k) \in Nat  BY <1>3 DEF Charged
  <2>2. IF Completed(k) THEN Charged(k) + Cardinality(Looking(k)) <= Cardinality(Reapers) + crashes
        ELSE Charged(k) <= Cardinality(Answering(k)) + crashes
    BY DEF ReclaimsSound, Charged
  <2> HIDE DEF Charged
  <2> QED  BY <1>1, <2>1, <2>2, Counted
<1>10. Cardinality(first) + Cardinality(PastBudget(k)) <= Charged(k)
  BY <1>3, <1>4 DEF Charged
<1> QED  BY <1>1, <1>3, <1>4, <1>5, <1>6, <1>7, <1>8, <1>9, <1>10, QueueOK, Counted

\* reap_stale_claims, whatever races and dies: a request is reclaimed claim_max_reclaims times,
\* then once per reaper at most and once more per death.
THEOREM ReclaimsBounded == Spec => []ReclaimBudget
<1>1. Sound /\ ReclaimsSound => ReclaimBudget
  BY ChargeBounds DEF ReclaimBudget
<1> QED BY <1>1, InitReclaims, NextReclaims, QueueSound, PTL DEF Spec
=============================================================================
