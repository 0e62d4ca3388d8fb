----------------------------- MODULE EdgeProofs -----------------------------
(***************************************************************************)
(* What lifecycle edges drive, for any number of processes and faults.     *)
(* The terminal-edge handshake: Sound is inductive for any supervisors and *)
(* runner generations.  The refill: Inv is inductive for any packets,      *)
(* pools' targets, parents and actuators.  A second child of a packet is   *)
(* refused because its birth is either in the ledger or among the news of  *)
(* the wave that holds the lock, which names each packet once.             *)
(***************************************************************************)
EXTENDS TerminalEpilogue, Refill, FiniteSetTheorems, SequenceTheorems,
        WellFoundedInduction, TLAPS

-----------------------------------------------------------------------------
(* The terminal-edge handshake.                                            *)

\* Nothing is requested at first.
LEMMA EdgeInitSound == EdgeInit => Sound
  BY ProcessesOK DEF EdgeInit, Sound, EdgeTypeOK, CountsAgree, PassedBeforeClose,
     ConsumedWasPassed, ClaimDiscipline, MarkerDrains, NoStrandedEdge,
     SupStates, RunStates

\* The steps of a supervisor.
LEMMA WorkerEndsSound ==
  ASSUME Sound, NEW s \in Supervisors, WorkerEnds(s)
  PROVE  Sound'
  BY ProcessesOK DEF Sound, EdgeTypeOK, CountsAgree, PassedBeforeClose, ConsumedWasPassed,
     ClaimDiscipline, MarkerDrains, NoStrandedEdge, SupStates, Draining,
     WorkerEnds, files, passes

\* A supervisor counts its edge under the claim lock.
LEMMA CountEdgeSound ==
  ASSUME Sound, NEW s \in Supervisors, CountEdge(s)
  PROVE  Sound'
<1> USE ProcessesOK DEF Sound, CountEdge, passes
<1>1. EdgeTypeOK'
  BY DEF EdgeTypeOK, SupStates
<1>2. CountsAgree'
  BY DEF EdgeTypeOK, CountsAgree
<1>3. PassedBeforeClose'
  BY DEF EdgeTypeOK, CountsAgree, PassedBeforeClose
<1>4. ConsumedWasPassed'
  BY DEF EdgeTypeOK, CountsAgree, ConsumedWasPassed
<1>5. ClaimDiscipline'
  BY DEF EdgeTypeOK, ClaimDiscipline
<1>6. MarkerDrains'
  BY DEF EdgeTypeOK, MarkerDrains, Draining
<1>7. NoStrandedEdge'
  BY DEF EdgeTypeOK, NoStrandedEdge
<1> QED BY <1>1, <1>2, <1>3, <1>4, <1>5, <1>6, <1>7

\* Leaving the edge to the runner of the marker is safe because the claim kept
\* that runner from closing: while nothing was killed it is draining.
LEMMA CoalesceSound ==
  ASSUME Sound, NEW s \in Supervisors, Coalesce(s)
  PROVE  Sound'
<1> USE ProcessesOK DEF Sound, Coalesce, files, passes
<1>1. EdgeTypeOK' /\ CountsAgree' /\ PassedBeforeClose' /\ ConsumedWasPassed'
  BY DEF EdgeTypeOK, SupStates, CountsAgree, PassedBeforeClose, ConsumedWasPassed
<1>2. ClaimDiscipline' /\ MarkerDrains'
  BY DEF EdgeTypeOK, ClaimDiscipline, MarkerDrains, Draining
<1>3. NoStrandedEdge'
  BY DEF EdgeTypeOK, MarkerDrains, Draining, runner_generation_alive, NoStrandedEdge
<1> QED BY <1>1, <1>2, <1>3

\* With no living runner, a supervisor starts one.
LEMMA StartRunnerSound ==
  ASSUME Sound, NEW s \in Supervisors, NEW r \in Generations, StartRunner(s, r)
  PROVE  Sound'
<1> USE ProcessesOK DEF Sound, StartRunner, files
<1>1. EdgeTypeOK' /\ CountsAgree' /\ PassedBeforeClose' /\ ConsumedWasPassed'
  BY DEF EdgeTypeOK, SupStates, RunStates, CountsAgree, PassedBeforeClose, ConsumedWasPassed
<1>2. ClaimDiscipline' /\ MarkerDrains'
  BY DEF EdgeTypeOK, ClaimDiscipline, MarkerDrains, Draining
<1>3. NoStrandedEdge'
  BY DEF EdgeTypeOK, NoStrandedEdge
<1> QED BY <1>1, <1>2, <1>3

\* The marker names the runner just started, and the lock is given back.
LEMMA WriteMarkerSound ==
  ASSUME Sound, NEW s \in Supervisors, WriteMarker(s)
  PROVE  Sound'
<1> USE ProcessesOK DEF Sound, WriteMarker, passes
<1>1. EdgeTypeOK' /\ CountsAgree' /\ PassedBeforeClose' /\ ConsumedWasPassed'
  BY DEF EdgeTypeOK, SupStates, CountsAgree, PassedBeforeClose, ConsumedWasPassed
<1>2. ClaimDiscipline' /\ MarkerDrains'
  BY DEF EdgeTypeOK, ClaimDiscipline, MarkerDrains, Draining
<1>3. NoStrandedEdge'
  BY DEF EdgeTypeOK, MarkerDrains, Draining, NoStrandedEdge
<1> QED BY <1>1, <1>2, <1>3

\* A supervisor whose scheduling fails leaves its edge counted, for a later runner.
LEMMA SchedulingFailsSound ==
  ASSUME Sound, NEW s \in Supervisors, SchedulingFails(s)
  PROVE  Sound'
<1> USE ProcessesOK DEF Sound, SchedulingFails, files, passes
<1>1. EdgeTypeOK' /\ CountsAgree' /\ PassedBeforeClose' /\ ConsumedWasPassed'
  BY DEF EdgeTypeOK, SupStates, CountsAgree, PassedBeforeClose, ConsumedWasPassed
<1>2. ClaimDiscipline' /\ MarkerDrains' /\ NoStrandedEdge'
  BY DEF EdgeTypeOK, ClaimDiscipline, MarkerDrains, NoStrandedEdge
<1> QED BY <1>1, <1>2

\* The steps of a runner.
LEMMA TakeTurnSound ==
  ASSUME Sound, NEW r \in Generations, TakeTurn(r)
  PROVE  Sound'
<1> USE ProcessesOK DEF Sound, TakeTurn, files, requests
<1>1. EdgeTypeOK' /\ CountsAgree' /\ PassedBeforeClose' /\ ConsumedWasPassed'
  BY DEF EdgeTypeOK, RunStates, CountsAgree, PassedBeforeClose, ConsumedWasPassed
<1>2. ClaimDiscipline' /\ MarkerDrains' /\ NoStrandedEdge'
  BY DEF EdgeTypeOK, ClaimDiscipline, MarkerDrains, NoStrandedEdge, Draining
<1> QED BY <1>1, <1>2

\* A runner reads the requests it is about to serve.
LEMMA ReadRequestsSound ==
  ASSUME Sound, NEW r \in Generations, ReadRequests(r)
  PROVE  Sound'
<1> USE ProcessesOK DEF Sound, ReadRequests, files, requests
<1>1. EdgeTypeOK' /\ CountsAgree' /\ PassedBeforeClose' /\ ConsumedWasPassed'
  BY DEF EdgeTypeOK, RunStates, CountsAgree, PassedBeforeClose, ConsumedWasPassed
<1>2. ClaimDiscipline' /\ MarkerDrains' /\ NoStrandedEdge'
  BY DEF EdgeTypeOK, ClaimDiscipline, MarkerDrains, NoStrandedEdge, Draining
<1> QED BY <1>1, <1>2

\* A pass, also a failed one, is over the edges read before it.
LEMMA PassSound ==
  ASSUME Sound, NEW r \in Generations, Pass(r) \/ PassFails(r)
  PROVE  Sound'
<1> USE ProcessesOK DEF Sound, Pass, PassFails, files, requests
<1>1. EdgeTypeOK' /\ CountsAgree' /\ ConsumedWasPassed'
  BY DEF EdgeTypeOK, RunStates, CountsAgree, ConsumedWasPassed, EndedWorkers
<1>2. PassedBeforeClose'
  BY DEF EdgeTypeOK, CountsAgree, PassedBeforeClose, EndedWorkers
<1>3. ClaimDiscipline' /\ MarkerDrains' /\ NoStrandedEdge'
  BY DEF EdgeTypeOK, ClaimDiscipline, MarkerDrains, NoStrandedEdge, Draining
<1> QED BY <1>1, <1>2, <1>3

\* The runner leaves only when what it read is all that was requested, and never
\* while a supervisor is between its look at the marker and its write of it.
LEMMA CloseSound ==
  ASSUME Sound, NEW r \in Generations, Close(r)
  PROVE  Sound'
<1> USE ProcessesOK DEF Sound, Close, requests
<1>1. EdgeTypeOK'
  BY DEF EdgeTypeOK, RunStates, Larger
<1>2. CountsAgree'
  BY DEF EdgeTypeOK, CountsAgree, Larger
<1>3. PassedBeforeClose'
  BY DEF EdgeTypeOK, PassedBeforeClose
<1>4. ConsumedWasPassed'
  BY DEF EdgeTypeOK, PassedBeforeClose, ConsumedWasPassed, Larger
<1>5. ClaimDiscipline'
  BY DEF ClaimDiscipline
<1>6. MarkerDrains'
  <2>1. \A s \in Supervisors : sup[s] # "started"
    BY DEF ClaimDiscipline
  <2> QED BY <2>1 DEF EdgeTypeOK, MarkerDrains, Draining
<1>7. NoStrandedEdge'
  <2>1. CASE requested > snap[r]
    BY <2>1 DEF EdgeTypeOK, NoStrandedEdge, Draining
  <2>2. CASE ~(requested > snap[r])
    BY <2>2 DEF EdgeTypeOK, NoStrandedEdge, Larger
  <2> QED BY <2>1, <2>2
<1> QED BY <1>1, <1>2, <1>3, <1>4, <1>5, <1>6, <1>7

\* A runner that has closed ends.
LEMMA ExitSound ==
  ASSUME Sound, NEW r \in Generations, Exit(r)
  PROVE  Sound'
<1> USE ProcessesOK DEF Sound, Exit, files, requests
<1>1. EdgeTypeOK' /\ CountsAgree' /\ PassedBeforeClose' /\ ConsumedWasPassed'
  BY DEF EdgeTypeOK, RunStates, CountsAgree, PassedBeforeClose, ConsumedWasPassed
<1>2. ClaimDiscipline' /\ MarkerDrains' /\ NoStrandedEdge'
  BY DEF EdgeTypeOK, ClaimDiscipline, MarkerDrains, NoStrandedEdge, Draining
<1> QED BY <1>1, <1>2

\* A killed runner is counted among the losses.
LEMMA RunnerDiesSound ==
  ASSUME Sound, NEW r \in Generations, RunnerDies(r)
  PROVE  Sound'
<1> USE ProcessesOK DEF Sound, RunnerDies, files, requests
<1>1. EdgeTypeOK' /\ CountsAgree' /\ PassedBeforeClose' /\ ConsumedWasPassed'
  BY DEF EdgeTypeOK, RunStates, CountsAgree, PassedBeforeClose, ConsumedWasPassed
<1>2. ClaimDiscipline' /\ MarkerDrains' /\ NoStrandedEdge'
  BY DEF EdgeTypeOK, ClaimDiscipline, MarkerDrains, NoStrandedEdge
<1> QED BY <1>1, <1>2

\* A step of somebody else.
LEMMA EdgeStutterSound == Sound /\ UNCHANGED edgeVars => Sound'
  BY DEF Sound, EdgeTypeOK, CountsAgree, PassedBeforeClose, ConsumedWasPassed,
     ClaimDiscipline, MarkerDrains, NoStrandedEdge, Draining,
     edgeVars, files, requests, passes

\* Every step of the handshake.
LEMMA EdgeNextSound == Sound /\ [EdgeNext]_edgeVars => Sound'
  BY WorkerEndsSound, CountEdgeSound, CoalesceSound, StartRunnerSound,
     WriteMarkerSound, SchedulingFailsSound, TakeTurnSound, ReadRequestsSound,
     PassSound, CloseSound, ExitSound, RunnerDiesSound, EdgeStutterSound
     DEF EdgeNext, Schedule, Drain

\* In every reachable state of supervisors and epilogue runners the claim is held
\* exactly inside schedule_epilogue, counts agree and a living marker drains.
THEOREM HandshakeSound == EdgeSpec => []Sound
  BY EdgeInitSound, EdgeNextSound, PTL DEF EdgeSpec

\* terminal_requests.json and the marker keep their types.
THEOREM HandshakeTyped == EdgeSpec => []EdgeTypeOK
<1>1. Sound => EdgeTypeOK
  BY DEF Sound
<1> QED BY <1>1, HandshakeSound, PTL

\* The runner raises consumed_seq over an edge only after a pass over it.
THEOREM ConsumedAfterPass == EdgeSpec => []ConsumedWasPassed
<1>1. Sound => ConsumedWasPassed
  BY DEF Sound
<1> QED BY <1>1, HandshakeSound, PTL

\* schedule_epilogue: "Coalescing never discards an edge".
THEOREM CoalescingKeepsEdges == EdgeSpec => []NoStrandedEdge
<1>1. Sound => NoStrandedEdge
  BY DEF Sound
<1> QED BY <1>1, HandshakeSound, PTL

-----------------------------------------------------------------------------
(* How births are split between the pools. *)

\* Division with rest, for naturals.
LEMMA DivRest ==
  ASSUME NEW a \in Nat, NEW g \in Nat, g > 0
  PROVE  a \div g \in Nat /\ a % g \in 0..(g - 1) /\ a = g * (a \div g) + (a % g)
  OBVIOUS

\* Two shares of a total, in proportion, leave at most one over.
LEMMA Shares ==
  ASSUME NEW t \in Nat, NEW a \in Nat, NEW b \in Nat, a + b > 0
  PROVE  LET g == a + b
         IN (t * a) \div g + (t * b) \div g \in {t - 1, t}
<1> DEFINE g == a + b
           fa == (t * a) \div g
           fb == (t * b) \div g
           ra == (t * a) % g
           rb == (t * b) % g
<1>1. g \in Nat /\ g > 0 /\ t * a \in Nat /\ t * b \in Nat  OBVIOUS
<1>2. t * a + t * b = t * g  OBVIOUS
<1>3. fa \in Nat /\ ra \in 0..(g - 1) /\ t * a = g * fa + ra  BY <1>1, DivRest
<1>4. fb \in Nat /\ rb \in 0..(g - 1) /\ t * b = g * fb + rb  BY <1>1, DivRest
<1> HIDE DEF g, fa, fb, ra, rb
<1>5. g * fa + g * fb = g * (fa + fb)  BY <1>1, <1>3, <1>4
<1>6. g * (fa + fb) + (ra + rb) = t * g  BY <1>1, <1>2, <1>3, <1>4, <1>5
<1> DEFINE n == fa + fb
           r == ra + rb
<1>7. n \in Nat /\ r \in Nat /\ r < g + g - 1 /\ g * n + r = t * g  BY <1>1, <1>3, <1>4, <1>6
<1> HIDE DEF n, r
<1>8. ~(n >= t + 1)
  <2> SUFFICES ASSUME n >= t + 1 PROVE FALSE  OBVIOUS
  <2>1. g * n >= g * (t + 1) /\ g * (t + 1) = t * g + g  BY <1>1, <1>7
  <2> QED  BY <1>1, <1>7, <2>1
<1>9. ~(n <= t - 2)
  <2> SUFFICES ASSUME n <= t - 2 PROVE FALSE  OBVIOUS
  <2>1. g * n <= g * (t - 2) /\ g * (t - 2) = t * g - g - g  BY <1>1, <1>7
  <2> QED  BY <1>1, <1>7, <2>1
<1>10. n \in {t - 1, t}  BY <1>7, <1>8, <1>9
<1> QED  BY <1>10 DEF n, fa, fb, g

\* A share of what is not more than the whole work is not more than the pool's work.
LEMMA ShareBounds ==
  ASSUME NEW t \in Nat, NEW a \in Nat, NEW g \in Nat, g > 0
  PROVE  /\ t >= g => (t * a) \div g >= a
         /\ t <= g => (t * a) \div g <= a
<1> DEFINE f == (t * a) \div g
           r == (t * a) % g
<1>1. t * a \in Nat  OBVIOUS
<1>2. f \in Nat /\ r \in 0..(g - 1) /\ t * a = g * f + r  BY <1>1, DivRest
<1> HIDE DEF f, r
<1>3. ASSUME t >= g, f <= a - 1 PROVE FALSE
  <2>1. g * f <= g * (a - 1) /\ g * (a - 1) = g * a - g  BY <1>2, <1>3
  <2>2. t * a >= g * a  BY <1>3
  <2> QED  BY <1>1, <1>2, <2>1, <2>2
<1>4. ASSUME t <= g, f >= a + 1 PROVE FALSE
  <2>1. g * f >= g * (a + 1) /\ g * (a + 1) = g * a + g  BY <1>2, <1>4
  <2>2. t * a <= g * a  BY <1>4
  <2> QED  BY <1>1, <1>2, <2>1, <2>2
<1> QED  BY <1>2, <1>3, <1>4 DEF f

\* _split_deficit(): each pool gets at most its work, and together they get what is wanted or
\* all the work there is, whichever is less.
THEOREM SplitExact ==
  ASSUME NEW want \in Nat, NEW work \in [Pool -> Nat]
  PROVE  /\ \A p \in Pool : Split(want, work)[p] \in 0..work[p]
         /\ Total(Split(want, work)) = Least(want, Total(work))
<1> DEFINE a == work["v4"]
           b == work["k3"]
<1>1. a \in Nat /\ b \in Nat /\ Total(work) = a + b  BY DEF Pool, Total
<1>2. CASE want = 0 \/ a + b = 0
  <2>0. want <= 0 \/ Total(work) <= 0  BY <1>1, <1>2
  <2>1. Split(want, work)["v4"] = 0 /\ Split(want, work)["k3"] = 0
    <3>1. Split(want, work) = None  BY <2>0, Zenon DEF Split
    <3> QED  BY <3>1 DEF None, Each
  <2> HIDE DEF a, b
  <2>2. 0 = Least(want, a + b) /\ 0 \in 0..a /\ 0 \in 0..b  BY <1>1, <1>2 DEF Least
  <2> QED  BY <1>1, <2>1, <2>2 DEF Total, Pool, a, b
<1>3. CASE want > 0 /\ a + b > 0
  <2> DEFINE grand == Total(work)
             Floor(p) == (want * work[p]) \div grand
             Rest(p) == (want * work[p]) % grand
             first == IF Rest("k3") > Rest("v4") THEN "k3" ELSE "v4"
             left == want - Floor("v4") - Floor("k3")
             Extra(p, n) == IF n > 0 /\ Floor(p) < work[p] THEN 1 ELSE 0
             Bonus(p) == IF p = first THEN Extra(p, left)
                         ELSE Extra(p, left - Extra(first, left))
             Part(p) == Least(Floor(p) + Bonus(p), work[p])
  <2>0. ~(want <= 0 \/ grand <= 0) /\ grand = a + b  BY <1>1, <1>3
  <2>1. /\ Split(want, work)["v4"] = Part("v4")
        /\ Split(want, work)["k3"] = Part("k3")
    <3>1. Split(want, work) = Each(LAMBDA p : Part(p))  BY <2>0, Zenon DEF Split
    <3> HIDE DEF Part
    <3> QED  BY <3>1 DEF Each
  <2>2. Floor("v4") = (want * a) \div grand /\ Floor("k3") = (want * b) \div grand  OBVIOUS
  <2>3. /\ grand \in Nat /\ grand > 0
        /\ (want * a) \div (a + b) + (want * b) \div (a + b) \in {want - 1, want}
        /\ (want * a) \div grand \in Nat /\ (want * b) \div grand \in Nat
        /\ (want >= grand => (want * a) \div grand >= a /\ (want * b) \div grand >= b)
        /\ (want <= grand => (want * a) \div grand <= a /\ (want * b) \div grand <= b)
    <3> HIDE DEF a, b, grand
    <3>1. grand \in Nat /\ grand > 0 /\ want * a \in Nat /\ want * b \in Nat  BY <1>1, <1>3, <2>0
    <3>2. (want * a) \div (a + b) + (want * b) \div (a + b) \in {want - 1, want}
      BY <1>1, <1>3, Shares
    <3>3. (want * a) \div grand \in Nat /\ (want * b) \div grand \in Nat  BY <3>1, DivRest
    <3>4. (want >= grand => (want * a) \div grand >= a) /\ (want <= grand => (want * a) \div grand <= a)
      BY <1>1, <3>1, ShareBounds
    <3>5. (want >= grand => (want * b) \div grand >= b) /\ (want <= grand => (want * b) \div grand <= b)
      BY <1>1, <3>1, ShareBounds
    <3> QED  BY <3>1, <3>2, <3>3, <3>4, <3>5
  <2>4. /\ Floor("v4") + Floor("k3") \in {want - 1, want}
        /\ Floor("v4") \in Nat /\ Floor("k3") \in Nat
        /\ want >= grand => Floor("v4") >= a /\ Floor("k3") >= b
        /\ want <= grand => Floor("v4") <= a /\ Floor("k3") <= b
    <3> HIDE DEF a, b, grand, Floor
    <3> QED  BY <2>0, <2>2, <2>3
  <2>5. first \in {"v4", "k3"}  OBVIOUS
  <2>6. /\ Part("v4") \in 0..a /\ Part("k3") \in 0..b
        /\ Part("v4") + Part("k3") = Least(want, a + b)
    <3> HIDE DEF grand, Floor, first
    <3>1. CASE want >= grand  BY <1>1, <2>0, <2>4, <3>1 DEF Least
    <3>2. CASE want < grand
      <4>1. CASE first = "v4"  BY <1>1, <2>0, <2>4, <3>2, <4>1 DEF Least
      <4>2. CASE first = "k3"  BY <1>1, <2>0, <2>4, <3>2, <4>2 DEF Least
      <4> QED  BY <2>5, <4>1, <4>2
    <3> QED  BY <1>1, <2>0, <3>1, <3>2
  <2> HIDE DEF Part
  <2> QED  BY <1>1, <2>1, <2>6 DEF Total, Pool
<1> QED  BY <1>1, <1>2, <1>3

-----------------------------------------------------------------------------
(* What a selection chooses. *)

\* The order of the naturals, as the library's induction wants it.
LEMMA LessRel == \A x, y \in Nat : x < y => <<x, y>> \in OpToRel(<, Nat)
  BY DEF OpToRel

\* A set of naturals has a least element.
LEMMA LeastNat ==
  ASSUME NEW X \in SUBSET Nat, X # {}
  PROVE  \E n \in X : \A m \in X : n <= m
<1> DEFINE R == OpToRel(<, Nat)
<1>1. IsWellFoundedOn(R, Nat)  BY NatLessThanWellFounded
<1>2. \A x, y \in Nat : x < y => <<x, y>> \in R  BY LessRel
<1>3. \E x \in X : \A y \in X : ~ (<<y, x>> \in R)  BY <1>1, WFMin
<1> HIDE DEF R
<1>4. PICK x \in X : \A y \in X : ~ (<<y, x>> \in R)  BY <1>3
<1>5. \A y \in X : ~ (y < x)  BY <1>2, <1>4
<1>6. \A y \in X : x <= y  BY <1>5
<1> QED  BY <1>6

\* Induction over the naturals up to n, for a set.
LEMMA UpTo ==
  ASSUME NEW n \in Nat, NEW Good, 0 \in Good, \A m \in 0..(n - 1) : m \in Good => m + 1 \in Good
  PROVE  \A m \in 0..n : m \in Good
<1> DEFINE Bad == {m \in 0..n : m \notin Good}
<1> SUFFICES ASSUME Bad # {} PROVE FALSE  OBVIOUS
<1>1. Bad \in SUBSET Nat  OBVIOUS
<1> HIDE DEF Bad
<1>2. PICK m \in Bad : \A k \in Bad : m <= k  BY <1>1, LeastNat
<1>3. m \in 0..n /\ m \notin Good /\ m # 0  BY <1>2 DEF Bad
<1>4. m - 1 \in 0..(n - 1) /\ m - 1 \in 0..n /\ ~(m <= m - 1) /\ (m - 1) + 1 = m  BY <1>3
<1>5. m - 1 \notin Bad  BY <1>4, <1>2
<1>6. m - 1 \in Good  BY <1>4, <1>5 DEF Bad
<1>7. (m - 1) + 1 \in Good  BY <1>4, <1>6
<1> QED  BY <1>3, <1>4, <1>7

Distinct(s) == \A i, j \in DOMAIN s : s[i] = s[j] => i = j

\* Appending a packet not yet named names no packet twice.
LEMMA Appended ==
  ASSUME NEW s \in Seq(Packets), Distinct(s), NEW p \in Packets, p \notin ToSet(s)
  PROVE  Append(s, p) \in Seq(Packets) /\ Distinct(Append(s, p))
<1>1. /\ Len(s) \in Nat /\ DOMAIN s = 1..Len(s) /\ DOMAIN Append(s, p) = 1..(Len(s) + 1)
      /\ Append(s, p) \in Seq(Packets)
      /\ Append(s, p)[Len(s) + 1] = p
      /\ \A i \in 1..Len(s) : Append(s, p)[i] = s[i]
  BY AppendProperties
<1>2. \A i \in 1..Len(s) : s[i] # p  BY <1>1 DEF ToSet
<1>3. \A i \in 1..(Len(s) + 1) : i \in 1..Len(s) \/ i = Len(s) + 1  BY <1>1
<1> QED  BY <1>1, <1>2, <1>3 DEF Distinct

\* A sequence of packets names packets.
LEMMA ChosenPackets ==
  ASSUME NEW s \in Seq(Packets)
  PROVE  ToSet(s) \in SUBSET Packets
<1>1. DOMAIN s = 1..Len(s) /\ \A i \in 1..Len(s) : s[i] \in Packets
  BY LenProperties, ElementOfSeq
<1> QED  BY <1>1 DEF ToSet

\* Appending a packet adds it to those named.
LEMMA AppendedSet ==
  ASSUME NEW s \in Seq(Packets), NEW p \in Packets
  PROVE  Append(s, p) \in Seq(Packets) /\ ToSet(Append(s, p)) = ToSet(s) \cup {p}
<1>1. /\ Len(s) \in Nat /\ DOMAIN s = 1..Len(s) /\ DOMAIN Append(s, p) = 1..(Len(s) + 1)
      /\ Append(s, p) \in Seq(Packets)
      /\ Append(s, p)[Len(s) + 1] = p
      /\ \A i \in 1..Len(s) : Append(s, p)[i] = s[i]
  BY AppendProperties
<1>2. /\ \A i \in 1..(Len(s) + 1) : i \in 1..Len(s) \/ i = Len(s) + 1
      /\ Len(s) + 1 \in 1..(Len(s) + 1) /\ \A i \in 1..Len(s) : i \in 1..(Len(s) + 1)
  BY <1>1
<1> QED  BY <1>1, <1>2 DEF ToSet

\* Once its first packet is worked off, a wave does not come to it again.
LEMMA TailDistinct ==
  ASSUME NEW s \in Seq(Packets), s # <<>>, Distinct(s)
  PROVE  /\ Head(s) \in Packets /\ Tail(s) \in Seq(Packets) /\ Distinct(Tail(s))
         /\ Head(s) \notin ToSet(Tail(s)) /\ ToSet(Tail(s)) \subseteq ToSet(s) /\ Head(s) \in ToSet(s)
<1>1. /\ Len(s) \in Nat /\ Len(s) >= 1 /\ DOMAIN s = 1..Len(s) /\ Head(s) = s[1]
      /\ Tail(s) \in Seq(Packets) /\ DOMAIN Tail(s) = 1..(Len(s) - 1)
      /\ \A i \in 1..(Len(s) - 1) : Tail(s)[i] = s[i + 1]
  BY HeadTailProperties, EmptySeq
<1>2. \A i \in 1..(Len(s) - 1) : i + 1 \in 1..Len(s) /\ i + 1 # 1  BY <1>1
<1>3. 1 \in 1..Len(s)  BY <1>1
<1>4. Distinct(Tail(s))
  <2> SUFFICES ASSUME NEW i \in 1..(Len(s) - 1), NEW j \in 1..(Len(s) - 1), Tail(s)[i] = Tail(s)[j]
               PROVE  i = j
    BY <1>1 DEF Distinct
  <2>1. s[i + 1] = s[j + 1]  BY <1>1
  <2>2. i + 1 = j + 1  BY <1>1, <1>2, <2>1 DEF Distinct
  <2> QED  BY <2>2
<1>5. Head(s) \notin ToSet(Tail(s))  BY <1>1, <1>2, <1>3 DEF ToSet, Distinct
<1>6. ToSet(Tail(s)) \subseteq ToSet(s) /\ Head(s) \in ToSet(s)  BY <1>1, <1>2, <1>3 DEF ToSet
<1> QED  BY <1>1, <1>3, <1>4, <1>5, <1>6

\* A bucket's turn adds a packet not yet chosen, or nothing.
LEMMA TurnDistinct ==
  ASSUME NEW acc, acc.chosen \in Seq(Packets), Distinct(acc.chosen), NEW b
  PROVE  Turn(acc, b).chosen \in Seq(Packets) /\ Distinct(Turn(acc, b).chosen)
<1>1. CASE Fitting(acc, b) = {}  BY <1>1 DEF Turn
<1>2. CASE Fitting(acc, b) # {}
  <2>1. Fitting(acc, b) \in SUBSET Nat  BY RefillOK DEF Fitting
  <2>2. Min(Fitting(acc, b)) \in Fitting(acc, b)  BY <1>2, <2>1, LeastNat DEF Min
  <2>3. Min(Fitting(acc, b)) \in Packets /\ Min(Fitting(acc, b)) \notin ToSet(acc.chosen)
    BY <2>2 DEF Fitting
  <2>4. Turn(acc, b).chosen = Append(acc.chosen, Min(Fitting(acc, b)))
    BY <1>2 DEF Turn
  <2> QED  BY <2>3, <2>4, Appended
<1> QED  BY <1>1, <1>2

\* The turns of a selection, as a function.
TurnsOf(n, f, state) ==
  f = [i \in 0..n |->
         IF i = 0 THEN [chosen |-> <<>>, left |-> state.deficit, spawnable |-> state.spawnable]
         ELSE Turn(f[i - 1], TurnOf(i))]

\* The turns of a selection are defined, for any number of them.
LEMMA TurnsExist ==
  ASSUME NEW n \in Nat, NEW state
  PROVE  \E f : TurnsOf(n, f, state)
<1> DEFINE start == [chosen |-> <<>>, left |-> state.deficit, spawnable |-> state.spawnable]
           Good == {m \in 0..n : \E f : TurnsOf(m, f, state)}
<1>1. 0 \in Good
  <2> DEFINE f == [i \in 0..0 |-> start]
  <2>1. f = [i \in 0..0 |-> IF i = 0 THEN start ELSE Turn(f[i - 1], TurnOf(i))]  OBVIOUS
  <2>2. TurnsOf(0, f, state)  BY <2>1 DEF TurnsOf
  <2> QED  BY <2>2
<1>2. ASSUME NEW m \in 0..(n - 1), m \in Good PROVE m + 1 \in Good
  <2>1. PICK f : TurnsOf(m, f, state)  BY <1>2
  <2> HIDE DEF start
  <2>2. f = [i \in 0..m |-> IF i = 0 THEN start ELSE Turn(f[i - 1], TurnOf(i))]
    BY <2>1 DEF TurnsOf, start
  <2> DEFINE g == [i \in 0..(m + 1) |-> IF i = m + 1 THEN Turn(f[m], TurnOf(m + 1)) ELSE f[i]]
  <2>3. ASSUME NEW i \in 0..(m + 1)
        PROVE  g[i] = IF i = 0 THEN start ELSE Turn(g[i - 1], TurnOf(i))
    <3>1. CASE i = 0  BY <2>2, <3>1
    <3>2. CASE i = m + 1
      <4>1. g[i] = Turn(f[m], TurnOf(m + 1)) /\ g[i - 1] = f[m]  BY <3>2
      <4> QED  BY <3>2, <4>1
    <3>3. CASE i # 0 /\ i # m + 1
      <4>1. g[i] = f[i] /\ g[i - 1] = f[i - 1] /\ i \in 0..m  BY <3>3
      <4>2. f[i] = Turn(f[i - 1], TurnOf(i))  BY <2>2, <3>3, <4>1
      <4> QED  BY <3>3, <4>1, <4>2
    <3> QED  BY <3>1, <3>2, <3>3
  <2>4. g = [i \in 0..(m + 1) |-> g[i]]  OBVIOUS
  <2> HIDE DEF g
  <2>5. g = [i \in 0..(m + 1) |-> IF i = 0 THEN start ELSE Turn(g[i - 1], TurnOf(i))]
    BY <2>3, <2>4
  <2>6. TurnsOf(m + 1, g, state)  BY <2>5 DEF TurnsOf, start
  <2> QED  BY <2>6
<1> HIDE DEF Good
<1>3. \A m \in 0..(n - 1) : m \in Good => m + 1 \in Good  BY <1>2
<1>4. \A m \in 0..n : m \in Good  BY <1>1, <1>3, UpTo, Zenon
<1>5. n \in Good  BY <1>4
<1> QED  BY <1>5 DEF Good

\* After any number of turns, no packet is chosen twice.
LEMMA TurnsDistinct ==
  ASSUME NEW n \in Nat, NEW state, NEW f, TurnsOf(n, f, state)
  PROVE  f[n].chosen \in Seq(Packets) /\ Distinct(f[n].chosen)
<1> DEFINE start == [chosen |-> <<>>, left |-> state.deficit, spawnable |-> state.spawnable]
           Good == {m \in 0..n : f[m].chosen \in Seq(Packets) /\ Distinct(f[m].chosen)}
<1>0. start.chosen = <<>>  OBVIOUS
<1> HIDE DEF start
<1>1. f = [i \in 0..n |-> IF i = 0 THEN start ELSE Turn(f[i - 1], TurnOf(i))]
  BY DEF TurnsOf, start
<1>2. 0 \in Good
  <2>1. f[0] = start  BY <1>1
  <2>2. <<>> \in Seq(Packets) /\ Distinct(<<>>)  BY DEF Distinct
  <2>3. f[0].chosen = <<>> /\ 0 \in 0..n  BY <1>0, <2>1
  <2>4. f[0].chosen \in Seq(Packets) /\ Distinct(f[0].chosen)  BY <2>2, <2>3
  <2> QED  BY <2>3, <2>4
<1>3. ASSUME NEW m \in 0..(n - 1), m \in Good PROVE m + 1 \in Good
  <2>1. m + 1 \in 0..n /\ m + 1 # 0 /\ (m + 1) - 1 = m  OBVIOUS
  <2>2. f[m + 1] = Turn(f[m], TurnOf(m + 1))  BY <1>1, <2>1
  <2> QED  BY <1>3, <2>1, <2>2, TurnDistinct
<1> HIDE DEF Good
<1>4. \A m \in 0..(n - 1) : m \in Good => m + 1 \in Good  BY <1>3
<1>5. \A m \in 0..n : m \in Good  BY <1>2, <1>4, UpTo, Zenon
<1>6. n \in Good  BY <1>5
<1> QED  BY <1>6 DEF Good

\* select_tasks() names packets, each once.
LEMMA SelectionDistinct ==
  ASSUME NEW state
  PROVE  Selection(state) \in Seq(Packets) /\ Distinct(Selection(state))
<1>1. Turns \in Nat
  <2>1. Len(Buckets) \in Nat  BY RefillOK, LenProperties
  <2>2. Cardinality(Packets) \in Nat  BY RefillOK, FS_CardinalityType
  <2> QED  BY <2>1, <2>2 DEF Turns
<1> DEFINE f == CHOOSE f : TurnsOf(Turns, f, state)
<1>2. TurnsOf(Turns, f, state)  BY <1>1, TurnsExist
<1>3. Selection(state) = f[Turns].chosen  BY DEF Selection, TurnsOf
<1> HIDE DEF f
<1> QED  BY <1>1, <1>2, <1>3, TurnsDistinct

\* What a run of turns has taken from the debt of a pool and from what a parent may spawn.
Taken(acc, q) == {p \in ToSet(acc.chosen) : PoolOf[p] = q}
TakenBy(acc, s, q) == {p \in ToSet(acc.chosen) : ParentOf[p] = s /\ PoolOf[p] = q}

WithinDebt(acc, state) ==
  /\ acc.chosen \in Seq(Packets) /\ acc.left \in [Pool -> Nat]
  /\ acc.spawnable \in [Parents -> [Pool -> Nat]]
  /\ \A p \in ToSet(acc.chosen) : Selectable(p)
  /\ \A q \in Pool : Cardinality(Taken(acc, q)) + acc.left[q] = state.deficit[q]
  /\ \A s \in Parents, q \in Pool :
       Cardinality(TakenBy(acc, s, q)) + acc.spawnable[s][q] = state.spawnable[s][q]

\* A packet a bucket's turn takes is counted once in its pool, and once with its parent.
LEMMA TurnWithin ==
  ASSUME NEW state, NEW acc, WithinDebt(acc, state), NEW b \in Parents \cup {NoParent}
  PROVE  WithinDebt(Turn(acc, b), state)
<1>1. CASE Fitting(acc, b) = {}
  <2>1. Turn(acc, b) = acc  BY <1>1 DEF Turn
  <2> QED  BY <2>1
<1>2. CASE Fitting(acc, b) # {}
  <2>1. Fitting(acc, b) \in SUBSET Nat  BY RefillOK DEF Fitting
  <2>2. PICK p \in Packets : p = Min(Fitting(acc, b)) /\ p \in Fitting(acc, b)
    BY <1>2, <2>1, LeastNat DEF Min, Fitting
  <2>3. /\ p \notin ToSet(acc.chosen) /\ Selectable(p) /\ ParentOf[p] = b /\ PoolOf[p] \in Pool
        /\ acc.left[PoolOf[p]] > 0 /\ (b # NoParent => acc.spawnable[b][PoolOf[p]] > 0)
    BY <2>2, RefillOK DEF Fitting
  <2> DEFINE next == Turn(acc, b)
  <2>4. /\ next.chosen = Append(acc.chosen, p)
        /\ next.left = [acc.left EXCEPT ![PoolOf[p]] = @ - 1]
        /\ next.spawnable = IF b = NoParent THEN acc.spawnable
                            ELSE [acc.spawnable EXCEPT ![b][PoolOf[p]] = @ - 1]
    BY <1>2, <2>2 DEF Turn
  <2> HIDE DEF next
  <2>5. /\ acc.chosen \in Seq(Packets) /\ acc.left \in [Pool -> Nat]
        /\ acc.spawnable \in [Parents -> [Pool -> Nat]]
    BY DEF WithinDebt
  <2>6. next.chosen \in Seq(Packets) /\ ToSet(next.chosen) = ToSet(acc.chosen) \cup {p}
    BY <2>4, <2>5, AppendedSet
  <2>7. /\ next.left \in [Pool -> Nat]
        /\ \A q \in Pool : next.left[q] = IF q = PoolOf[p] THEN acc.left[q] - 1 ELSE acc.left[q]
    BY <2>3, <2>4, <2>5
  <2>8. /\ next.spawnable \in [Parents -> [Pool -> Nat]]
        /\ \A s \in Parents, q \in Pool :
             next.spawnable[s][q] = IF s = b /\ q = PoolOf[p] THEN acc.spawnable[s][q] - 1
                                    ELSE acc.spawnable[s][q]
    <3>1. CASE b = NoParent  BY <2>4, <2>5, <3>1, RefillOK
    <3>2. CASE b # NoParent
      <4>1. b \in Parents  BY <3>2
      <4>2. next.spawnable = [acc.spawnable EXCEPT ![b] = [acc.spawnable[b] EXCEPT ![PoolOf[p]] = @ - 1]]
        BY <2>4, <3>2
      <4>3. acc.spawnable[b] \in [Pool -> Nat] /\ acc.spawnable[b][PoolOf[p]] - 1 \in Nat
        BY <2>3, <2>5, <3>2, <4>1
      <4> QED  BY <2>3, <2>5, <4>1, <4>2, <4>3
    <3> QED  BY <3>1, <3>2
  <2>9. IsFiniteSet(ToSet(acc.chosen))
    <3>1. ToSet(acc.chosen) \in SUBSET Packets  BY <2>5, ChosenPackets
    <3> QED  BY <3>1, RefillOK, FS_Subset
  <2>10. ASSUME NEW q \in Pool PROVE Cardinality(Taken(next, q)) + next.left[q] = state.deficit[q]
    <3>1. Taken(acc, q) \in SUBSET ToSet(acc.chosen) /\ p \notin Taken(acc, q)  BY <2>3 DEF Taken
    <3>2. IsFiniteSet(Taken(acc, q)) /\ Cardinality(Taken(acc, q)) \in Nat
      BY <2>9, <3>1, FS_Subset, FS_CardinalityType
    <3>3. Cardinality(Taken(acc, q)) + acc.left[q] = state.deficit[q]  BY DEF WithinDebt
    <3>4. Taken(next, q) = IF q = PoolOf[p] THEN Taken(acc, q) \cup {p} ELSE Taken(acc, q)
      BY <2>6 DEF Taken
    <3>5. Cardinality(Taken(next, q)) = IF q = PoolOf[p] THEN Cardinality(Taken(acc, q)) + 1
                                        ELSE Cardinality(Taken(acc, q))
      BY <3>1, <3>2, <3>4, FS_AddElement
    <3>6. acc.left[q] \in Nat  BY <2>5
    <3> QED  BY <2>7, <3>2, <3>3, <3>5, <3>6
  <2>11. ASSUME NEW s \in Parents, NEW q \in Pool
         PROVE  Cardinality(TakenBy(next, s, q)) + next.spawnable[s][q] = state.spawnable[s][q]
    <3>1. TakenBy(acc, s, q) \in SUBSET ToSet(acc.chosen) /\ p \notin TakenBy(acc, s, q)
      BY <2>3 DEF TakenBy
    <3>2. IsFiniteSet(TakenBy(acc, s, q)) /\ Cardinality(TakenBy(acc, s, q)) \in Nat
      BY <2>9, <3>1, FS_Subset, FS_CardinalityType
    <3>3. Cardinality(TakenBy(acc, s, q)) + acc.spawnable[s][q] = state.spawnable[s][q]
      BY DEF WithinDebt
    <3>4. TakenBy(next, s, q) = IF s = b /\ q = PoolOf[p] THEN TakenBy(acc, s, q) \cup {p}
                                ELSE TakenBy(acc, s, q)
      BY <2>3, <2>6 DEF TakenBy
    <3>5. Cardinality(TakenBy(next, s, q)) = IF s = b /\ q = PoolOf[p]
                                             THEN Cardinality(TakenBy(acc, s, q)) + 1
                                             ELSE Cardinality(TakenBy(acc, s, q))
      BY <3>1, <3>2, <3>4, FS_AddElement
    <3>6. acc.spawnable[s][q] \in Nat  BY <2>5
    <3>7. next.spawnable[s][q] = IF s = b /\ q = PoolOf[p] THEN acc.spawnable[s][q] - 1
                                 ELSE acc.spawnable[s][q]
      BY <2>8
    <3> DEFINE was == acc.spawnable[s][q]
               is == next.spawnable[s][q]
    <3>8. was \in Nat /\ is = (IF s = b /\ q = PoolOf[p] THEN was - 1 ELSE was)
          /\ Cardinality(TakenBy(acc, s, q)) + was = state.spawnable[s][q]
      BY <3>3, <3>6, <3>7
    <3> HIDE DEF was, is
    <3>9. Cardinality(TakenBy(next, s, q)) + is = state.spawnable[s][q]
      BY <3>2, <3>5, <3>8
    <3> QED  BY <3>9 DEF is
  <2>12. \A x \in ToSet(next.chosen) : Selectable(x)  BY <2>3, <2>6 DEF WithinDebt
  <2>13. WithinDebt(next, state)  BY <2>6, <2>7, <2>8, <2>10, <2>11, <2>12 DEF WithinDebt
  <2> QED  BY <2>13 DEF next
<1> QED  BY <1>1, <1>2

\* The buckets take their turns in order.
LEMMA BucketsTurn ==
  ASSUME Buckets # <<>>, NEW i \in Nat \ {0}
  PROVE  TurnOf(i) \in Parents \cup {NoParent}
<1>1. Len(Buckets) \in Nat /\ Len(Buckets) > 0 /\ Buckets \in Seq(Parents \cup {NoParent})
  BY RefillOK, EmptySeq, LenProperties
<1>2. i - 1 \in Nat  OBVIOUS
<1>3. ((i - 1) % Len(Buckets)) + 1 \in 1..Len(Buckets)
  <2>1. (i - 1) % Len(Buckets) \in 0..(Len(Buckets) - 1)  BY <1>1, <1>2, DivRest
  <2> QED  BY <1>1, <2>1
<1> QED  BY <1>1, <1>3, ElementOfSeq DEF TurnOf

\* After any number of turns, the choice is within the debt.
LEMMA TurnsWithin ==
  ASSUME NEW n \in Nat, NEW state, NEW f, TurnsOf(n, f, state), n > 0 => Buckets # <<>>,
         state.deficit \in [Pool -> Nat], state.spawnable \in [Parents -> [Pool -> Nat]]
  PROVE  \A i \in 0..n : WithinDebt(f[i], state)
<1> DEFINE start == [chosen |-> <<>>, left |-> state.deficit, spawnable |-> state.spawnable]
           Good == {m \in 0..n : WithinDebt(f[m], state)}
<1>0. start.chosen = <<>> /\ start.left = state.deficit /\ start.spawnable = state.spawnable
  OBVIOUS
<1> HIDE DEF start
<1>1. f = [i \in 0..n |-> IF i = 0 THEN start ELSE Turn(f[i - 1], TurnOf(i))]
  BY DEF TurnsOf, start
<1>2. 0 \in Good
  <2>1. f[0] = start /\ 0 \in 0..n  BY <1>1
  <2>2. ToSet(<<>>) = {}  BY DEF ToSet
  <2>3. /\ \A q \in Pool : Taken(start, q) = {}
        /\ \A s \in Parents, q \in Pool : TakenBy(start, s, q) = {}
    BY <1>0, <2>2 DEF Taken, TakenBy
  <2>4. WithinDebt(start, state)
    <3>1. <<>> \in Seq(Packets)  OBVIOUS
    <3>2. \A q \in Pool : 0 + state.deficit[q] = state.deficit[q]  OBVIOUS
    <3>3. \A s \in Parents, q \in Pool : 0 + state.spawnable[s][q] = state.spawnable[s][q]  OBVIOUS
    <3> QED  BY <1>0, <2>2, <2>3, <3>1, <3>2, <3>3, FS_EmptySet DEF WithinDebt
  <2> QED  BY <2>1, <2>4
<1>3. ASSUME NEW m \in 0..(n - 1), m \in Good PROVE m + 1 \in Good
  <2>1. m + 1 \in 0..n /\ m + 1 # 0 /\ (m + 1) - 1 = m /\ n > 0  OBVIOUS
  <2>2. f[m + 1] = Turn(f[m], TurnOf(m + 1))  BY <1>1, <2>1
  <2>3. TurnOf(m + 1) \in Parents \cup {NoParent}  BY <2>1, BucketsTurn
  <2> QED  BY <1>3, <2>1, <2>2, <2>3, TurnWithin
<1> HIDE DEF Good
<1>4. \A m \in 0..(n - 1) : m \in Good => m + 1 \in Good  BY <1>3
<1>5. \A m \in 0..n : m \in Good  BY <1>2, <1>4, UpTo, Zenon
<1> QED  BY <1>5 DEF Good

\* select_tasks(): what it names is selectable, and no pool is given more than its deficit, no
\* parent more of a pool than it may spawn: a parent cannot use up another's allowance.
THEOREM SelectionWithinDebt ==
  ASSUME NEW state, state.deficit \in [Pool -> Nat], state.spawnable \in [Parents -> [Pool -> Nat]]
  PROVE  LET chosen == ToSet(Selection(state))
         IN /\ \A p \in chosen : Selectable(p)
            /\ \A q \in Pool : Cardinality({p \in chosen : PoolOf[p] = q}) <= state.deficit[q]
            /\ \A s \in Parents, q \in Pool :
                 Cardinality({p \in chosen : ParentOf[p] = s /\ PoolOf[p] = q}) <= state.spawnable[s][q]
<1>1. Turns \in Nat /\ (Turns > 0 => Buckets # <<>>)
  <2>1. Len(Buckets) \in Nat /\ (Buckets = <<>> => Len(Buckets) = 0)  BY RefillOK, LenProperties
  <2>2. Cardinality(Packets) \in Nat  BY RefillOK, FS_CardinalityType
  <2>3. 0 * Cardinality(Packets) = 0  BY <2>2
  <2> QED  BY <2>1, <2>2, <2>3 DEF Turns
<1> DEFINE f == CHOOSE f : TurnsOf(Turns, f, state)
<1>2. TurnsOf(Turns, f, state)  BY <1>1, TurnsExist
<1>3. Selection(state) = f[Turns].chosen  BY DEF Selection, TurnsOf
<1> HIDE DEF f
<1> DEFINE last == f[Turns]
<1>4. WithinDebt(last, state)
  <2>1. Turns \in 0..Turns  BY <1>1
  <2> QED  BY <1>1, <1>2, <2>1, TurnsWithin
<1>5. Selection(state) = last.chosen  BY <1>3
<1> HIDE DEF last
<1>6. ToSet(last.chosen) \in SUBSET Packets  BY <1>4, ChosenPackets DEF WithinDebt
<1>7. IsFiniteSet(ToSet(last.chosen))  BY <1>6, RefillOK, FS_Subset
<1>8. ASSUME NEW q \in Pool PROVE Cardinality(Taken(last, q)) <= state.deficit[q]
  <2>1. Taken(last, q) \in SUBSET ToSet(last.chosen)  BY DEF Taken
  <2>2. Cardinality(Taken(last, q)) \in Nat  BY <1>7, <2>1, FS_Subset, FS_CardinalityType
  <2>3. last.left[q] \in Nat /\ Cardinality(Taken(last, q)) + last.left[q] = state.deficit[q]
    BY <1>4 DEF WithinDebt
  <2> QED  BY <2>2, <2>3
<1>9. ASSUME NEW s \in Parents, NEW q \in Pool
      PROVE  Cardinality(TakenBy(last, s, q)) <= state.spawnable[s][q]
  <2>1. TakenBy(last, s, q) \in SUBSET ToSet(last.chosen)  BY DEF TakenBy
  <2>2. Cardinality(TakenBy(last, s, q)) \in Nat  BY <1>7, <2>1, FS_Subset, FS_CardinalityType
  <2>3. last.spawnable[s][q] \in Nat
        /\ Cardinality(TakenBy(last, s, q)) + last.spawnable[s][q] = state.spawnable[s][q]
    BY <1>4 DEF WithinDebt
  <2> QED  BY <2>2, <2>3
<1> QED  BY <1>4, <1>5, <1>8, <1>9 DEF WithinDebt, Taken, TakenBy

\* A later turn has chosen no less, and offers each bucket no packet an earlier one did not.
Later(acc, next) ==
  /\ ToSet(acc.chosen) \subseteq ToSet(next.chosen)
  /\ \A b \in Parents \cup {NoParent} : Fitting(next, b) \subseteq Fitting(acc, b)

\* A bucket's turn leads to a later state; if a packet fits the bucket, one more is chosen.
LEMMA TurnGrows ==
  ASSUME NEW state, NEW acc, WithinDebt(acc, state), NEW b \in Parents \cup {NoParent}
  PROVE  /\ Later(acc, Turn(acc, b))
         /\ Fitting(acc, b) # {} =>
              Cardinality(ToSet(Turn(acc, b).chosen)) = Cardinality(ToSet(acc.chosen)) + 1
<1>1. CASE Fitting(acc, b) = {}
  <2>1. Turn(acc, b) = acc  BY <1>1 DEF Turn
  <2> QED  BY <1>1, <2>1 DEF Later
<1>2. CASE Fitting(acc, b) # {}
  <2>1. Fitting(acc, b) \in SUBSET Nat  BY RefillOK DEF Fitting
  <2>2. PICK p \in Packets : p = Min(Fitting(acc, b)) /\ p \in Fitting(acc, b)
    BY <1>2, <2>1, LeastNat DEF Min, Fitting
  <2>3. p \notin ToSet(acc.chosen) /\ PoolOf[p] \in Pool  BY <2>2, RefillOK DEF Fitting
  <2> DEFINE next == Turn(acc, b)
  <2>4. /\ next.chosen = Append(acc.chosen, p)
        /\ next.left = [acc.left EXCEPT ![PoolOf[p]] = @ - 1]
        /\ next.spawnable = IF b = NoParent THEN acc.spawnable
                            ELSE [acc.spawnable EXCEPT ![b][PoolOf[p]] = @ - 1]
    BY <1>2, <2>2 DEF Turn
  <2> HIDE DEF next
  <2>5. /\ acc.chosen \in Seq(Packets) /\ acc.left \in [Pool -> Nat]
        /\ acc.spawnable \in [Parents -> [Pool -> Nat]]
    BY DEF WithinDebt
  <2>6. ToSet(next.chosen) = ToSet(acc.chosen) \cup {p}  BY <2>4, <2>5, AppendedSet
  <2>7. \A q \in Pool : next.left[q] > 0 => acc.left[q] > 0  BY <2>3, <2>4, <2>5
  <2>8. \A s \in Parents, q \in Pool : next.spawnable[s][q] > 0 => acc.spawnable[s][q] > 0
    <3>1. CASE b = NoParent  BY <2>4, <3>1
    <3>2. CASE b # NoParent
      <4>1. b \in Parents  BY <3>2
      <4>2. next.spawnable = [acc.spawnable EXCEPT ![b] = [acc.spawnable[b] EXCEPT ![PoolOf[p]] = @ - 1]]
        BY <2>4, <3>2
      <4>3. acc.spawnable[b] \in [Pool -> Nat] /\ acc.spawnable[b][PoolOf[p]] \in Nat
        BY <2>3, <2>5, <4>1
      <4>4. /\ \A q \in Pool : next.spawnable[b][q] = IF q = PoolOf[p] THEN acc.spawnable[b][q] - 1
                                                      ELSE acc.spawnable[b][q]
            /\ \A s \in Parents \ {b} : next.spawnable[s] = acc.spawnable[s]
        BY <2>3, <2>5, <4>1, <4>2, <4>3
      <4>5. \A q \in Pool : acc.spawnable[b][q] \in Nat  BY <4>3
      <4> QED  BY <4>4, <4>5
    <3> QED  BY <3>1, <3>2
  <2>9. ASSUME NEW c \in Parents \cup {NoParent}, NEW x \in Fitting(next, c)
        PROVE  x \in Fitting(acc, c)
    <3>1. x \in Packets /\ PoolOf[x] \in Pool  BY RefillOK DEF Fitting
    <3> QED  BY <2>6, <2>7, <2>8, <3>1 DEF Fitting
  <2>10. Later(acc, next)  BY <2>6, <2>9 DEF Later
  <2>11. IsFiniteSet(ToSet(acc.chosen))
    <3>1. ToSet(acc.chosen) \in SUBSET Packets  BY <2>5, ChosenPackets
    <3> QED  BY <3>1, RefillOK, FS_Subset
  <2>12. Cardinality(ToSet(next.chosen)) = Cardinality(ToSet(acc.chosen)) + 1
    BY <2>3, <2>6, <2>11, FS_AddElement
  <2> QED  BY <2>10, <2>12 DEF next
<1> QED  BY <1>1, <1>2

\* Each turn of a selection leads to a later state; if a packet fits the bucket whose turn it
\* is, one more is chosen.
LEMMA TurnTaken ==
  ASSUME NEW n \in Nat, NEW state, NEW f, TurnsOf(n, f, state), Buckets # <<>>,
         state.deficit \in [Pool -> Nat], state.spawnable \in [Parents -> [Pool -> Nat]]
  PROVE  \A i \in 1..n :
           /\ Later(f[i - 1], f[i])
           /\ Fitting(f[i - 1], TurnOf(i)) # {} =>
                Cardinality(ToSet(f[i].chosen)) = Cardinality(ToSet(f[i - 1].chosen)) + 1
<1> SUFFICES ASSUME NEW i \in 1..n
             PROVE  /\ Later(f[i - 1], f[i])
                    /\ Fitting(f[i - 1], TurnOf(i)) # {} =>
                         Cardinality(ToSet(f[i].chosen)) = Cardinality(ToSet(f[i - 1].chosen)) + 1
  OBVIOUS
<1>1. i \in 0..n /\ i # 0 /\ i - 1 \in 0..n /\ i \in Nat \ {0}  OBVIOUS
<1>2. f[i] = Turn(f[i - 1], TurnOf(i))  BY <1>1 DEF TurnsOf
<1>3. WithinDebt(f[i - 1], state)  BY <1>1, TurnsWithin
<1>4. TurnOf(i) \in Parents \cup {NoParent}  BY <1>1, BucketsTurn
<1> QED  BY <1>2, <1>3, <1>4, TurnGrows

\* Turns later are later.
LEMMA TurnsLater ==
  ASSUME NEW n \in Nat, NEW state, NEW f, TurnsOf(n, f, state), Buckets # <<>>,
         state.deficit \in [Pool -> Nat], state.spawnable \in [Parents -> [Pool -> Nat]]
  PROVE  \A m \in 0..n : \A i \in 0..m : Later(f[i], f[m])
<1> DEFINE Good == {m \in 0..n : \A i \in 0..m : Later(f[i], f[m])}
<1>1. \A i \in 0..n : Later(f[i], f[i])  BY DEF Later
<1>2. 0 \in Good
  <2>1. 0 \in 0..n /\ \A i \in 0..0 : i = 0  OBVIOUS
  <2> QED  BY <1>1, <2>1
<1>3. ASSUME NEW m \in 0..(n - 1), m \in Good PROVE m + 1 \in Good
  <2>1. m + 1 \in 1..n /\ m + 1 \in 0..n /\ (m + 1) - 1 = m  OBVIOUS
  <2>2. Later(f[m], f[m + 1])
    <3>1. Later(f[(m + 1) - 1], f[m + 1])  BY <2>1, TurnTaken
    <3> QED  BY <2>1, <3>1
  <2>3. ASSUME NEW i \in 0..(m + 1) PROVE Later(f[i], f[m + 1])
    <3>1. CASE i = m + 1  BY <1>1, <2>1, <3>1
    <3>2. CASE i \in 0..m
      <4>1. Later(f[i], f[m])  BY <1>3, <3>2
      <4> QED  BY <2>2, <4>1 DEF Later
    <3> QED  BY <3>1, <3>2
  <2> QED  BY <2>1, <2>3
<1> HIDE DEF Good
<1>4. \A m \in 0..(n - 1) : m \in Good => m + 1 \in Good  BY <1>3
<1>5. \A m \in 0..n : m \in Good  BY <1>2, <1>4, UpTo, Zenon
<1> QED  BY <1>5 DEF Good

\* The rest of a division, of a number already written that way.
LEMMA RestOf ==
  ASSUME NEW g \in Nat, NEW k \in Nat, NEW r \in 0..(g - 1)
  PROVE  (g * k + r) % g = r
<1> DEFINE a == g * k + r
           q == a \div g
           t == a % g
<1>1. g > 0 /\ a \in Nat /\ g * k \in Nat  OBVIOUS
<1>2. q \in Nat /\ t \in 0..(g - 1) /\ a = g * q + t
  <2> HIDE DEF a
  <2> QED  BY <1>1, DivRest
<1>3. g * k + r = g * q + t  BY <1>2
<1> HIDE DEF q, t
<1>4. g * (q - k) = g * q - g * k /\ g * q \in Nat  BY <1>2
<1> DEFINE d == q - k
<1>5. d \in Int /\ g * d = r - t  BY <1>1, <1>2, <1>3, <1>4
<1> HIDE DEF d
<1>6. d <= 0
  <2> SUFFICES ASSUME d >= 1 PROVE FALSE  BY <1>5
  <2>1. g * d >= g  BY <1>1, <1>5
  <2> QED  BY <1>1, <1>2, <1>5, <2>1
<1>7. d >= 0
  <2> SUFFICES ASSUME d <= -1 PROVE FALSE  BY <1>5
  <2>1. g * d <= -g  BY <1>1, <1>5
  <2> QED  BY <1>1, <1>2, <1>5, <2>1
<1>8. d = 0 /\ g * d = 0  BY <1>5, <1>6, <1>7
<1>9. t = r  BY <1>2, <1>5, <1>8
<1> QED  BY <1>9 DEF t, a

\* The place of a bucket's turn in the k-th pass over the buckets.
LEMMA PassTurn ==
  ASSUME Buckets # <<>>, NEW j \in 1..Len(Buckets), NEW n \in Nat, NEW k \in 0..(n - 1)
  PROVE  LET i == Len(Buckets) * k + j
         IN /\ TurnOf(i) = Buckets[j]
            /\ Len(Buckets) * k \in 0..(i - 1) /\ i \in 0..(Len(Buckets) * (k + 1))
            /\ i \in 1..(Len(Buckets) * n) /\ Len(Buckets) * (k + 1) \in 0..(Len(Buckets) * n)
<1> DEFINE L == Len(Buckets)
           i == L * k + j
<1>1. L \in Nat /\ j - 1 \in 0..(L - 1) /\ i - 1 = L * k + (j - 1)
  <2>1. L \in Nat  BY RefillOK, LenProperties
  <2>2. L * k \in Nat  BY <2>1
  <2> QED  BY <2>1, <2>2
<1>2. TurnOf(i) = Buckets[j]
  <2>1. (i - 1) % L = j - 1
    <3>1. (L * k + (j - 1)) % L = j - 1
      <4> HIDE DEF L
      <4> QED  BY <1>1, RestOf
    <3> QED  BY <1>1, <3>1
  <2>2. (j - 1) + 1 = j  OBVIOUS
  <2> HIDE DEF i
  <2> QED  BY <2>1, <2>2 DEF TurnOf
<1>3. L * k \in Nat /\ L * (k + 1) = L * k + L /\ L * (k + 1) <= L * n /\ L * n \in Nat
  <2> HIDE DEF L, i
  <2>1. L * k \in Nat /\ L * (k + 1) = L * k + L /\ L * n \in Nat  BY <1>1
  <2>2. L * (k + 1) <= L * n
    <3>1. n - (k + 1) \in Nat  OBVIOUS
    <3>2. L * (n - (k + 1)) \in Nat  BY <1>1, <3>1
    <3>3. L * (n - (k + 1)) = L * n - L * (k + 1)  BY <1>1
    <3> QED  BY <1>1, <2>1, <3>2, <3>3
  <2> QED  BY <2>1, <2>2
<1> DEFINE u == L * k
           v == L * (k + 1)
           w == L * n
<1>4. u \in Nat /\ v = u + L /\ v <= w /\ w \in Nat /\ v \in Nat /\ j \in 1..L  BY <1>1, <1>3
<1>5. i = u + j  OBVIOUS
<1> HIDE DEF u, v, w, i, L
<1>6. u \in 0..(i - 1) /\ i \in 0..v /\ i \in 1..w /\ v \in 0..w  BY <1>1, <1>4, <1>5
<1> QED  BY <1>2, <1>6 DEF u, v, w, i, L

\* Each pass over the buckets serves a bucket once, while a packet fits it.
LEMMA PassServes ==
  ASSUME NEW state, NEW f, TurnsOf(Turns, f, state), Buckets # <<>>,
         state.deficit \in [Pool -> Nat], state.spawnable \in [Parents -> [Pool -> Nat]],
         NEW j \in 1..Len(Buckets)
  PROVE  Fitting(f[Turns], Buckets[j]) = {}
<1> DEFINE L == Len(Buckets)
           K == Cardinality(Packets)
           b == Buckets[j]
           N(i) == Cardinality(ToSet(f[i].chosen))
           Good == {k \in 0..K : N(L * k) >= k \/ Fitting(f[L * k], b) = {}}
<1>1. L \in Nat /\ K \in Nat /\ Turns = L * K /\ Turns \in Nat
  <2>1. L \in Nat  BY RefillOK, LenProperties
  <2>2. K \in Nat  BY RefillOK, FS_CardinalityType
  <2> QED  BY <2>1, <2>2 DEF Turns
<1>2. b \in Parents \cup {NoParent}  BY RefillOK, ElementOfSeq
<1>3. \A m \in 0..Turns : WithinDebt(f[m], state)
  <2> HIDE DEF L, K
  <2> QED  BY <1>1, TurnsWithin
<1>4. \A m \in 0..Turns : \A i \in 0..m : Later(f[i], f[m])
  <2> HIDE DEF L, K
  <2> QED  BY <1>1, TurnsLater
<1>5. \A m \in 0..Turns : /\ ToSet(f[m].chosen) \in SUBSET Packets
                          /\ IsFiniteSet(ToSet(f[m].chosen)) /\ N(m) \in Nat
  <2>1. ASSUME NEW m \in 0..Turns
        PROVE  ToSet(f[m].chosen) \in SUBSET Packets
    BY <1>3, ChosenPackets DEF WithinDebt
  <2> QED  BY <2>1, RefillOK, FS_Subset, FS_CardinalityType
<1>6. \A m \in 0..Turns : \A i \in 0..m : N(i) <= N(m)
  <2> SUFFICES ASSUME NEW m \in 0..Turns, NEW i \in 0..m PROVE N(i) <= N(m)  OBVIOUS
  <2>1. ToSet(f[i].chosen) \in SUBSET ToSet(f[m].chosen)  BY <1>4 DEF Later
  <2> QED  BY <1>5, <2>1, FS_Subset
<1>7. \A i \in 1..Turns : Fitting(f[i - 1], TurnOf(i)) # {} => N(i) = N(i - 1) + 1
  <2>1. \A i \in 1..Turns :
          /\ Later(f[i - 1], f[i])
          /\ Fitting(f[i - 1], TurnOf(i)) # {} =>
               Cardinality(ToSet(f[i].chosen)) = Cardinality(ToSet(f[i - 1].chosen)) + 1
    <3>1. Turns \in Nat  BY <1>1
    <3> HIDE DEF L, K, b, N, Good
    <3> QED  BY <3>1, TurnTaken
  <2> QED  BY <2>1
<1>8. 0 \in Good
  <2>1. L * 0 = 0 /\ 0 \in 0..Turns /\ 0 \in 0..K  BY <1>1
  <2>2. N(0) >= 0  BY <1>5, <2>1
  <2> QED  BY <2>1, <2>2
<1>9. ASSUME NEW k \in 0..(K - 1), k \in Good PROVE k + 1 \in Good
  <2> DEFINE i == L * k + j
             u == L * k
             v == L * (k + 1)
  <2>1. TurnOf(i) = b /\ u \in 0..(i - 1) /\ i \in 0..v /\ i \in 1..Turns /\ v \in 0..Turns
    <3>1. /\ TurnOf(i) = Buckets[j] /\ L * k \in 0..(i - 1) /\ i \in 0..(L * (k + 1))
          /\ i \in 1..(L * K) /\ L * (k + 1) \in 0..(L * K)
      <4> HIDE DEF K
      <4> QED  BY <1>1, PassTurn
    <3> QED  BY <1>1, <3>1
  <2> HIDE DEF L, K, b
  <2>2. k \in 0..K /\ k + 1 \in 0..K /\ k \in Nat  BY <1>1
  <2>3. N(u) >= k \/ Fitting(f[u], b) = {}  BY <1>9
  <2> HIDE DEF i, u, v
  <2>4. i - 1 \in 0..Turns /\ i \in 0..Turns /\ i - 1 \in 0..v /\ u \in 0..Turns  BY <1>1, <2>1
  <2>5. /\ N(u) <= N(i - 1) /\ N(i) <= N(v) /\ N(i - 1) <= N(v)
        /\ N(u) \in Nat /\ N(i - 1) \in Nat /\ N(i) \in Nat /\ N(v) \in Nat
    BY <1>5, <1>6, <2>1, <2>4
  <2>6. Later(f[u], f[i - 1]) /\ Later(f[i - 1], f[v])  BY <1>4, <2>1, <2>4
  <2>7. Fitting(f[i - 1], b) # {} => N(i) = N(i - 1) + 1
    <3>1. i \in 1..Turns /\ TurnOf(i) = b  BY <2>1
    <3>2. Fitting(f[i - 1], TurnOf(i)) # {} => N(i) = N(i - 1) + 1  BY <3>1, <1>7
    <3> QED  BY <3>1, <3>2
  <2> HIDE DEF N
  <2>8. N(v) >= k + 1 \/ Fitting(f[v], b) = {}
    <3>1. CASE Fitting(f[i - 1], b) = {}  BY <1>2, <2>6, <3>1 DEF Later
    <3>2. CASE Fitting(f[i - 1], b) # {}
      <4>1. Fitting(f[u], b) # {}  BY <1>2, <2>6, <3>2 DEF Later
      <4>2. N(u) >= k  BY <2>3, <4>1
      <4> QED  BY <2>2, <2>5, <2>7, <3>2, <4>2
    <3> QED  BY <3>1, <3>2
  <2> QED  BY <2>2, <2>8 DEF v
<1>10. \A k \in 0..(K - 1) : k \in Good => k + 1 \in Good  BY <1>9
<1>11. K \in Good
  <2> HIDE DEF Good, K
  <2>1. \A k \in 0..K : k \in Good  BY <1>1, <1>8, <1>10, UpTo, Zenon
  <2> QED  BY <1>1, <2>1
<1>12. N(Turns) >= K \/ Fitting(f[Turns], b) = {}
  <2> HIDE DEF N, L, K, b
  <2> QED  BY <1>1, <1>11
<1>13. CASE N(Turns) >= K
  <2>1. Turns \in 0..Turns  BY <1>1
  <2>2. ToSet(f[Turns].chosen) \in SUBSET Packets /\ N(Turns) \in Nat  BY <1>5, <2>1
  <2>3. N(Turns) <= K  BY <2>2, RefillOK, FS_Subset
  <2>4. N(Turns) = K  BY <1>1, <1>13, <2>2, <2>3
  <2>5. ToSet(f[Turns].chosen) = Packets  BY <2>2, <2>4, RefillOK, FS_Subset
  <2> QED  BY <2>5 DEF Fitting
<1> QED  BY <1>12, <1>13

\* select_tasks() passes nobody over: a packet whose turn can come is chosen, unless its pool's
\* deficit, or what its parent may spawn of that pool, is used up.  So the debt that recompute()
\* asks for is served as far as there is work for it.
THEOREM SelectionMaximal ==
  ASSUME NEW state, state.deficit \in [Pool -> Nat], state.spawnable \in [Parents -> [Pool -> Nat]],
         NEW x \in Packets, Selectable(x), ParentOf[x] \in ToSet(Buckets)
  PROVE  LET chosen == ToSet(Selection(state))
             pool == PoolOf[x]
             s == ParentOf[x]
         IN \/ x \in chosen
            \/ Cardinality({p \in chosen : PoolOf[p] = pool}) = state.deficit[pool]
            \/ /\ s # NoParent
               /\ Cardinality({p \in chosen : ParentOf[p] = s /\ PoolOf[p] = pool})
                    = state.spawnable[s][pool]
<1>1. PICK j \in DOMAIN Buckets : Buckets[j] = ParentOf[x]  BY DEF ToSet
<1>2. Buckets # <<>> /\ j \in 1..Len(Buckets) /\ Len(Buckets) \in Nat
  <2>1. DOMAIN Buckets = 1..Len(Buckets) /\ Len(Buckets) \in Nat  BY RefillOK, LenProperties
  <2>2. Len(Buckets) # 0  BY <1>1, <2>1
  <2> QED  BY <1>1, <2>1, <2>2, RefillOK, EmptySeq
<1>3. Turns \in Nat
  <2>1. Cardinality(Packets) \in Nat  BY RefillOK, FS_CardinalityType
  <2> QED  BY <1>2, <2>1 DEF Turns
<1> DEFINE f == CHOOSE f : TurnsOf(Turns, f, state)
<1>4. TurnsOf(Turns, f, state)  BY <1>3, TurnsExist
<1>5. Selection(state) = f[Turns].chosen  BY DEF Selection, TurnsOf
<1> HIDE DEF f
<1> DEFINE last == f[Turns]
<1>6. WithinDebt(last, state)
  <2>1. Turns \in 0..Turns  BY <1>3
  <2> QED  BY <1>2, <1>3, <1>4, <2>1, TurnsWithin
<1>7. Fitting(last, ParentOf[x]) = {}  BY <1>1, <1>2, <1>4, PassServes
<1>8. Selection(state) = last.chosen  BY <1>5
<1> HIDE DEF last
<1> SUFFICES ASSUME x \notin ToSet(last.chosen)
             PROVE  \/ Cardinality(Taken(last, PoolOf[x])) = state.deficit[PoolOf[x]]
                    \/ /\ ParentOf[x] # NoParent
                       /\ Cardinality(TakenBy(last, ParentOf[x], PoolOf[x]))
                            = state.spawnable[ParentOf[x]][PoolOf[x]]
  BY <1>8, Zenon DEF Taken, TakenBy
<1> DEFINE q == PoolOf[x]
           s == ParentOf[x]
<1>9. q \in Pool /\ s \in Parents \cup {NoParent}  BY RefillOK
<1>10. ~(last.left[q] > 0) \/ (s # NoParent /\ ~(last.spawnable[s][q] > 0))
  BY <1>7 DEF Fitting
<1>11. IsFiniteSet(ToSet(last.chosen))
  <2>1. ToSet(last.chosen) \in SUBSET Packets  BY <1>6, ChosenPackets DEF WithinDebt
  <2> QED  BY <2>1, RefillOK, FS_Subset
<1> HIDE DEF q, s
<1>12. CASE ~(last.left[q] > 0)
  <2>1. last.left[q] \in Nat /\ Cardinality(Taken(last, q)) + last.left[q] = state.deficit[q]
    BY <1>6, <1>9 DEF WithinDebt
  <2>2. Taken(last, q) \in SUBSET ToSet(last.chosen)  BY DEF Taken
  <2>3. Cardinality(Taken(last, q)) \in Nat  BY <1>11, <2>2, FS_Subset, FS_CardinalityType
  <2>4. Cardinality(Taken(last, q)) = state.deficit[q]  BY <1>12, <2>1, <2>3
  <2> QED  BY <2>4 DEF q
<1>13. CASE s # NoParent /\ ~(last.spawnable[s][q] > 0)
  <2>1. s \in Parents  BY <1>9, <1>13
  <2>2. last.spawnable[s][q] \in Nat
        /\ Cardinality(TakenBy(last, s, q)) + last.spawnable[s][q] = state.spawnable[s][q]
    BY <1>6, <1>9, <2>1 DEF WithinDebt
  <2>3. TakenBy(last, s, q) \in SUBSET ToSet(last.chosen)  BY DEF TakenBy
  <2>4. Cardinality(TakenBy(last, s, q)) \in Nat  BY <1>11, <2>3, FS_Subset, FS_CardinalityType
  <2> DEFINE left == last.spawnable[s][q]
  <2>5. left \in Nat /\ ~(left > 0)  BY <1>13, <2>2
  <2>6. Cardinality(TakenBy(last, s, q)) + left = state.spawnable[s][q]  BY <2>2
  <2> HIDE DEF left
  <2>7. Cardinality(TakenBy(last, s, q)) = state.spawnable[s][q]  BY <2>4, <2>5, <2>6
  <2> QED  BY <1>13, <2>7 DEF q, s
<1> QED  BY <1>10, <1>12, <1>13

-----------------------------------------------------------------------------
(* What recompute() asks for. *)

\* The elements a sum takes in, one at a time, from each subset of at most n elements.
SomeOf(s) == CHOOSE x \in s : TRUE
UpToSize(S, n) == {T \in SUBSET S : Cardinality(T) <= n}
SumsOf(D, g, f) ==
  f = [s \in D |-> IF s = {} THEN 0 ELSE g[SomeOf(s)] + f[s \ {SomeOf(s)}]]

\* A set that is not empty has an element, and is smaller without it.
LEMMA SmallerSet ==
  ASSUME NEW S, IsFiniteSet(S), NEW n \in Nat, NEW s \in UpToSize(S, n), s # {}
  PROVE  /\ SomeOf(s) \in S /\ n > 0 /\ s \ {SomeOf(s)} \in UpToSize(S, n - 1)
<1>1. SomeOf(s) \in s  BY DEF SomeOf
<1>2. IsFiniteSet(s) /\ s \in SUBSET S /\ Cardinality(s) <= n  BY FS_Subset DEF UpToSize
<1>3. Cardinality(s) \in Nat /\ Cardinality(s) # 0  BY <1>2, FS_CardinalityType, FS_EmptySet
<1>4. Cardinality(s \ {SomeOf(s)}) = Cardinality(s) - 1  BY <1>1, <1>2, FS_RemoveElement
<1> QED  BY <1>1, <1>2, <1>3, <1>4 DEF UpToSize

\* The sums over the subsets of at most n elements are defined.
LEMMA SumsExist ==
  ASSUME NEW S, IsFiniteSet(S), NEW g, NEW n \in Nat
  PROVE  \E f : SumsOf(UpToSize(S, n), g, f)
<1> DEFINE Good == {m \in 0..n : \E f : SumsOf(UpToSize(S, m), g, f)}
<1>1. 0 \in Good
  <2> DEFINE f == [s \in UpToSize(S, 0) |-> 0]
  <2>1. ASSUME NEW s \in UpToSize(S, 0), s # {} PROVE FALSE
    <3>1. 0 > 0  BY <2>1, SmallerSet
    <3> QED  BY <3>1
  <2>2. f = [s \in UpToSize(S, 0) |-> IF s = {} THEN 0 ELSE g[SomeOf(s)] + f[s \ {SomeOf(s)}]]
    BY <2>1
  <2> HIDE DEF f
  <2>3. SumsOf(UpToSize(S, 0), g, f)  BY <2>2 DEF SumsOf
  <2> QED  BY <2>3
<1>2. ASSUME NEW m \in 0..(n - 1), m \in Good PROVE m + 1 \in Good
  <2>1. PICK f : SumsOf(UpToSize(S, m), g, f)  BY <1>2
  <2> DEFINE h == [s \in UpToSize(S, m + 1) |->
                     IF s = {} THEN 0 ELSE g[SomeOf(s)] + f[s \ {SomeOf(s)}]]
  <2>2. ASSUME NEW s \in UpToSize(S, m + 1), s # {}
        PROVE  h[s \ {SomeOf(s)}] = f[s \ {SomeOf(s)}]
    <3> DEFINE t == s \ {SomeOf(s)}
    <3>1. t \in UpToSize(S, (m + 1) - 1)  BY <2>2, SmallerSet
    <3>2. t \in UpToSize(S, m)  BY <3>1
    <3>3. t \in UpToSize(S, m + 1)
      <4>1. t \in SUBSET S /\ IsFiniteSet(t) /\ Cardinality(t) <= m  BY <3>2, FS_Subset DEF UpToSize
      <4>2. Cardinality(t) \in Nat  BY <4>1, FS_CardinalityType
      <4> HIDE DEF t
      <4> QED  BY <4>1, <4>2 DEF UpToSize
    <3> HIDE DEF t
    <3>4. f[t] = IF t = {} THEN 0 ELSE g[SomeOf(t)] + f[t \ {SomeOf(t)}]  BY <2>1, <3>2 DEF SumsOf
    <3>5. h[t] = f[t]  BY <3>3, <3>4
    <3> QED  BY <3>5 DEF t
  <2>3. h = [s \in UpToSize(S, m + 1) |-> IF s = {} THEN 0 ELSE g[SomeOf(s)] + h[s \ {SomeOf(s)}]]
    BY <2>2
  <2> HIDE DEF h
  <2>4. SumsOf(UpToSize(S, m + 1), g, h)  BY <2>3 DEF SumsOf
  <2> QED  BY <2>4
<1> HIDE DEF Good
<1>3. \A m \in 0..(n - 1) : m \in Good => m + 1 \in Good  BY <1>2
<1>4. n \in Good  BY <1>1, <1>3, UpTo
<1> QED  BY <1>4 DEF Good

\* They are naturals.
LEMMA SumsNat ==
  ASSUME NEW S, IsFiniteSet(S), NEW g \in [S -> Nat], NEW n \in Nat, NEW f, SumsOf(UpToSize(S, n), g, f)
  PROVE  \A s \in UpToSize(S, n) : f[s] \in Nat
<1> DEFINE Good == {m \in 0..n : \A s \in UpToSize(S, m) : s \in UpToSize(S, n) /\ f[s] \in Nat}
<1>0. ASSUME NEW m \in 0..n, NEW s \in UpToSize(S, m) PROVE s \in UpToSize(S, n)
  <2>1. s \in SUBSET S /\ IsFiniteSet(s) /\ Cardinality(s) <= m  BY FS_Subset DEF UpToSize
  <2>2. Cardinality(s) \in Nat  BY <2>1, FS_CardinalityType
  <2> QED  BY <2>1, <2>2 DEF UpToSize
<1>1. 0 \in Good
  <2>1. ASSUME NEW s \in UpToSize(S, 0), s # {} PROVE FALSE
    <3>1. 0 > 0  BY <2>1, SmallerSet
    <3> QED  BY <3>1
  <2>2. ASSUME NEW s \in UpToSize(S, 0) PROVE s \in UpToSize(S, n) /\ f[s] \in Nat
    <3>1. s \in UpToSize(S, n)  BY <1>0
    <3>2. f[s] = 0  BY <2>1, <3>1 DEF SumsOf
    <3> QED  BY <3>1, <3>2
  <2> QED  BY <2>2
<1>2. ASSUME NEW m \in 0..(n - 1), m \in Good PROVE m + 1 \in Good
  <2>1. ASSUME NEW s \in UpToSize(S, m + 1) PROVE s \in UpToSize(S, n) /\ f[s] \in Nat
    <3>1. s \in UpToSize(S, n)  BY <1>0
    <3>2. f[s] = IF s = {} THEN 0 ELSE g[SomeOf(s)] + f[s \ {SomeOf(s)}]  BY <3>1 DEF SumsOf
    <3>3. CASE s # {}
      <4>1. SomeOf(s) \in S /\ s \ {SomeOf(s)} \in UpToSize(S, (m + 1) - 1)  BY <3>3, SmallerSet
      <4>2. f[s \ {SomeOf(s)}] \in Nat  BY <1>2, <4>1
      <4> QED  BY <3>1, <3>2, <3>3, <4>1, <4>2
    <3> QED  BY <3>1, <3>2, <3>3
  <2> QED  BY <2>1
<1> HIDE DEF Good
<1>3. \A m \in 0..(n - 1) : m \in Good => m + 1 \in Good  BY <1>2
<1>4. n \in Good  BY <1>1, <1>3, UpTo
<1> QED  BY <1>4 DEF Good

\* The sums over all the subsets of a finite set are defined.
LEMMA SumOverSubsets ==
  ASSUME NEW S, IsFiniteSet(S), NEW g
  PROVE  \E f : SumsOf(SUBSET S, g, f)
<1> DEFINE n == Cardinality(S)
<1>1. n \in Nat  BY FS_CardinalityType
<1>2. UpToSize(S, n) = SUBSET S
  <2>1. ASSUME NEW T \in SUBSET S PROVE Cardinality(T) <= n  BY FS_Subset
  <2> QED  BY <2>1 DEF UpToSize
<1> HIDE DEF n
<1>3. \E f : SumsOf(UpToSize(S, n), g, f)  BY <1>1, SumsExist
<1> QED  BY <1>2, <1>3

\* The sum over the whole set is a natural.
LEMMA SumOverSubsetsNat ==
  ASSUME NEW S, IsFiniteSet(S), NEW g \in [S -> Nat], NEW f, SumsOf(SUBSET S, g, f)
  PROVE  f[S] \in Nat
<1> DEFINE n == Cardinality(S)
<1>1. n \in Nat  BY FS_CardinalityType
<1>2. UpToSize(S, n) = SUBSET S
  <2>1. ASSUME NEW T \in SUBSET S PROVE Cardinality(T) <= n  BY FS_Subset
  <2> QED  BY <2>1 DEF UpToSize
<1> HIDE DEF n
<1>3. SumsOf(UpToSize(S, n), g, f)  BY <1>2
<1>4. \A s \in UpToSize(S, n) : f[s] \in Nat  BY <1>1, <1>3, SumsNat
<1> QED  BY <1>2, <1>4

\* What the active parents ask of a pool together, as recompute() adds it up, is a natural.
LEMMA DemandNat ==
  ASSUME NEW debt \in [Parents -> Nat], NEW queued \in [Parents -> [Pool -> Nat]],
         NEW p \in Pool
  PROVE  MapThenSumSet(LAMBDA s : Split(debt[s], queued[s])[p], Parents) \in Nat
<1> DEFINE g == [s \in Parents |-> Split(debt[s], queued[s])[p]]
           f == CHOOSE f : f = [s \in SUBSET Parents |->
                  IF s = {} THEN 0
                  ELSE Split(debt[SomeOf(s)], queued[SomeOf(s)])[p] + f[s \ {SomeOf(s)}]]
<1>1. MapThenSumSet(LAMBDA s : Split(debt[s], queued[s])[p], Parents) = f[Parents]
  BY DEF MapThenSumSet, MapThenFoldSet, SomeOf
<1>2. g \in [Parents -> Nat]
  <2>1. ASSUME NEW s \in Parents PROVE Split(debt[s], queued[s])[p] \in Nat
    <3>1. debt[s] \in Nat /\ queued[s] \in [Pool -> Nat] /\ queued[s][p] \in Nat  OBVIOUS
    <3>2. Split(debt[s], queued[s])[p] \in 0..queued[s][p]  BY <3>1, SplitExact
    <3> QED  BY <3>1, <3>2
  <2> QED  BY <2>1
<1>3. \A s \in SUBSET Parents : s # {} => SomeOf(s) \in Parents  BY DEF SomeOf
<1>4. ASSUME NEW h, SumsOf(SUBSET Parents, g, h)
      PROVE  h = [s \in SUBSET Parents |->
                  IF s = {} THEN 0
                  ELSE Split(debt[SomeOf(s)], queued[SomeOf(s)])[p] + h[s \ {SomeOf(s)}]]
  BY <1>3, <1>4 DEF SumsOf
<1>5. \E h : SumsOf(SUBSET Parents, g, h)
  <2> HIDE DEF g
  <2> QED  BY TargetsOK, SumOverSubsets
<1>6. f = [s \in SUBSET Parents |->
             IF s = {} THEN 0
             ELSE Split(debt[SomeOf(s)], queued[SomeOf(s)])[p] + f[s \ {SomeOf(s)}]]
  BY <1>4, <1>5
<1> HIDE DEF f
<1>7. SumsOf(SUBSET Parents, g, f)  BY <1>3, <1>6 DEF SumsOf
<1> HIDE DEF g
<1>8. f[Parents] \in Nat  BY <1>2, <1>7, TargetsOK, SumOverSubsetsNat
<1> QED  BY <1>1, <1>8

\* What a work queue and a reading of the roster hold.
Queues == [pool : [Pool -> Nat], parent : [Parents -> [Pool -> Nat]]]
Readings == [running : [Pool -> Nat], starting : [Pool -> Nat],
             parent : [Parents -> [running : Nat, starting : Nat]]]

\* A record of both pools is a function of pools.
LEMMA EachIs ==
  ASSUME NEW f, f = [v4 |-> f["v4"], k3 |-> f["k3"]], f["v4"] \in Nat, f["k3"] \in Nat
  PROVE  f \in [Pool -> Nat]
<1>1. DOMAIN f = Pool  BY DEF Pool
<1> QED  BY <1>1 DEF Pool

\* The room a parent has left under its own target.
ParentRoom(counts, s) ==
  Positive(ParentTarget - counts.parent[s].running - counts.parent[s].starting)

\* The births of a state split what the room allows of a raw need, and of each parent's debt.
SplitOf(state, work, counts, raw, debt) ==
  /\ state.deficit = Split(Least(Total(raw), Capacity(counts)), raw)
  /\ state.spawnable
       = [s \in Parents |-> Split(Least(Least(debt[s], ParentRoom(counts, s)), Capacity(counts)),
                                  work.parent[s])]

\* What a pool below its target misses, less what starts.
Misses(work, counts, p) ==
  Least(work.pool[p], Borrowed(work.pool, Target, TargetTotal)[p] - counts.running[p]) - counts.starting[p]

\* A raw need is at least what the pools miss.
Needs(work, counts, finalized, raw) ==
  \A p \in Pool :
    ~finalized /\ work.pool[p] > 0 /\ counts.running[p] < Borrowed(work.pool, Target, TargetTotal)[p]
      => raw[p] >= Misses(work, counts, p)

\* recompute() splits what the room allows of some raw need, and of each parent's debt.
LEMMA Recomputed ==
  ASSUME NEW work \in Queues, NEW counts \in Readings, NEW finalized \in BOOLEAN,
         NEW active \in SUBSET Parents
  PROVE  \E raw \in [Pool -> Nat], debt \in [Parents -> Nat] :
           /\ SplitOf(Recompute(work, counts, finalized, active), work, counts, raw, debt)
           /\ Needs(work, counts, finalized, raw)
<1> DEFINE pending == work.pool
           targets == Borrowed(pending, Target, TargetTotal)
           debt == [s \in Parents |-> IF s \in active THEN ParentDebt(work.parent[s], counts.parent[s])
                                      ELSE 0]
           Demand(p) == MapThenSumSet(LAMBDA s : Split(debt[s], work.parent[s])[p], Parents)
           demand == Each(Demand)
           required == {p \in Pool : /\ ~finalized /\ pending[p] > 0
                                     /\ counts.running[p] < targets[p] \/ demand[p] > 0}
           RawDebt(p) == IF p \in required
                   THEN Most(Least(pending[p], Positive(targets[p] - counts.running[p])), demand[p])
                   ELSE 0
           rawDebt == Each(RawDebt)
           RawSpawn(p) == Positive(rawDebt[p] - counts.starting[p])
           rawSpawn == Each(RawSpawn)
           room == Capacity(counts)
           Room(s) == Positive(ParentTarget - counts.parent[s].running - counts.parent[s].starting)
           result == [deficit |-> Split(Least(Total(rawSpawn), room), rawSpawn),
                      spawnable |-> [s \in Parents |-> Split(Least(Least(debt[s], Room(s)), room), work.parent[s])],
                      unfulfilled |-> rawDebt,
                      finalized |-> finalized]
<1>1. Recompute(work, counts, finalized, active) = result
  BY Zenon DEF Recompute
<1>2. debt \in [Parents -> Nat]
  <2>1. ASSUME NEW s \in Parents PROVE ParentDebt(work.parent[s], counts.parent[s]) \in Nat
    <3>1. work.parent[s]["v4"] \in Nat /\ work.parent[s]["k3"] \in Nat /\ counts.parent[s].running \in Nat
      BY DEF Queues, Readings, Pool
    <3> QED  BY <3>1, TargetsOK DEF ParentDebt, Least, Positive, Most, Total
  <2> QED  BY <2>1
<1>3. work.parent \in [Parents -> [Pool -> Nat]]  BY DEF Queues
<1>4. demand["v4"] \in Nat /\ demand["k3"] \in Nat
  <2> HIDE DEF debt
  <2>1. \A p \in Pool : Demand(p) \in Nat  BY <1>2, <1>3, DemandNat
  <2> HIDE DEF Demand
  <2> QED  BY <2>1 DEF Each, Pool
<1>5. targets["v4"] \in Int /\ targets["k3"] \in Int
  BY TargetsOK DEF Borrowed, Each, Pool
<1>6. pending["v4"] \in Nat /\ pending["k3"] \in Nat /\ counts.running["v4"] \in Nat
      /\ counts.running["k3"] \in Nat /\ counts.starting["v4"] \in Nat /\ counts.starting["k3"] \in Nat
  BY DEF Queues, Readings, Pool
<1>7. rawDebt["v4"] \in Nat /\ rawDebt["k3"] \in Nat
  <2> HIDE DEF demand, targets, required
  <2>1. \A p \in Pool : RawDebt(p) \in Nat
    BY <1>4, <1>5, <1>6 DEF Most, Least, Positive, Pool
  <2> HIDE DEF RawDebt
  <2> QED  BY <2>1 DEF Each, Pool
<1>8. rawSpawn \in [Pool -> Nat]
  <2> HIDE DEF rawDebt
  <2>1. \A p \in Pool : RawSpawn(p) \in Nat  BY <1>6, <1>7 DEF Most, Positive, Pool
  <2> HIDE DEF RawSpawn
  <2>2. rawSpawn["v4"] \in Nat /\ rawSpawn["k3"] \in Nat /\ DOMAIN rawSpawn = Pool
        /\ rawSpawn = [v4 |-> rawSpawn["v4"], k3 |-> rawSpawn["k3"]]
    BY <2>1 DEF Each, Pool
  <2> HIDE DEF rawSpawn
  <2> QED  BY <2>2, EachIs
<1>9. SplitOf(result, work, counts, rawSpawn, debt)
  <2>1. room = Capacity(counts) /\ \A s \in Parents : Room(s) = ParentRoom(counts, s)
    BY DEF ParentRoom
  <2> HIDE DEF rawSpawn, debt, rawDebt, room, Room
  <2>2. result.deficit = Split(Least(Total(rawSpawn), room), rawSpawn)
        /\ result.spawnable
             = [s \in Parents |-> Split(Least(Least(debt[s], Room(s)), room), work.parent[s])]
    OBVIOUS
  <2> QED  BY <2>1, <2>2 DEF SplitOf
<1>10. Needs(work, counts, finalized, rawSpawn)
  <2> HIDE DEF demand, targets
  <2>1. ASSUME NEW p \in Pool, ~finalized, pending[p] > 0, counts.running[p] < targets[p]
        PROVE  RawSpawn(p) >= Least(pending[p], targets[p] - counts.running[p]) - counts.starting[p]
    <3>1. p \in required  BY <2>1
    <3> HIDE DEF required
    <3>2. pending[p] \in Nat /\ targets[p] \in Int /\ counts.running[p] \in Nat
          /\ counts.starting[p] \in Nat /\ demand[p] \in Nat
      BY <1>4, <1>5, <1>6 DEF Pool
    <3>3. rawDebt[p] = RawDebt(p)
      <4> HIDE DEF RawDebt
      <4> QED  BY DEF Each, Pool
    <3>4. RawDebt(p) >= Least(pending[p], targets[p] - counts.running[p]) /\ RawDebt(p) \in Nat
      BY <2>1, <3>1, <3>2 DEF Most, Least, Positive
    <3> HIDE DEF rawDebt, RawDebt
    <3>5. Least(pending[p], targets[p] - counts.running[p]) \in Int  BY <3>2 DEF Least
    <3> QED  BY <3>2, <3>3, <3>4, <3>5 DEF Positive, Most
  <2>2. \A p \in Pool : rawSpawn[p] = RawSpawn(p)
    <3> HIDE DEF RawSpawn
    <3> QED  BY DEF Each, Pool
  <2> HIDE DEF RawSpawn, rawSpawn, rawDebt
  <2>3. \A p \in Pool : Misses(work, counts, p)
                          = Least(pending[p], targets[p] - counts.running[p]) - counts.starting[p]
    BY DEF Misses, targets
  <2> QED  BY <2>1, <2>2, <2>3 DEF Needs, targets
<1> HIDE DEF rawSpawn, debt, result
<1> QED  BY <1>1, <1>2, <1>8, <1>9, <1>10

\* A split is a share for both pools.
LEMMA SplitIsShare ==
  ASSUME NEW want, NEW work
  PROVE  \E a, b : Split(want, work) = [v4 |-> a, k3 |-> b]
<1>1. CASE want <= 0 \/ Total(work) <= 0
  <2>1. Split(want, work) = None  BY <1>1, Zenon DEF Split
  <2> QED  BY <2>1 DEF None, Each
<1>2. CASE ~(want <= 0 \/ Total(work) <= 0)
  <2> DEFINE grand == Total(work)
             Floor(p) == (want * work[p]) \div grand
             Rest(p) == (want * work[p]) % grand
             first == IF Rest("k3") > Rest("v4") THEN "k3" ELSE "v4"
             left == want - Floor("v4") - Floor("k3")
             Extra(p, n) == IF n > 0 /\ Floor(p) < work[p] THEN 1 ELSE 0
             Bonus(p) == IF p = first THEN Extra(p, left) ELSE Extra(p, left - Extra(first, left))
             Part(p) == Least(Floor(p) + Bonus(p), work[p])
  <2>1. Split(want, work) = Each(LAMBDA p : Part(p))  BY <1>2, Zenon DEF Split
  <2> HIDE DEF Part
  <2> QED  BY <2>1 DEF Each
<1> QED  BY <1>1, <1>2

\* A share is a function of the pools.
LEMMA SplitTyped ==
  ASSUME NEW want \in Nat, NEW queued \in [Pool -> Nat]
  PROVE  Split(want, queued) \in [Pool -> Nat] /\ \A p \in Pool : Split(want, queued)[p] <= queued[p]
<1> DEFINE share == Split(want, queued)
<1>1. \A p \in Pool : share[p] \in 0..queued[p]  BY SplitExact
<1>2. PICK a, b : share = [v4 |-> a, k3 |-> b]  BY SplitIsShare
<1> HIDE DEF share
<1>3. queued["v4"] \in Nat /\ queued["k3"] \in Nat  BY DEF Pool
<1>4. share["v4"] \in Nat /\ share["k3"] \in Nat /\ share = [v4 |-> share["v4"], k3 |-> share["k3"]]
  BY <1>1, <1>2, <1>3 DEF Pool
<1>5. share \in [Pool -> Nat]  BY <1>4, EachIs
<1>6. \A p \in Pool : share[p] <= queued[p]  BY <1>1, <1>3 DEF Pool
<1> QED  BY <1>5, <1>6 DEF share

\* RefillControllerV2.recompute(): whatever is queued and running, the births it asks for fit the
\* room under the target, and each parent's fit that parent's room and its own work.
THEOREM BirthsFitRoom ==
  ASSUME NEW work \in Queues, NEW counts \in Readings, NEW finalized \in BOOLEAN,
         NEW active \in SUBSET Parents
  PROVE  LET state == Recompute(work, counts, finalized, active)
         IN /\ state.deficit \in [Pool -> Nat] /\ Total(state.deficit) <= Capacity(counts)
            /\ state.spawnable \in [Parents -> [Pool -> Nat]]
            /\ \A s \in Parents :
                 /\ Total(state.spawnable[s]) <= Positive(ParentTarget - counts.parent[s].running
                                                           - counts.parent[s].starting)
                 /\ \A p \in Pool : state.spawnable[s][p] <= work.parent[s][p]
<1>0. PICK raw \in [Pool -> Nat], debt \in [Parents -> Nat] :
        /\ SplitOf(Recompute(work, counts, finalized, active), work, counts, raw, debt)
        /\ Needs(work, counts, finalized, raw)
  BY Recomputed, Zenon
<1> DEFINE room == Capacity(counts)
           Room(s) == ParentRoom(counts, s)
           state == Recompute(work, counts, finalized, active)
<1>1. /\ state.deficit = Split(Least(Total(raw), room), raw)
      /\ state.spawnable = [s \in Parents |-> Split(Least(Least(debt[s], Room(s)), room), work.parent[s])]
  BY <1>0, Zenon DEF SplitOf
<1>2. room \in Nat
  BY TargetsOK DEF Capacity, Readings, Total, Pool, Positive, Most
<1>3. ASSUME NEW s \in Parents PROVE Room(s) \in Nat
  BY TargetsOK DEF ParentRoom, Readings, Positive, Most
<1> HIDE DEF room, Room, state
<1>4. ASSUME NEW want \in Nat, NEW most \in Nat, want <= most, NEW queued \in [Pool -> Nat]
      PROVE  /\ Split(want, queued) \in [Pool -> Nat] /\ Total(Split(want, queued)) <= most
             /\ \A p \in Pool : Split(want, queued)[p] <= queued[p]
  <2> DEFINE share == Split(want, queued)
  <2>1. Total(share) = Least(want, Total(queued))  BY SplitExact
  <2>2. share \in [Pool -> Nat] /\ \A p \in Pool : share[p] <= queued[p]  BY SplitTyped
  <2> HIDE DEF share
  <2>3. Total(queued) \in Nat  BY DEF Total, Pool
  <2>4. Total(share) <= most  BY <1>4, <2>1, <2>3 DEF Least
  <2> QED  BY <2>2, <2>4 DEF share
<1>5. state.deficit \in [Pool -> Nat] /\ Total(state.deficit) <= room
  <2>1. Total(raw) \in Nat  BY DEF Total, Pool
  <2>2. Least(Total(raw), room) \in Nat /\ Least(Total(raw), room) <= room  BY <1>2, <2>1 DEF Least
  <2> QED  BY <1>1, <1>2, <1>4, <2>2
<1>6. ASSUME NEW s \in Parents
      PROVE  /\ state.spawnable[s] \in [Pool -> Nat] /\ Total(state.spawnable[s]) <= Room(s)
             /\ \A p \in Pool : state.spawnable[s][p] <= work.parent[s][p]
  <2> DEFINE want == Least(Least(debt[s], Room(s)), room)
  <2>1. debt[s] \in Nat  OBVIOUS
  <2>2. want \in Nat /\ want <= Room(s)  BY <1>2, <1>3, <2>1 DEF Least
  <2>3. state.spawnable[s] = Split(want, work.parent[s])  BY <1>1
  <2>4. work.parent[s] \in [Pool -> Nat]  BY DEF Queues
  <2> HIDE DEF want
  <2> QED  BY <1>3, <1>4, <2>2, <2>3, <2>4
<1>7. state.spawnable \in [Parents -> [Pool -> Nat]]  BY <1>1, <1>6
<1> QED  BY <1>5, <1>6, <1>7 DEF state, room, Room, ParentRoom

\* RefillControllerV2.recompute() never leaves the refill idle: a pool below its target with more
\* queued than starts already, while there is room, gets the root a birth.
THEOREM NeedAsksForBirths ==
  ASSUME NEW work \in Queues, NEW counts \in Readings, NEW active \in SUBSET Parents, NEW p \in Pool,
         work.pool[p] > counts.starting[p],
         counts.running[p] + counts.starting[p] < Borrowed(work.pool, Target, TargetTotal)[p],
         Capacity(counts) > 0
  PROVE  Total(Recompute(work, counts, FALSE, active).deficit) > 0
<1> DEFINE room == Capacity(counts)
           goal == Borrowed(work.pool, Target, TargetTotal)
           deficit == Recompute(work, counts, FALSE, active).deficit
<1>1. PICK raw \in [Pool -> Nat], debt \in [Parents -> Nat] :
        /\ SplitOf(Recompute(work, counts, FALSE, active), work, counts, raw, debt)
        /\ Needs(work, counts, FALSE, raw)
  BY Recomputed, Zenon
<1>2. work.pool[p] \in Nat /\ counts.starting[p] \in Nat /\ counts.running[p] \in Nat
  BY DEF Queues, Readings
<1>3. goal[p] \in Int  BY TargetsOK DEF Borrowed, Each, Pool
<1>4. deficit = Split(Least(Total(raw), room), raw)  BY <1>1, Zenon DEF SplitOf
<1>5. room \in Nat  BY TargetsOK DEF Capacity, Readings, Total, Pool, Positive, Most
<1>6. raw[p] > 0
  <2>1. work.pool[p] > 0 /\ counts.running[p] < goal[p]  BY <1>2, <1>3
  <2>2. raw[p] >= Misses(work, counts, p)  BY <1>1, <2>1 DEF Needs
  <2>3. Misses(work, counts, p) > 0 /\ Misses(work, counts, p) \in Int
    <3> HIDE DEF goal
    <3>1. Misses(work, counts, p) = Least(work.pool[p], goal[p] - counts.running[p]) - counts.starting[p]
      BY DEF Misses, goal
    <3>2. goal[p] - counts.running[p] > counts.starting[p]  BY <1>2, <1>3 DEF goal
    <3> QED  BY <1>2, <1>3, <3>1, <3>2 DEF Least
  <2> QED  BY <2>2, <2>3
<1>7. Total(raw) \in Nat /\ Total(raw) > 0  BY <1>6 DEF Total, Pool
<1> HIDE DEF room, deficit
<1>8. Least(Total(raw), room) \in Nat /\ Least(Total(raw), room) > 0
      /\ Least(Total(raw), room) <= Total(raw)
  BY <1>5, <1>7 DEF Least, room
<1>9. Total(deficit) = Least(Least(Total(raw), room), Total(raw))  BY <1>4, <1>8, SplitExact
<1>10. Total(deficit) > 0  BY <1>7, <1>8, <1>9 DEF Least
<1> QED  BY <1>10 DEF deficit

\* RefillController.recompute(), the v1 controller: its births fit the host's cap, the target and
\* the limit of starting children, none come while a spawn backoff runs, and a pool gets no more
\* than it has queued.
THEOREM V1BirthsFit ==
  ASSUME NEW pending \in [Pool -> Nat], NEW finalized \in BOOLEAN, NEW waits \in BOOLEAN,
         NEW counts \in [running : [Pool -> Nat], starting : [Pool -> Nat], reclaimable : Nat],
         NEW cap \in Nat, NEW maxStarting \in Nat
  PROVE  LET deficit == RecomputeV1(pending, counts, finalized, cap, maxStarting, waits).deficit
             held == Total(counts.running) + Total(counts.starting)
         IN /\ deficit \in [Pool -> Nat] /\ \A p \in Pool : deficit[p] <= pending[p]
            /\ Total(deficit) <= Positive(cap - held - counts.reclaimable)
            /\ Total(deficit) <= Positive(TargetTotal - held)
            /\ Total(deficit) <= Positive(maxStarting - Total(counts.starting))
            /\ waits => Total(deficit) = 0
<1> DEFINE targets == Borrowed(pending, Target, TargetTotal)
           lows == Borrowed(pending, LowWater, Least(TargetTotal, Total(LowWater)))
           required == {p \in Pool : ~finalized /\ pending[p] > 0 /\ counts.running[p] < lows[p]}
           RawDebt(p) == IF p \in required
                         THEN Least(pending[p], Positive(targets[p] - counts.running[p])) ELSE 0
           rawDebt == Each(RawDebt)
           RawSpawn(p) == Positive(rawDebt[p] - counts.starting[p])
           rawSpawn == Each(RawSpawn)
           held == Total(counts.running) + Total(counts.starting)
           room == IF waits THEN 0
                   ELSE Least(Least(Positive(cap - held - counts.reclaimable),
                                    Positive(TargetTotal - held)),
                              Positive(maxStarting - Total(counts.starting)))
           deficit == RecomputeV1(pending, counts, finalized, cap, maxStarting, waits).deficit
<1>1. deficit = Split(Least(Total(rawSpawn), room), rawSpawn)
  <2> DEFINE result == [deficit |-> Split(Least(Total(rawSpawn), room), rawSpawn),
                        unfulfilled |-> rawDebt]
  <2>1. RecomputeV1(pending, counts, finalized, cap, maxStarting, waits) = result
    BY Zenon DEF RecomputeV1
  <2> HIDE DEF rawSpawn, rawDebt, room
  <2> QED  BY <2>1
<1>2. pending["v4"] \in Nat /\ pending["k3"] \in Nat /\ counts.running["v4"] \in Nat
      /\ counts.running["k3"] \in Nat /\ counts.starting["v4"] \in Nat /\ counts.starting["k3"] \in Nat
  BY DEF Pool
<1>3. targets["v4"] \in Int /\ targets["k3"] \in Int
  BY TargetsOK DEF Borrowed, Each, Pool
<1>4. rawDebt["v4"] \in 0..pending["v4"] /\ rawDebt["k3"] \in 0..pending["k3"]
  <2> HIDE DEF targets, required
  <2>1. \A p \in Pool : RawDebt(p) \in 0..pending[p]
    BY <1>2, <1>3 DEF Most, Least, Positive, Pool
  <2> HIDE DEF RawDebt
  <2> QED  BY <2>1 DEF Each, Pool
<1>5. rawSpawn \in [Pool -> Nat] /\ \A p \in Pool : rawSpawn[p] <= pending[p]
  <2> HIDE DEF rawDebt
  <2>1. \A p \in Pool : RawSpawn(p) \in 0..pending[p]  BY <1>2, <1>4 DEF Most, Positive, Pool
  <2> HIDE DEF RawSpawn
  <2>2. rawSpawn["v4"] \in 0..pending["v4"] /\ rawSpawn["k3"] \in 0..pending["k3"]
        /\ rawSpawn = [v4 |-> rawSpawn["v4"], k3 |-> rawSpawn["k3"]]
    BY <2>1 DEF Each, Pool
  <2> HIDE DEF rawSpawn
  <2>3. rawSpawn["v4"] \in Nat /\ rawSpawn["k3"] \in Nat  BY <1>2, <2>2
  <2>4. rawSpawn \in [Pool -> Nat]  BY <2>2, <2>3, EachIs
  <2> QED  BY <1>2, <2>2, <2>4 DEF Pool
<1>6. /\ held \in Nat /\ Total(counts.starting) \in Nat
      /\ Positive(cap - held - counts.reclaimable) \in Nat /\ Positive(TargetTotal - held) \in Nat
      /\ Positive(maxStarting - Total(counts.starting)) \in Nat
  BY <1>2, TargetsOK DEF Total, Positive, Most
<1>7. /\ room \in Nat /\ room <= Positive(cap - held - counts.reclaimable)
      /\ room <= Positive(TargetTotal - held)
      /\ room <= Positive(maxStarting - Total(counts.starting)) /\ (waits => room = 0)
  <2> HIDE DEF held
  <2> QED  BY <1>6 DEF Least
<1> HIDE DEF rawSpawn, rawDebt, room, deficit
<1>8. Total(rawSpawn) \in Nat  BY <1>5 DEF Total, Pool
<1>9. Least(Total(rawSpawn), room) \in Nat /\ Least(Total(rawSpawn), room) <= room
      /\ Least(Total(rawSpawn), room) <= Total(rawSpawn)
  BY <1>7, <1>8 DEF Least
<1>10. deficit \in [Pool -> Nat] /\ \A p \in Pool : deficit[p] <= rawSpawn[p]
  BY <1>1, <1>5, <1>9, SplitTyped
<1>11. Total(deficit) \in Nat /\ Total(deficit) <= room
  <2>1. Total(deficit) = Least(Least(Total(rawSpawn), room), Total(rawSpawn))
    BY <1>1, <1>5, <1>9, SplitExact
  <2>2. Total(deficit) \in Nat  BY <1>10 DEF Total, Pool
  <2> QED  BY <1>7, <1>8, <1>9, <2>1, <2>2 DEF Least
<1>12. \A p \in Pool : deficit[p] <= pending[p]  BY <1>5, <1>10
<1> HIDE DEF held
<1>13. /\ Total(deficit) <= Positive(cap - held - counts.reclaimable)
       /\ Total(deficit) <= Positive(TargetTotal - held)
       /\ Total(deficit) <= Positive(maxStarting - Total(counts.starting))
       /\ waits => Total(deficit) = 0
  BY <1>6, <1>7, <1>11
<1> QED  BY <1>10, <1>12, <1>13 DEF deficit, held

\* queue_sync_ledger() writes a work queue.
LEMMA QueueIs == LedgerQueue \in Queues
<1>1. ASSUME NEW S \in SUBSET Packets PROVE Cardinality(S) \in Nat
  BY RefillOK, FS_Subset, FS_CardinalityType
<1> DEFINE In(S) == Each(LAMBDA q : Cardinality({p \in S : PoolOf[p] = q}))
           ready == {p \in Packets : Selectable(p)}
           work == {p \in Packets : led[p] = "work"}
           pool == [In(ready) EXCEPT !["k3"] = @ + Cardinality(work)]
<1>2. ASSUME NEW S \in SUBSET Packets PROVE In(S) \in [Pool -> Nat]
  <2>1. Cardinality({p \in S : PoolOf[p] = "v4"}) \in Nat  BY <1>1
  <2>2. Cardinality({p \in S : PoolOf[p] = "k3"}) \in Nat  BY <1>1
  <2>3. In(S) = [v4 |-> In(S)["v4"], k3 |-> In(S)["k3"]]  BY DEF Each
  <2>4. In(S)["v4"] \in Nat /\ In(S)["k3"] \in Nat  BY <2>1, <2>2 DEF Each
  <2> HIDE DEF In
  <2> QED  BY <2>3, <2>4, EachIs
<1>3. LedgerQueue = [pool |-> pool, parent |-> [s \in Parents |-> In({p \in ready : ParentOf[p] = s})]]
  BY Zenon DEF LedgerQueue
<1>4. Cardinality(work) \in Nat  BY <1>1
<1>5. In(ready) \in [Pool -> Nat]
  <2>1. ready \in SUBSET Packets  OBVIOUS
  <2> HIDE DEF ready, In
  <2> QED  BY <1>2, <2>1
<1> HIDE DEF In, work
<1>6. pool \in [Pool -> Nat]  BY <1>4, <1>5 DEF Pool
<1>7. [s \in Parents |-> In({p \in ready : ParentOf[p] = s})] \in [Parents -> [Pool -> Nat]]  BY <1>2
<1> HIDE DEF pool
<1> QED  BY <1>3, <1>6, <1>7 DEF Queues

\* _read_roster_state() reads counts.
LEMMA CountsAre == ASSUME native \in Nat PROVE Counts \in Readings
<1>1. ASSUME NEW S \in SUBSET Packets PROVE Cardinality(S) \in Nat
  BY RefillOK, FS_Subset, FS_CardinalityType
<1> DEFINE N(state, S) == Cardinality({p \in S : job[p] = state})
           Of(s) == {p \in Packets : ParentOf[p] = s}
           By(state) == Each(LAMBDA q : N(state, {p \in Packets : PoolOf[p] = q}))
           running == [By("running") EXCEPT !["v4"] = @ + native]
           seen == [s \in Parents |-> [running |-> N("running", Of(s)), starting |-> N("starting", Of(s))]]
<1>2. Counts = [running |-> running, starting |-> By("starting"), parent |-> seen]
  BY Zenon DEF Counts
<1>3. ASSUME NEW state, NEW S \in SUBSET Packets PROVE N(state, S) \in Nat  BY <1>1
<1>4. ASSUME NEW state PROVE By(state) \in [Pool -> Nat]
  <2> HIDE DEF N
  <2>1. N(state, {p \in Packets : PoolOf[p] = "v4"}) \in Nat
        /\ N(state, {p \in Packets : PoolOf[p] = "k3"}) \in Nat
    BY <1>3
  <2>2. By(state) = [v4 |-> By(state)["v4"], k3 |-> By(state)["k3"]]  BY DEF Each
  <2>3. By(state)["v4"] \in Nat /\ By(state)["k3"] \in Nat  BY <2>1 DEF Each
  <2> HIDE DEF By
  <2> QED  BY <2>2, <2>3, EachIs
<1> HIDE DEF N, By
<1>5. running \in [Pool -> Nat]  BY <1>4 DEF Pool
<1>6. seen \in [Parents -> [running : Nat, starting : Nat]]  BY <1>3
<1> HIDE DEF running, seen
<1> QED  BY <1>2, <1>4, <1>5, <1>6 DEF Readings

\* A wave fits if it is not more than the room the roster leaves, nor a parent's share more
\* than that parent's room.
WaveFits(wave) ==
  /\ Cardinality(ToSet(wave)) <= Capacity(Counts)
  /\ \A s \in Parents :
       Cardinality({p \in ToSet(wave) : ParentOf[p] = s})
         <= Positive(ParentTarget - Counts.parent[s].running - Counts.parent[s].starting)

\* Packets that are within a share of each pool are within the whole.
LEMMA TwoPools ==
  ASSUME NEW S \in SUBSET Packets, NEW share \in [Pool -> Nat], NEW most \in Nat, Total(share) <= most,
         \A q \in Pool : Cardinality({p \in S : PoolOf[p] = q}) <= share[q]
  PROVE  Cardinality(S) <= most
<1> DEFINE A == {p \in S : PoolOf[p] = "v4"}
           B == {p \in S : PoolOf[p] = "k3"}
<1>1. IsFiniteSet(S) /\ IsFiniteSet(A) /\ IsFiniteSet(B)  BY RefillOK, FS_Subset
<1>2. S = A \cup B /\ A \cap B = {}  BY RefillOK DEF Pool
<1>3. Cardinality(A) <= share["v4"] /\ Cardinality(B) <= share["k3"] /\ share["v4"] \in Nat
      /\ share["k3"] \in Nat
  BY DEF Pool
<1> HIDE DEF A, B
<1>4. Cardinality(A) \in Nat /\ Cardinality(B) \in Nat  BY <1>1, FS_CardinalityType
<1>5. Cardinality(A \cup B) = Cardinality(A) + Cardinality(B) - Cardinality(A \cap B)  BY <1>1, FS_Union
<1>6. Cardinality(A \cap B) = 0  BY <1>2, FS_EmptySet
<1> QED  BY <1>2, <1>3, <1>4, <1>5, <1>6 DEF Total

\* A selection by a recomputed state fits.
LEMMA SelectionFits ==
  ASSUME native \in Nat, NEW q \in Queues
  PROVE  WaveFits(Selection(State(q)))
<1> DEFINE state == State(q)
           wave == ToSet(Selection(state))
           Room(s) == Positive(ParentTarget - Counts.parent[s].running - Counts.parent[s].starting)
<1>1. Counts \in Readings  BY CountsAre
<1>2. /\ state.deficit \in [Pool -> Nat] /\ Total(state.deficit) <= Capacity(Counts)
      /\ state.spawnable \in [Parents -> [Pool -> Nat]]
      /\ \A s \in Parents : Total(state.spawnable[s]) <= Room(s)
  <2>1. {s \in Parents : registry[s] = "active"} \in SUBSET Parents  OBVIOUS
  <2>2. state = Recompute(q, Counts, FALSE, {s \in Parents : registry[s] = "active"})  BY DEF State
  <2> HIDE DEF state
  <2> QED  BY <1>1, <2>1, <2>2, BirthsFitRoom
<1>3. Capacity(Counts) \in Nat  BY <1>1, TargetsOK DEF Capacity, Readings, Total, Pool, Positive, Most
<1>4. \A s \in Parents : Room(s) \in Nat  BY <1>1, TargetsOK DEF Readings, Positive, Most
<1> HIDE DEF state, Room
<1>5. /\ \A p \in Pool : Cardinality({k \in wave : PoolOf[k] = p}) <= state.deficit[p]
      /\ \A s \in Parents, p \in Pool :
           Cardinality({k \in wave : ParentOf[k] = s /\ PoolOf[k] = p}) <= state.spawnable[s][p]
  BY <1>2, SelectionWithinDebt
<1>6. wave \in SUBSET Packets  BY SelectionDistinct, ChosenPackets
<1> HIDE DEF wave
<1>7. Cardinality(wave) <= Capacity(Counts)  BY <1>2, <1>3, <1>5, <1>6, TwoPools
<1>8. ASSUME NEW s \in Parents PROVE Cardinality({k \in wave : ParentOf[k] = s}) <= Room(s)
  <2> DEFINE S == {k \in wave : ParentOf[k] = s}
  <2>1. S \in SUBSET Packets  BY <1>6
  <2>2. ASSUME NEW p \in Pool PROVE Cardinality({k \in S : PoolOf[k] = p}) <= state.spawnable[s][p]
    <3>1. {k \in S : PoolOf[k] = p} = {k \in wave : ParentOf[k] = s /\ PoolOf[k] = p}  OBVIOUS
    <3> QED  BY <3>1, <1>5
  <2>3. state.spawnable[s] \in [Pool -> Nat] /\ Total(state.spawnable[s]) <= Room(s) /\ Room(s) \in Nat
    BY <1>2, <1>4
  <2> HIDE DEF S
  <2>4. Cardinality(S) <= Room(s)  BY <2>1, <2>2, <2>3, TwoPools
  <2> QED  BY <2>4 DEF S
<1> QED  BY <1>7, <1>8 DEF WaveFits, wave, Room, state

-----------------------------------------------------------------------------
(* What an edge and a quiet step keep. *)

\* schedule_run() starts an actuator or finds one that lives; it never touches a runner
\* inside its transaction.
LEMMA SchedulesSound ==
  ASSUME Inv, Schedules, UNCHANGED lock
  PROVE  /\ owed' = TRUE /\ marker' \in Actuators \cup {Nobody} /\ fresh' \subseteq Actuators
         /\ pc' \in [Runners -> Places] /\ lost' \subseteq {"act", "epi", "wake"}
         /\ NoEdgeStranded' /\ OneTransaction'
         /\ lock # Nobody => pc'[lock] = pc[lock]
<1>1. /\ pc \in [Runners -> Places] /\ marker \in Actuators \cup {Nobody}
      /\ lost \subseteq {"act", "epi", "wake"} /\ lock \in Runners \cup {Nobody}
      /\ Actuators \subseteq Runners
  BY DEF Inv, TypeOK, Runners
<1>2. CASE Coalesces
  <2>1. UNCHANGED <<lost, marker, pc>> /\ marker \in Actuators /\ Alive(marker)
        /\ owed' = TRUE /\ fresh' \subseteq Actuators
    BY <1>2 DEF Schedules, Coalesces
  <2>2. NoEdgeStranded'  BY <2>1 DEF NoEdgeStranded, Alive
  <2>3. OneTransaction'  BY <2>1 DEF Inv, OneTransaction
  <2> QED  BY <1>1, <2>1, <2>2, <2>3
<1>3. CASE ~Coalesces
  <2>1. PICK a \in Actuators :
          /\ pc[a] = "off" /\ pc' = [pc EXCEPT ![a] = "read"] /\ marker' = a
          /\ fresh' \subseteq Actuators /\ lost' = lost \ {"act"} /\ owed' = TRUE
    BY <1>3 DEF Schedules
  <2>2. a \in Runners /\ pc'[a] = "read"  BY <1>1, <2>1
  <2>3. NoEdgeStranded'  BY <2>2 DEF NoEdgeStranded, Alive
  <2>4. \A r \in Runners : pc'[r] = IF r = a THEN "read" ELSE pc[r]  BY <1>1, <2>1
  <2>5. lock # a  BY <2>1, <2>2 DEF Inv, OneTransaction
  <2>6. OneTransaction'  BY <2>4, <2>5 DEF Inv, OneTransaction
  <2>7. "read" \in Places  BY DEF Places
  <2>8. pc' \in [Runners -> Places]  BY <1>1, <2>1, <2>7
  <2> QED  BY <1>1, <2>1, <2>3, <2>4, <2>5, <2>6, <2>8
<1> QED  BY <1>2, <1>3

\* A step that leaves the ledger, the wave and the births alone.
LEMMA QuietWave ==
  ASSUME Inv, UNCHANGED <<led, news, births, blind, lock, tasks>>,
         lock # Nobody => pc'[lock] = pc[lock]
  PROVE  NewsOfThisWave' /\ BirthsSeen' /\ OneChildPerPacket'
<1>1. NewsOfThisWave'  BY DEF Inv, NewsOfThisWave
<1>2. BirthsSeen' /\ OneChildPerPacket'  BY DEF Inv, BirthsSeen, OneChildPerPacket
<1> QED  BY <1>1, <1>2

\* A step that bears no child.
LEMMA QuietChildren ==
  ASSUME Inv, Children' \subseteq Children, native' \in Nat, native' <= native, unseen' = unseen
  PROVE  OverfillOnlyByUnseen'
<1>1. IsFiniteSet(Children)  BY RefillOK, FS_Subset DEF Children
<1>2. /\ Cardinality(Children') <= Cardinality(Children)
      /\ Cardinality(Children') \in Nat /\ Cardinality(Children) \in Nat
  BY <1>1, FS_Subset, FS_CardinalityType
<1>3. Cardinality(unseen) \in Nat
  BY RefillOK, FS_Subset, FS_CardinalityType DEF Inv, TypeOK
<1>4. native \in Nat /\ BirthCap \in Nat  BY TargetsOK DEF Inv, TypeOK, BirthCap, Most
<1> QED  BY <1>2, <1>3, <1>4 DEF Inv, OverfillOnlyByUnseen

\* Whoever lives, an edge that is owed has somebody while no actuator stops.
LEMMA QuietEdges ==
  ASSUME Inv, owed' => owed, "act" \notin lost' => "act" \notin lost,
         \A a \in Actuators : pc[a] # "off" => pc'[a] # "off"
  PROVE  NoEdgeStranded'
  BY DEF Inv, NoEdgeStranded, Alive

-----------------------------------------------------------------------------
(* The edges, the importer, the epilogue. *)

\* What an edge may change beside its request.
EdgeFrame ==
  /\ Schedules /\ UNCHANGED <<led, news, job, births, unseen, lock, tasks, due, backoff, blind, faults>>
  /\ native' \in Nat /\ native' <= native /\ wake' \in BOOLEAN
  /\ registry' \in [Parents -> {"unknown", "active", "stopped"}]
  /\ importing' \in [Parents -> {"off", "admitted", "written"}]

\* A Desktop child's end, a wake, a parent's stop, an import: all of them edges (EdgeFrame).
LEMMA EdgesSound ==
  ASSUME Inv, NativeEnds \/ WakeUp \/ \E s \in Parents : ParentStops(s) \/ ImportCommits(s)
  PROVE  Inv'
<1>1. EdgeFrame
  <2>1. CASE NativeEnds  BY <2>1 DEF EdgeFrame, Inv, TypeOK, NativeEnds, ledger, children, parents
  <2>2. CASE WakeUp
    <3>1. wake' \in BOOLEAN  BY <2>2 DEF WakeUp
    <3>2. native \in Nat /\ registry \in [Parents -> {"unknown", "active", "stopped"}]
          /\ importing \in [Parents -> {"off", "admitted", "written"}]
      BY DEF Inv, TypeOK
    <3>3. Schedules /\ UNCHANGED <<led, news, job, births, unseen, registry, importing, native,
                                   lock, tasks, due, backoff, blind, faults>>
      BY <2>2 DEF WakeUp, ledger, children, parents
    <3> QED  BY <3>1, <3>2, <3>3 DEF EdgeFrame
  <2>3. ASSUME NEW s \in Parents, ParentStops(s) PROVE EdgeFrame
    BY <2>3 DEF EdgeFrame, Inv, TypeOK, ParentStops, ledger, children, parents
  <2>4. ASSUME NEW s \in Parents, ImportCommits(s) PROVE EdgeFrame
    BY <2>4 DEF EdgeFrame, Inv, TypeOK, ImportCommits, ledger, children, parents
  <2> QED  BY <2>1, <2>2, <2>3, <2>4
<1>2. TypeOK'  BY <1>1, SchedulesSound DEF EdgeFrame, Inv, TypeOK
<1>3. NewsOfThisWave' /\ BirthsSeen' /\ OneChildPerPacket'  BY <1>1, SchedulesSound, QuietWave DEF EdgeFrame
<1>4. OverfillOnlyByUnseen'  BY <1>1, QuietChildren DEF EdgeFrame, Children
<1> QED  BY <1>1, <1>2, <1>3, <1>4, SchedulesSound DEF EdgeFrame, Inv

\* A session marks a dead child's row.
LEMMA ReconcileSound ==
  ASSUME Inv, NEW p \in Packets, Reconcile(p)
  PROVE  Inv'
<1>1. /\ Schedules /\ UNCHANGED <<led, news, births, unseen, registry, importing, native, lock, tasks, wake, backoff, blind, faults>>
      /\ due' = TRUE /\ job[p] = "dead" /\ job' = [job EXCEPT ![p] = "over"]
      /\ job \in [Packets -> {"none", "spawning", "starting", "running", "dead", "over"}]
      /\ native \in Nat
  BY DEF Inv, TypeOK, Reconcile, ledger, parents
<1>2. TypeOK'  BY <1>1, SchedulesSound DEF Inv, TypeOK
<1>3. NewsOfThisWave' /\ BirthsSeen' /\ OneChildPerPacket'  BY <1>1, SchedulesSound, QuietWave
<1>4. Children' \subseteq Children  BY <1>1 DEF Children
<1>5. OverfillOnlyByUnseen'  BY <1>1, <1>4, QuietChildren
<1> QED  BY <1>1, <1>2, <1>3, <1>5, SchedulesSound DEF Inv

\* What moves only the importer, a child or what is outside.
OutsideFrame ==
  /\ UNCHANGED <<led, news, births, unseen, registry, native, owed, marker, fresh, pc, lock, tasks, blind>>
  /\ wake' \in BOOLEAN /\ due' \in BOOLEAN /\ backoff' \in BOOLEAN /\ faults' \in 0..MaxFaults
  /\ lost' \subseteq {"act", "epi", "wake"} /\ ("act" \in lost => "act" \in lost')
  /\ importing' \in [Parents -> {"off", "admitted", "written"}]

\* The steps of children, imports and sleeps: OutsideFrame says what they may do.
LEMMA OutsideSound ==
  ASSUME Inv,
         \/ WakeDies \/ BackoffBegins \/ BackoffEnds
         \/ \E s \in Parents : ImportAdmits(s) \/ ImportRefused(s)
         \/ \E p \in Packets : ChildStep(p) \/ ChildDies(p)
  PROVE  Inv'
<1>1. OutsideFrame
  <2> USE RefillOK DEF OutsideFrame, Inv, TypeOK, ledger, children, parents, request, run, fault
  <2>1. CASE WakeDies
    <3>1. wake' \in BOOLEAN /\ lost' \subseteq {"act", "epi", "wake"} /\ ("act" \in lost => "act" \in lost')
      BY <2>1 DEF WakeDies
    <3>2. faults' \in 0..MaxFaults  BY <2>1 DEF WakeDies
    <3>3. UNCHANGED <<ledger, children, parents, native, request, run, due, backoff, blind>>
      BY <2>1 DEF WakeDies
    <3> QED  BY <3>1, <3>2, <3>3
  <2>2. CASE BackoffBegins  BY <2>2 DEF BackoffBegins
  <2>3. CASE BackoffEnds  BY <2>3 DEF BackoffEnds
  <2>4. ASSUME NEW s \in Parents, ImportAdmits(s) \/ ImportRefused(s) PROVE OutsideFrame
    BY <2>4 DEF ImportAdmits, ImportRefused
  <2>5. ASSUME NEW p \in Packets, ChildStep(p) PROVE OutsideFrame
    <3>1. PICK from, to : ChildMoves(p, from, to)
      BY <2>5 DEF ChildStep, RowAppears, WorkerRuns, ChildEnds
    <3> QED  BY <3>1 DEF ChildMoves
  <2>6. ASSUME NEW p \in Packets, ChildDies(p) PROVE OutsideFrame  BY <2>6 DEF ChildDies
  <2> QED  BY <2>1, <2>2, <2>3, <2>4, <2>5, <2>6
<1>2. /\ job' \in [Packets -> {"none", "spawning", "starting", "running", "dead", "over"}]
      /\ Children' \subseteq Children
  <2>1. CASE job' = job  BY <2>1 DEF Inv, TypeOK, Children
  <2>2. CASE \E p \in Packets : ChildStep(p) \/ ChildDies(p)
    BY <2>2 DEF Inv, TypeOK, ChildStep, RowAppears, WorkerRuns, ChildEnds, ChildMoves, ChildDies, Children
  <2> QED
    BY <2>1, <2>2 DEF WakeDies, BackoffBegins, BackoffEnds, ImportAdmits, ImportRefused, children
<1>3. TypeOK'  BY <1>1, <1>2 DEF OutsideFrame, Inv, TypeOK
<1>4. NewsOfThisWave' /\ BirthsSeen' /\ OneChildPerPacket'  BY <1>1, QuietWave DEF OutsideFrame
<1>5. OverfillOnlyByUnseen'
  <2>1. native \in Nat  BY DEF Inv, TypeOK
  <2> QED  BY <1>1, <1>2, <2>1, QuietChildren DEF OutsideFrame
<1>6. NoEdgeStranded'  BY <1>1, QuietEdges DEF OutsideFrame
<1>7. OneTransaction'  BY <1>1 DEF OutsideFrame, Inv, OneTransaction
<1> QED  BY <1>3, <1>4, <1>5, <1>6, <1>7 DEF Inv

\* import_manifest() brings packets no child was ever born for.
LEMMA ImportWritesSound ==
  ASSUME Inv, NEW s \in Parents, ImportWrites(s)
  PROVE  Inv'
<1>1. /\ UNCHANGED <<news, job, births, unseen, registry, native, owed, marker, fresh, pc, lock, tasks,
                      wake, due, backoff, blind, lost, faults>>
      /\ led' = [p \in Packets |-> IF ParentOf[p] = s /\ led[p] = "absent" THEN "ready" ELSE led[p]]
      /\ importing' = [importing EXCEPT ![s] = "written"]
  BY DEF ImportWrites, children, request, run, fault
<1>2. \A p \in Packets : led'[p] = led[p] \/ (led[p] = "absent" /\ led'[p] = "ready")
  BY <1>1
<1>3. TypeOK'
  <2>1. led' \in [Packets -> {"absent", "ready", "dispatched", "work", "done"}]
    BY <1>1 DEF Inv, TypeOK
  <2>2. importing' \in [Parents -> {"off", "admitted", "written"}]
    BY <1>1 DEF Inv, TypeOK
  <2> QED  BY <1>1, <2>1, <2>2 DEF Inv, TypeOK
<1>4. NewsOfThisWave' /\ OneChildPerPacket' /\ OneTransaction' /\ NoEdgeStranded'
  BY <1>1 DEF Inv, NewsOfThisWave, OneChildPerPacket, OneTransaction, NoEdgeStranded, Alive
<1>5. BirthsSeen'  BY <1>1, <1>2 DEF Inv, BirthsSeen
<1>6. OverfillOnlyByUnseen'  BY <1>1 DEF Inv, OverfillOnlyByUnseen, Children
<1> QED  BY <1>3, <1>4, <1>5, <1>6 DEF Inv

\* L2 passes or sends back a packet whose child has reported.
LEMMA VerifySound ==
  ASSUME Inv, NEW p \in Packets, Verify(p)
  PROVE  Inv'
<1>1. /\ UNCHANGED <<news, job, births, unseen, registry, importing, native, owed, marker, fresh, pc,
                      lock, tasks, wake, backoff, blind, lost, faults>>
      /\ led[p] = "work" /\ led' = [led EXCEPT ![p] = "done"]
  BY DEF Verify, children, parents, request, run, fault
<1>2. led \in [Packets -> {"absent", "ready", "dispatched", "work", "done"}]
  BY DEF Inv, TypeOK
<1>3. TypeOK'
  <2>1. due' \in BOOLEAN  BY DEF Verify
  <2>2. led' \in [Packets -> {"absent", "ready", "dispatched", "work", "done"}]
    BY <1>1, <1>2
  <2> QED  BY <1>1, <2>1, <2>2 DEF Inv, TypeOK
<1>4. NewsOfThisWave' /\ OneChildPerPacket' /\ OneTransaction' /\ NoEdgeStranded'
  BY <1>1 DEF Inv, NewsOfThisWave, OneChildPerPacket, OneTransaction, NoEdgeStranded, Alive
<1>5. BirthsSeen'  BY <1>1, <1>2 DEF Inv, BirthsSeen
<1>6. OverfillOnlyByUnseen'  BY <1>1 DEF Inv, OverfillOnlyByUnseen, Children
<1> QED  BY <1>3, <1>4, <1>5, <1>6 DEF Inv

-----------------------------------------------------------------------------
(* The runners. *)

\* StateMachine.step() takes a birth it sees out of the ready packets, and no packet back.
LEMMA AppliedSound ==
  ASSUME Inv, led' = Applied, news' = {}, UNCHANGED <<births, blind>>
  PROVE  /\ led' \in [Packets -> {"absent", "ready", "dispatched", "work", "done"}]
         /\ BirthsSeen' /\ OneChildPerPacket'
<1>1. led \in [Packets -> {"absent", "ready", "dispatched", "work", "done"}]
  BY DEF Inv, TypeOK
<1>2. led' \in [Packets -> {"absent", "ready", "dispatched", "work", "done"}]
  BY <1>1 DEF Applied
<1>3. ASSUME NEW p \in Packets,
             led[p] \in {"dispatched", "work", "done"} \/ (led[p] = "ready" /\ p \in news)
      PROVE  led'[p] \in {"dispatched", "work", "done"}
  BY <1>3 DEF Applied
<1>4. BirthsSeen'  BY <1>3 DEF Inv, BirthsSeen
<1>5. OneChildPerPacket'  BY DEF Inv, OneChildPerPacket
<1> QED  BY <1>2, <1>4, <1>5

\* The epilogue's own refill begins.
LEMMA EpilogueStartsSound ==
  ASSUME Inv, EpilogueStarts
  PROVE  Inv'
<1>1. /\ UNCHANGED <<job, births, unseen, registry, importing, native, owed, marker, fresh,
                      lock, tasks, wake, backoff, blind, lost, faults>>
      /\ led' = Applied /\ news' = {} /\ due' = FALSE
      /\ pc[Epilogue] = "off" /\ pc' = [pc EXCEPT ![Epilogue] = "lock"]
  BY DEF EpilogueStarts, children, parents, request, fault
<1>2. pc \in [Runners -> Places] /\ Epilogue \in Runners /\ "lock" \in Places
  BY DEF Inv, TypeOK, Runners, Places
<1>3. TypeOK'
  <2>1. due' \in BOOLEAN  BY <1>1
  <2>2. pc' \in [Runners -> Places]  BY <1>1, <1>2
  <2>3. news' \subseteq Packets  BY <1>1
  <2> QED  BY <1>1, <2>1, <2>2, <2>3, AppliedSound DEF Inv, TypeOK
<1>4. OneTransaction'  BY <1>1, <1>2 DEF Inv, OneTransaction
<1>5. NewsOfThisWave'  BY <1>1 DEF Inv, NewsOfThisWave
<1>6. NoEdgeStranded'  BY <1>1, <1>2 DEF Inv, NoEdgeStranded, Alive
<1>7. OverfillOnlyByUnseen'  BY <1>1 DEF Inv, OverfillOnlyByUnseen, Children
<1> QED  BY <1>1, <1>3, <1>4, <1>5, <1>6, <1>7, AppliedSound DEF Inv

\* An actuator or the epilogue reads the request number.
LEMMA ReadRequestSound ==
  ASSUME Inv, NEW a \in Runners, ReadRequest(a)
  PROVE  Inv'
<1>1. /\ UNCHANGED <<led, news, job, births, unseen, registry, importing, native, owed, marker,
                      lock, tasks, wake, due, backoff, blind, lost, faults>>
      /\ fresh' \subseteq fresh /\ pc[a] = "read" /\ pc' = [pc EXCEPT ![a] = "lock"]
  BY DEF ReadRequest, ledger, children, parents, fault
<1>2. pc \in [Runners -> Places] /\ "lock" \in Places /\ fresh \subseteq Actuators
  BY DEF Inv, TypeOK, Places
<1>3. TypeOK'
  <2>1. pc' \in [Runners -> Places] /\ fresh' \subseteq Actuators  BY <1>1, <1>2
  <2> QED  BY <1>1, <2>1 DEF Inv, TypeOK
<1>4. OneTransaction'  BY <1>1, <1>2 DEF Inv, OneTransaction
<1>5. NewsOfThisWave' /\ BirthsSeen' /\ OneChildPerPacket'
  <2>1. lock # Nobody => pc'[lock] = pc[lock]
    BY <1>1, <1>2 DEF Inv, OneTransaction, TypeOK
  <2> QED  BY <1>1, <2>1, QuietWave
<1>6. NoEdgeStranded'  BY <1>1, <1>2 DEF Inv, NoEdgeStranded, Alive
<1>7. OverfillOnlyByUnseen'  BY <1>1 DEF Inv, OverfillOnlyByUnseen, Children
<1> QED  BY <1>3, <1>4, <1>5, <1>6, <1>7 DEF Inv

\* A runner enters .consumer.lock, when nobody is inside.
LEMMA EnterSound ==
  ASSUME Inv, NEW r \in Runners, Enter(r)
  PROVE  Inv'
<1>1. /\ UNCHANGED <<led, news, job, births, unseen, registry, importing, native, owed, marker, fresh,
                      tasks, wake, due, backoff, blind, lost, faults>>
      /\ lock = Nobody /\ lock' = r /\ pc[r] = "lock" /\ pc' = [pc EXCEPT ![r] = "select"]
  BY DEF Enter, LockFree, ledger, children, parents, request, fault
<1>2. pc \in [Runners -> Places] /\ "select" \in Places
  BY DEF Inv, TypeOK, Places
<1>3. TypeOK'
  <2>1. pc' \in [Runners -> Places]  BY <1>1, <1>2
  <2> QED  BY <1>1, <2>1 DEF Inv, TypeOK
<1>4. OneTransaction'  BY <1>1, <1>2, NobodyRuns DEF Inv, OneTransaction
<1>5. NewsOfThisWave' /\ BirthsSeen' /\ OneChildPerPacket'
  <2>1. news \ blind = {}  BY <1>1 DEF Inv, NewsOfThisWave
  <2> QED  BY <1>1, <2>1 DEF Inv, NewsOfThisWave, BirthsSeen, OneChildPerPacket
<1>6. NoEdgeStranded'  BY <1>1, <1>2 DEF Inv, NoEdgeStranded, Alive
<1>7. OverfillOnlyByUnseen'  BY <1>1 DEF Inv, OverfillOnlyByUnseen, Children
<1> QED  BY <1>3, <1>4, <1>5, <1>6, <1>7 DEF Inv

\* Whoever leaves the transaction leaves no news, and an actuator still lives.
LEMMA LeavesSound ==
  ASSUME Inv, NEW r \in Runners, pc[r] \in {"select", "after"}, Leaves(r),
         UNCHANGED <<led, news, births, tasks, owed, blind, lost>>
  PROVE  /\ pc' \in [Runners -> Places] /\ lock' = Nobody
         /\ OneTransaction' /\ NewsOfThisWave' /\ BirthsSeen' /\ OneChildPerPacket' /\ NoEdgeStranded'
<1>1. /\ lock' = Nobody /\ pc' = [pc EXCEPT ![r] = IF r = Epilogue THEN "off" ELSE "finish"]
      /\ pc \in [Runners -> Places] /\ lock = r /\ r # Nobody
  BY NobodyRuns DEF Leaves, Inv, TypeOK, OneTransaction
<1>2. pc' \in [Runners -> Places]  BY <1>1 DEF Places
<1>3. OneTransaction'  BY <1>1, NobodyRuns DEF Inv, OneTransaction
<1>4. news \ blind = {}  BY <1>1 DEF Inv, NewsOfThisWave
<1>5. NewsOfThisWave' /\ BirthsSeen' /\ OneChildPerPacket'
  BY <1>4 DEF Inv, NewsOfThisWave, BirthsSeen, OneChildPerPacket
<1>6. NoEdgeStranded'
  <2>1. \A a \in Actuators : pc[a] # "off" => pc'[a] # "off"
    BY <1>1, RefillOK DEF Runners
  <2> QED  BY <2>1 DEF Inv, NoEdgeStranded, Alive
<1> QED  BY <1>1, <1>2, <1>3, <1>5, <1>6

\* A runner selects its wave from the ledger and the roster.
LEMMA SelectSound ==
  ASSUME Inv, NEW r \in Runners, Select(r)
  PROVE  Inv'
<1>1. /\ UNCHANGED <<led, news, job, births, unseen, registry, importing, native, owed, marker, fresh,
                      wake, due, backoff, blind, lost, faults>>
      /\ pc[r] = "select"
  BY DEF Select, ledger, children, parents, request, fault
<1>2. OverfillOnlyByUnseen'  BY <1>1 DEF Inv, OverfillOnlyByUnseen, Children
<1>3. CASE Leaves(r) /\ UNCHANGED tasks
  <2>1. TypeOK'  BY <1>1, <1>3, LeavesSound DEF Inv, TypeOK
  <2> QED  BY <1>1, <1>2, <1>3, <2>1, LeavesSound DEF Inv
<1>4. CASE ~(Leaves(r) /\ UNCHANGED tasks)
  <2>1. /\ pc' = [pc EXCEPT ![r] = "wave"] /\ tasks' = Selection(State(queue)) /\ UNCHANGED lock
    BY <1>4 DEF Select
  <2>2. tasks' \in Seq(Packets) /\ Distinct(tasks')  BY <2>1, SelectionDistinct
  <2>3. pc \in [Runners -> Places] /\ "wave" \in Places /\ lock = r
    BY <1>1 DEF Inv, TypeOK, Places, OneTransaction
  <2>4. TypeOK'
    <3>1. pc' \in [Runners -> Places]  BY <2>1, <2>3
    <3> QED  BY <1>1, <2>1, <2>2, <3>1 DEF Inv, TypeOK
  <2>5. OneTransaction'  BY <1>1, <2>1, <2>3 DEF Inv, OneTransaction
  <2>6. news \ blind = {}  BY <1>1, <2>3 DEF Inv, NewsOfThisWave
  <2>7. NewsOfThisWave' /\ BirthsSeen' /\ OneChildPerPacket'
    BY <1>1, <2>2, <2>6 DEF Inv, NewsOfThisWave, BirthsSeen, OneChildPerPacket, Distinct
  <2>8. NoEdgeStranded'  BY <1>1, <2>1, <2>3 DEF Inv, NoEdgeStranded, Alive
  <2> QED  BY <1>2, <2>4, <2>5, <2>7, <2>8 DEF Inv
<1> QED  BY <1>3, <1>4

\* A runner writes the queue, sees to a wake and gives .consumer.lock back.
LEMMA AfterSound ==
  ASSUME Inv, NEW r \in Runners, After(r)
  PROVE  Inv'
<1>1. /\ UNCHANGED <<led, news, job, births, unseen, registry, importing, native, owed, marker, fresh,
                      tasks, due, backoff, blind, lost, faults>>
      /\ pc[r] = "after" /\ Leaves(r)
  BY DEF After, ledger, children, parents, request, fault
<1>2. wake' \in BOOLEAN  BY DEF After
<1>3. TypeOK'  BY <1>1, <1>2, LeavesSound DEF Inv, TypeOK
<1>4. OverfillOnlyByUnseen'  BY <1>1 DEF Inv, OverfillOnlyByUnseen, Children
<1> QED  BY <1>1, <1>3, <1>4, LeavesSound DEF Inv

\* step() sees the births of the wave; if it raises they are blind from now on.
LEMMA StepLedgerSound ==
  ASSUME Inv, NEW r \in Runners, StepLedger(r) \/ StepFails(r)
  PROVE  Inv'
<1>1. /\ UNCHANGED <<job, births, unseen, registry, importing, native, owed, marker, fresh,
                      lock, tasks, wake, due, backoff, lost>>
      /\ pc[r] = "wave" /\ pc' = [pc EXCEPT ![r] = "after"]
      /\ \/ led' = Applied /\ news' = {} /\ UNCHANGED <<blind, faults>>
         \/ UNCHANGED <<led, news>> /\ blind' = blind \cup news /\ faults' = faults + 1
            /\ faults < MaxFaults
  BY DEF StepLedger, StepFails, ledger, children, parents, request, fault
<1>2. pc \in [Runners -> Places] /\ "after" \in Places /\ lock = r /\ news \subseteq Packets
      /\ blind \subseteq Packets /\ faults \in 0..MaxFaults
  BY <1>1 DEF Inv, TypeOK, Places, OneTransaction
<1>3. /\ led' \in [Packets -> {"absent", "ready", "dispatched", "work", "done"}]
      /\ BirthsSeen' /\ OneChildPerPacket' /\ news' \ blind' = {}
  <2>1. CASE led' = Applied /\ news' = {} /\ UNCHANGED <<blind, faults>>
    BY <1>1, <2>1, AppliedSound
  <2>2. CASE UNCHANGED <<led, news>> /\ blind' = blind \cup news
    BY <1>1, <2>2 DEF Inv, TypeOK, BirthsSeen, OneChildPerPacket
  <2> QED  BY <1>1, <2>1, <2>2
<1>4. TypeOK'
  <2>1. pc' \in [Runners -> Places]  BY <1>1, <1>2
  <2>2. news' \subseteq Packets /\ blind' \subseteq Packets  BY <1>1, <1>2
  <2>3. faults' \in 0..MaxFaults  BY <1>1, <1>2, RefillOK
  <2> QED  BY <1>1, <1>3, <2>1, <2>2, <2>3 DEF Inv, TypeOK
<1>5. OneTransaction'  BY <1>1, <1>2 DEF Inv, OneTransaction
<1>6. NewsOfThisWave'  BY <1>1, <1>3 DEF Inv, NewsOfThisWave
<1>7. NoEdgeStranded'  BY <1>1, <1>2 DEF Inv, NoEdgeStranded, Alive
<1>8. OverfillOnlyByUnseen'  BY <1>1 DEF Inv, OverfillOnlyByUnseen, Children
<1> QED  BY <1>3, <1>4, <1>5, <1>6, <1>7, <1>8 DEF Inv

\* A union is no larger than its parts together.
LEMMA UnionBound ==
  ASSUME NEW A, NEW B, IsFiniteSet(A), IsFiniteSet(B)
  PROVE  /\ IsFiniteSet(A \cup B) /\ Cardinality(A \cup B) \in Nat
         /\ Cardinality(A) \in Nat /\ Cardinality(B) \in Nat
         /\ Cardinality(A \cup B) <= Cardinality(A) + Cardinality(B)
<1>1. IsFiniteSet(A \cap B) /\ IsFiniteSet(A \cup B)  BY FS_Subset, FS_Union
<1>2. Cardinality(A \cap B) \in Nat /\ Cardinality(A \cup B) \in Nat
      /\ Cardinality(A) \in Nat /\ Cardinality(B) \in Nat
  BY <1>1, FS_CardinalityType
<1>3. Cardinality(A \cup B) = Cardinality(A) + Cardinality(B) - Cardinality(A \cap B)  BY FS_Union
<1> QED  BY <1>1, <1>2, <1>3

InState(state) == {p \in Packets : job[p] = state}
InPool(state, q) == Cardinality({p \in {p \in Packets : PoolOf[p] = q} : job[p] = state})

\* Every row is a row of one of the two pools.
LEMMA PoolsCount ==
  ASSUME NEW state
  PROVE  /\ Cardinality(InState(state)) \in Nat /\ IsFiniteSet(InState(state))
         /\ InPool(state, "v4") \in Nat /\ InPool(state, "k3") \in Nat
         /\ Cardinality(InState(state)) <= InPool(state, "v4") + InPool(state, "k3")
<1> DEFINE Of(q) == {p \in {p \in Packets : PoolOf[p] = q} : job[p] = state}
<1>1. Of("v4") \in SUBSET Packets /\ Of("k3") \in SUBSET Packets  OBVIOUS
<1>2. InState(state) = Of("v4") \cup Of("k3")  BY RefillOK DEF InState, Pool
<1>3. InPool(state, "v4") = Cardinality(Of("v4")) /\ InPool(state, "k3") = Cardinality(Of("k3"))
  BY DEF InPool
<1> HIDE DEF Of
<1>4. IsFiniteSet(Of("v4")) /\ IsFiniteSet(Of("k3"))  BY <1>1, RefillOK, FS_Subset
<1> QED  BY <1>2, <1>3, <1>4, UnionBound

\* before_spawn() sees every row that runs or starts, and the Desktop children.
LEMMA CapCounts ==
  ASSUME native \in Nat, ~CapFull
  PROVE  Cardinality(InState("running")) + Cardinality(InState("starting")) + native < BirthCap
<1>1. /\ Total(Counts.running) = InPool("running", "v4") + native + InPool("running", "k3")
      /\ Total(Counts.starting) = InPool("starting", "v4") + InPool("starting", "k3")
  BY DEF Counts, Total, Each, InPool
<1>2. BirthCap \in Nat  BY TargetsOK DEF BirthCap, Most
<1>3. /\ InPool("running", "v4") \in Nat /\ InPool("running", "k3") \in Nat
      /\ InPool("starting", "v4") \in Nat /\ InPool("starting", "k3") \in Nat
      /\ Cardinality(InState("running")) \in Nat /\ Cardinality(InState("starting")) \in Nat
      /\ Cardinality(InState("running")) <= InPool("running", "v4") + InPool("running", "k3")
      /\ Cardinality(InState("starting")) <= InPool("starting", "v4") + InPool("starting", "k3")
  BY PoolsCount
<1> QED  BY <1>1, <1>2, <1>3 DEF CapFull

\* The birth of one child, decided on the rows.
LEMMA BirthFits ==
  ASSUME Inv, NEW p \in Packets, ~CapFull,
         job' = [job EXCEPT ![p] = "spawning"], UNCHANGED native,
         unseen' = unseen \cup InState("spawning")
  PROVE  OverfillOnlyByUnseen'
<1>1. native \in Nat /\ IsFiniteSet(unseen') /\ InState("spawning") \in SUBSET unseen'
  <2>1. unseen' \in SUBSET Packets  BY DEF Inv, TypeOK, InState
  <2> QED  BY <2>1, RefillOK, FS_Subset DEF Inv, TypeOK
<1>2. Children' \subseteq (InState("spawning") \cup (InState("starting") \cup InState("running"))) \cup {p}
  BY DEF Inv, TypeOK, Children, InState
<1> DEFINE sp == InState("spawning")
           st == InState("starting")
           ru == InState("running")
<1>3. IsFiniteSet(sp) /\ IsFiniteSet(st) /\ IsFiniteSet(ru)  BY PoolsCount
<1>4. Cardinality(ru) + Cardinality(st) + native < BirthCap  BY <1>1, CapCounts
<1>5. Cardinality(sp) <= Cardinality(unseen') /\ Cardinality(unseen') \in Nat
  BY <1>1, FS_Subset, FS_CardinalityType
<1>6. Children' \in SUBSET ((sp \cup (st \cup ru)) \cup {p})  BY <1>2
<1> HIDE DEF sp, st, ru
<1>7. IsFiniteSet(st \cup ru) /\ Cardinality(st \cup ru) <= Cardinality(st) + Cardinality(ru)
      /\ Cardinality(st \cup ru) \in Nat /\ Cardinality(st) \in Nat /\ Cardinality(ru) \in Nat
  BY <1>3, UnionBound
<1>8. /\ IsFiniteSet(sp \cup (st \cup ru)) /\ Cardinality(sp) \in Nat
      /\ Cardinality(sp \cup (st \cup ru)) \in Nat
      /\ Cardinality(sp \cup (st \cup ru)) <= Cardinality(sp) + Cardinality(st \cup ru)
  BY <1>3, <1>7, UnionBound
<1> DEFINE all == sp \cup (st \cup ru)
<1>9. IsFiniteSet({p}) /\ Cardinality({p}) = 1  BY FS_Singleton
<1>10. IsFiniteSet(all) /\ Children' \in SUBSET (all \cup {p})  BY <1>6, <1>8
<1>11. Cardinality(all) \in Nat /\ Cardinality(all) <= Cardinality(sp) + Cardinality(st \cup ru)
  BY <1>8
<1> HIDE DEF all
<1>12. /\ IsFiniteSet(all \cup {p}) /\ Cardinality(all \cup {p}) \in Nat
       /\ Cardinality(all \cup {p}) <= Cardinality(all) + 1
  BY <1>9, <1>10, UnionBound
<1>13. Cardinality(Children') <= Cardinality(all \cup {p}) /\ Cardinality(Children') \in Nat
  BY <1>10, <1>12, FS_Subset, FS_CardinalityType
<1>14. BirthCap \in Nat  BY TargetsOK DEF BirthCap, Most
<1>15. Cardinality(Children') + native <= BirthCap + Cardinality(unseen')
  BY <1>1, <1>4, <1>5, <1>7, <1>8, <1>11, <1>12, <1>13, <1>14
<1> QED  BY <1>15 DEF OverfillOnlyByUnseen

\* A wave gives a packet a child only when no earlier child of it counts, unless that one's
\* birth was lost to the ledger.
LEMMA WaveSound ==
  ASSUME Inv, NEW r \in Runners, Wave(r)
  PROVE  Inv'
<1> DEFINE p == Head(tasks)
<1>1. /\ UNCHANGED <<led, registry, importing, native, owed, marker, fresh, pc, lock,
                      wake, due, backoff, blind, lost, faults>>
      /\ pc[r] = "wave" /\ tasks # <<>> /\ tasks' = Tail(tasks)
      /\ \/ /\ Born(p) /\ job' = [job EXCEPT ![p] = "spawning"]
            /\ births' = [births EXCEPT ![p] = Least(2, @ + 1)]
            /\ unseen' = unseen \cup InState("spawning") /\ news' = news \cup {p}
         \/ UNCHANGED <<job, births, unseen, news>>
  BY DEF Wave, children, parents, request, fault, InState
<1>2. /\ p \in Packets /\ tasks' \in Seq(Packets) /\ Distinct(tasks')
      /\ p \notin ToSet(tasks') /\ ToSet(tasks') \subseteq ToSet(tasks) /\ p \in ToSet(tasks)
  BY <1>1, TailDistinct DEF Inv, TypeOK, NewsOfThisWave, Distinct
<1>3. lock = r /\ r # Nobody /\ births \in [Packets -> 0..2]
  BY <1>1, NobodyRuns DEF Inv, TypeOK, OneTransaction
<1>4. \A q \in Packets \ blind : q \in news => q \notin ToSet(tasks)
  BY DEF Inv, NewsOfThisWave
<1> HIDE DEF p
<1>5. CASE UNCHANGED <<job, births, unseen, news>>
  <2>1. TypeOK'  BY <1>1, <1>2, <1>5 DEF Inv, TypeOK
  <2>2. NewsOfThisWave'  BY <1>1, <1>2, <1>5 DEF Inv, NewsOfThisWave, Distinct
  <2>3. BirthsSeen' /\ OneChildPerPacket' /\ OneTransaction' /\ NoEdgeStranded' /\ OverfillOnlyByUnseen'
    BY <1>1, <1>5 DEF Inv, BirthsSeen, OneChildPerPacket, OneTransaction, NoEdgeStranded, Alive,
       OverfillOnlyByUnseen, Children
  <2> QED  BY <2>1, <2>2, <2>3 DEF Inv
<1>6. CASE ~UNCHANGED <<job, births, unseen, news>>
  <2>1. /\ led[p] = "ready" /\ ~CapFull /\ job' = [job EXCEPT ![p] = "spawning"]
        /\ births' = [births EXCEPT ![p] = Least(2, @ + 1)]
        /\ unseen' = unseen \cup InState("spawning") /\ news' = news \cup {p}
    BY <1>1, <1>6 DEF Born
  <2>2. \A q \in Packets : births'[q] = IF q = p THEN Least(2, births[q] + 1) ELSE births[q]
    BY <1>3, <2>1
  <2>3. Least(2, births[p] + 1) \in 0..2 /\ Least(2, births[p] + 1) > 0
        /\ (births[p] = 0 => Least(2, births[p] + 1) = 1)
    <3>1. births[p] \in 0..2  BY <1>2, <1>3
    <3> QED  BY <3>1 DEF Least
  <2>4. TypeOK'
    <3>1. births' \in [Packets -> 0..2]  BY <1>3, <2>1, <2>3
    <3>2. job' \in [Packets -> {"none", "spawning", "starting", "running", "dead", "over"}]
      BY <2>1 DEF Inv, TypeOK
    <3>3. unseen' \subseteq Packets /\ news' \subseteq Packets
      BY <1>2, <2>1 DEF Inv, TypeOK, InState
    <3> QED  BY <1>1, <1>2, <3>1, <3>2, <3>3 DEF Inv, TypeOK
  <2>5. births[p] = 0 \/ p \in blind
    <3> SUFFICES ASSUME births[p] # 0, p \notin blind PROVE FALSE  OBVIOUS
    <3>1. births[p] > 0  BY <1>2, <1>3
    <3>2. p \in news  BY <1>2, <2>1, <3>1 DEF Inv, BirthsSeen
    <3> QED  BY <1>2, <1>4, <3>2
  <2>6. OneChildPerPacket'
    BY <1>1, <1>2, <2>2, <2>3, <2>5 DEF Inv, OneChildPerPacket
  <2>7. BirthsSeen'
    BY <1>1, <1>2, <2>1, <2>2 DEF Inv, BirthsSeen
  <2>8. NewsOfThisWave'
    <3>1. \A q \in news' \ blind' : lock' # Nobody /\ pc'[lock'] = "wave" /\ q \notin ToSet(tasks')
      BY <1>1, <1>2, <1>3, <2>1 DEF Inv, NewsOfThisWave
    <3> QED  BY <1>2, <3>1 DEF NewsOfThisWave, Distinct
  <2>9. OneTransaction' /\ NoEdgeStranded'
    BY <1>1 DEF Inv, OneTransaction, NoEdgeStranded, Alive
  <2>10. OverfillOnlyByUnseen'  BY <1>1, <1>2, <2>1, BirthFits
  <2> QED  BY <2>4, <2>6, <2>7, <2>8, <2>9, <2>10 DEF Inv
<1> QED  BY <1>5, <1>6

\* An actuator leaves only with its request served.
LEMMA FinishSound ==
  ASSUME Inv, NEW a \in Runners, Finish(a)
  PROVE  Inv'
<1>1. /\ UNCHANGED <<led, news, job, births, unseen, registry, importing, native, fresh,
                      lock, tasks, wake, due, backoff, blind, lost, faults>>
      /\ a \in Actuators /\ pc[a] = "finish"
      /\ \/ a \notin fresh /\ pc' = [pc EXCEPT ![a] = "off"] /\ marker' \in {marker, Nobody}
         \/ a \in fresh /\ pc' = [pc EXCEPT ![a] = "read"] /\ marker' = marker
  BY DEF Finish, Settled, ledger, children, parents, fault
<1>2. owed' \in BOOLEAN /\ (owed' => owed /\ a \in fresh)
  BY DEF Finish
<1>3. pc \in [Runners -> Places] /\ "off" \in Places /\ "read" \in Places
  BY DEF Inv, TypeOK, Places
<1>4. TypeOK'
  <2>1. pc' \in [Runners -> Places]  BY <1>1, <1>3
  <2>2. marker' \in Actuators \cup {Nobody}  BY <1>1 DEF Inv, TypeOK
  <2> QED  BY <1>1, <1>2, <2>1, <2>2 DEF Inv, TypeOK
<1>5. OneTransaction'  BY <1>1, <1>3 DEF Inv, OneTransaction
<1>6. NewsOfThisWave' /\ BirthsSeen' /\ OneChildPerPacket'
  <2>1. lock # Nobody => pc'[lock] = pc[lock]
    BY <1>1, <1>3 DEF Inv, OneTransaction, TypeOK
  <2> QED  BY <1>1, <2>1, QuietWave
<1>7. NoEdgeStranded'
  <2>1. CASE a \notin fresh  BY <1>2, <2>1 DEF NoEdgeStranded
  <2>2. CASE a \in fresh
    <3>1. pc'[a] = "read"  BY <1>1, <1>3, <2>2
    <3> QED  BY <1>1, <3>1 DEF NoEdgeStranded, Alive
  <2> QED  BY <2>1, <2>2
<1>8. OverfillOnlyByUnseen'  BY <1>1 DEF Inv, OverfillOnlyByUnseen, Children
<1> QED  BY <1>4, <1>5, <1>6, <1>7, <1>8 DEF Inv

\* A holder that dies leaves its wave's births unseen: they are the blind ones.
LEMMA DiesSound ==
  ASSUME Inv, NEW r \in Runners, Dies(r)
  PROVE  Inv'
<1>1. /\ UNCHANGED <<led, news, job, births, unseen, registry, importing, native, owed, marker, fresh,
                      wake, due, backoff>>
      /\ pc' = [pc EXCEPT ![r] = "off"] /\ faults < MaxFaults /\ faults' = faults + 1
      /\ \/ lock = r /\ lock' = Nobody /\ tasks' = <<>> /\ blind' = blind \cup news
         \/ lock # r /\ UNCHANGED <<lock, tasks, blind>>
      /\ lost' = lost \cup {IF r = Epilogue THEN "epi" ELSE "act"}
  BY DEF Dies, ledger, children, parents, request
<1>2. pc \in [Runners -> Places] /\ "off" \in Places /\ faults \in 0..MaxFaults
      /\ news \subseteq Packets /\ blind \subseteq Packets
  BY DEF Inv, TypeOK, Places
<1>3. TypeOK'
  <2>1. pc' \in [Runners -> Places] /\ faults' \in 0..MaxFaults  BY <1>1, <1>2, RefillOK
  <2>2. tasks' \in Seq(Packets) /\ lock' \in Runners \cup {Nobody} /\ blind' \subseteq Packets
    <3>1. tasks \in Seq(Packets) /\ lock \in Runners \cup {Nobody}  BY DEF Inv, TypeOK
    <3>2. <<>> \in Seq(Packets)  OBVIOUS
    <3>3. CASE lock = r  BY <1>1, <1>2, <3>2, <3>3, NobodyRuns
    <3>4. CASE lock # r  BY <1>1, <1>2, <3>1, <3>4
    <3> QED  BY <3>3, <3>4
  <2>3. lost' \subseteq {"act", "epi", "wake"}  BY <1>1 DEF Inv, TypeOK
  <2> QED  BY <1>1, <2>1, <2>2, <2>3 DEF Inv, TypeOK
<1>4. OneTransaction'  BY <1>1, <1>2, NobodyRuns DEF Inv, OneTransaction
<1>5. NewsOfThisWave' /\ BirthsSeen' /\ OneChildPerPacket'
  <2>1. CASE lock = r
    <3>1. news' \ blind' = {} /\ tasks' = <<>>  BY <1>1, <2>1, NobodyRuns
    <3>2. NewsOfThisWave'  BY <3>1 DEF NewsOfThisWave
    <3>3. BirthsSeen' /\ OneChildPerPacket'
      BY <1>1, <2>1, NobodyRuns DEF Inv, BirthsSeen, OneChildPerPacket
    <3> QED  BY <3>2, <3>3
  <2>2. CASE lock # r
    <3>1. lock # Nobody => pc'[lock] = pc[lock]  BY <1>1, <1>2, <2>2 DEF Inv, TypeOK
    <3> QED  BY <1>1, <2>2, <3>1, QuietWave
  <2> QED  BY <2>1, <2>2
<1>6. NoEdgeStranded'
  <2>1. CASE r = Epilogue
    <3>1. \A a \in Actuators : pc'[a] = pc[a]  BY <1>1, <1>2, <2>1, RefillOK DEF Runners
    <3> QED  BY <1>1, <2>1, <3>1 DEF Inv, NoEdgeStranded, Alive
  <2>2. CASE r # Epilogue  BY <1>1, <2>2 DEF NoEdgeStranded
  <2> QED  BY <2>1, <2>2
<1>7. OverfillOnlyByUnseen'  BY <1>1 DEF Inv, OverfillOnlyByUnseen, Children
<1> QED  BY <1>3, <1>4, <1>5, <1>6, <1>7 DEF Inv

-----------------------------------------------------------------------------
\* Nothing is owed and nobody runs at first.
LEMMA RefillInit == Init => Inv
<1> SUFFICES ASSUME Init PROVE Inv
  OBVIOUS
<1>1. \A r \in Runners : pc[r] = "off"  BY DEF Init
<1>2. TypeOK
  <2>1. led \in [Packets -> {"absent", "ready", "dispatched", "work", "done"}]  BY DEF Init
  <2>2. job \in [Packets -> {"none", "spawning", "starting", "running", "dead", "over"}]
        /\ births \in [Packets -> 0..2]
    BY DEF Init
  <2>3. pc \in [Runners -> Places]  BY DEF Init, Places
  <2>4. owed \in BOOLEAN /\ wake \in BOOLEAN /\ due \in BOOLEAN /\ backoff \in BOOLEAN
    BY DEF Init
  <2>5. registry \in [Parents -> {"unknown", "active", "stopped"}]
        /\ importing \in [Parents -> {"off", "admitted", "written"}]
    BY DEF Init
  <2>6. /\ news \subseteq Packets /\ native \in Nat /\ marker \in Actuators \cup {Nobody}
        /\ fresh \subseteq Actuators /\ lock \in Runners \cup {Nobody} /\ tasks \in Seq(Packets)
        /\ unseen \subseteq Packets /\ blind \subseteq Packets /\ lost \subseteq {"act", "epi", "wake"}
        /\ faults \in 0..MaxFaults
    BY RefillOK DEF Init
  <2> QED  BY <2>1, <2>2, <2>3, <2>4, <2>5, <2>6 DEF TypeOK
<1>3. OneTransaction  BY <1>1, NobodyRuns DEF Init, OneTransaction
<1>4. NewsOfThisWave /\ BirthsSeen /\ OneChildPerPacket
  BY DEF Init, NewsOfThisWave, BirthsSeen, OneChildPerPacket
<1>5. NoEdgeStranded
  <2>1. ~owed  BY DEF Init
  <2> QED  BY <2>1 DEF NoEdgeStranded
<1>6. OverfillOnlyByUnseen
  <2>1. Children = {}  BY DEF Init, Children
  <2>2. unseen = {} /\ native = 1  BY DEF Init
  <2>3. BirthCap \in Nat /\ BirthCap >= 1  BY TargetsOK DEF BirthCap, Most
  <2> QED  BY <2>1, <2>2, <2>3, FS_EmptySet DEF OverfillOnlyByUnseen
<1> QED  BY <1>2, <1>3, <1>4, <1>5, <1>6 DEF Inv

\* Every step of the refill.
LEMMA RefillNext == Inv /\ [Next]_vars => Inv'
<1> SUFFICES ASSUME Inv, [Next]_vars PROVE Inv'
  OBVIOUS
<1>1. ASSUME NEW s \in Parents,
             ParentStops(s) \/ ImportAdmits(s) \/ ImportWrites(s) \/ ImportCommits(s) \/ ImportRefused(s)
      PROVE  Inv'
  BY <1>1, EdgesSound, OutsideSound, ImportWritesSound
<1>2. ASSUME NEW r \in Runners, RunnerStep(r) \/ StepFails(r) \/ Dies(r) PROVE Inv'
  BY <1>2, ReadRequestSound, EnterSound, SelectSound, WaveSound, StepLedgerSound, AfterSound,
     FinishSound, DiesSound DEF RunnerStep
<1>3. ASSUME NEW p \in Packets, ChildStep(p) \/ ChildDies(p) \/ Reconcile(p) \/ Verify(p) PROVE Inv'
  BY <1>3, OutsideSound, ReconcileSound, VerifySound
<1>4. CASE NativeEnds \/ WakeUp \/ EpilogueStarts \/ WakeDies \/ BackoffBegins \/ BackoffEnds
  BY <1>4, EdgesSound, EpilogueStartsSound, OutsideSound
<1>5. CASE UNCHANGED vars
  <2>1. UNCHANGED <<led, news, job, births, unseen, registry, importing, native, owed, marker, fresh, pc, lock, tasks,
                    wake, due, backoff, blind, lost, faults>>
    BY <1>5 DEF vars
  <2>2. TypeOK'  BY <2>1 DEF Inv, TypeOK
  <2>3. OneTransaction' /\ NewsOfThisWave' /\ BirthsSeen' /\ OneChildPerPacket'
    BY <2>1 DEF Inv, OneTransaction, NewsOfThisWave, BirthsSeen, OneChildPerPacket
  <2>4. NoEdgeStranded' /\ OverfillOnlyByUnseen'
    BY <2>1 DEF Inv, NoEdgeStranded, Alive, OverfillOnlyByUnseen, Children
  <2> QED  BY <2>2, <2>3, <2>4 DEF Inv
<1> QED  BY <1>1, <1>2, <1>3, <1>4, <1>5 DEF Next

\* Actuators, epilogue, importer and children together keep every part of Inv.
THEOREM RefillSound == Spec => []Inv
  BY RefillInit, RefillNext, PTL DEF Spec

\* schedule_run() and drain_requested(): whoever counts an edge finds an actuator that will
\* look again, or starts one.
THEOREM OwedRefillServed == Spec => []NoEdgeStranded
<1>1. Inv => NoEdgeStranded  BY DEF Inv
<1> QED  BY <1>1, RefillSound, PTL

\* headless_wave.run() under .consumer.lock bears a packet one child, however late its row.
THEOREM OneBirthPerPacket == Spec => []OneChildPerPacket
<1>1. Inv => OneChildPerPacket  BY DEF Inv
<1> QED  BY <1>1, RefillSound, PTL

\* before_spawn() counts rows: what it does not see is all that can pass the target.
THEOREM TargetKept == Spec => []OverfillOnlyByUnseen
<1>1. Inv => OverfillOnlyByUnseen  BY DEF Inv
<1> QED  BY <1>1, RefillSound, PTL

\* parent_stop() is final: import_manifest() reads the registry again before it commits.
THEOREM StopIsFinal == Spec => StoppedStaysStopped
<1> DEFINE Kept == \A s \in Parents : registry[s] = "stopped" => registry'[s] = "stopped"
<1>1. ASSUME Inv, [Next]_vars PROVE [Kept]_registry
  <2>1. registry \in [Parents -> {"unknown", "active", "stopped"}]  BY <1>1 DEF Inv, TypeOK
  <2>2. CASE UNCHANGED registry  BY <2>2
  <2>3. CASE \E s \in Parents : ParentStops(s) \/ ImportCommits(s)
    BY <2>1, <2>3 DEF ParentStops, ImportCommits, StillAdmitted
  <2>4. ASSUME NEW s \in Parents, ImportAdmits(s) \/ ImportWrites(s) \/ ImportRefused(s)
        PROVE  UNCHANGED registry
    BY <2>4 DEF ImportAdmits, ImportWrites, ImportRefused
  <2>5. ASSUME NEW r \in Runners, RunnerStep(r) \/ StepFails(r) \/ Dies(r) PROVE UNCHANGED registry
    BY <2>5 DEF RunnerStep, ReadRequest, Enter, Select, Wave, StepLedger, After, Finish, StepFails, Dies, parents
  <2>6. ASSUME NEW p \in Packets, ChildStep(p) \/ ChildDies(p) \/ Reconcile(p) \/ Verify(p)
        PROVE  UNCHANGED registry
    BY <2>6 DEF ChildStep, RowAppears, WorkerRuns, ChildEnds, ChildMoves, ChildDies, Reconcile, Verify, parents
  <2>7. CASE NativeEnds \/ WakeUp \/ EpilogueStarts \/ WakeDies \/ BackoffBegins \/ BackoffEnds
    BY <2>7 DEF NativeEnds, WakeUp, EpilogueStarts, WakeDies, BackoffBegins, BackoffEnds, parents
  <2> QED  BY <1>1, <2>2, <2>3, <2>4, <2>5, <2>6, <2>7 DEF Next, vars
<1> QED  BY <1>1, RefillSound, PTL DEF Spec, StoppedStaysStopped

\* run_once(): the wave it selects fits the room that the roster leaves at that moment, rows that
\* only start included, and gives no parent more children than its target leaves.
THEOREM WavesFitRoom ==
  Spec => [][\A r \in Runners : Select(r) /\ pc'[r] = "wave" => WaveFits(tasks')]_vars
<1> DEFINE Fits == \A r \in Runners : Select(r) /\ pc'[r] = "wave" => WaveFits(tasks')
           Read == queue \in Queues
<1>1. Init => Read
  <2>1. None \in [Pool -> Nat]  BY DEF None, Each, Pool
  <2> QED  BY <2>1 DEF Init, Queues
<1>2. ASSUME Read, [Next]_vars PROVE Read'
  <2>1. CASE UNCHANGED queue  BY <1>2, <2>1
  <2>2. CASE queue' = LedgerQueue  BY <2>2, QueueIs
  <2>3. ASSUME NEW s \in Parents,
               ParentStops(s) \/ ImportAdmits(s) \/ ImportWrites(s) \/ ImportCommits(s) \/ ImportRefused(s)
        PROVE  UNCHANGED queue
    BY <2>3 DEF ParentStops, ImportAdmits, ImportWrites, ImportCommits, ImportRefused
  <2>4. ASSUME NEW r \in Runners, RunnerStep(r) \/ StepFails(r) \/ Dies(r)
        PROVE  queue' = queue \/ queue' = LedgerQueue
    BY <2>4 DEF RunnerStep, ReadRequest, Enter, Select, Wave, StepLedger, After, Finish, StepFails, Dies
  <2>5. ASSUME NEW p \in Packets, ChildStep(p) \/ ChildDies(p) \/ Reconcile(p) \/ Verify(p)
        PROVE  UNCHANGED queue
    BY <2>5 DEF ChildStep, RowAppears, WorkerRuns, ChildEnds, ChildMoves, ChildDies, Reconcile, Verify
  <2>6. CASE NativeEnds \/ WakeUp \/ EpilogueStarts \/ WakeDies \/ BackoffBegins \/ BackoffEnds
    BY <2>1, <2>6 DEF NativeEnds, WakeUp, EpilogueStarts, WakeDies, BackoffBegins, BackoffEnds
  <2>7. UNCHANGED vars => UNCHANGED queue  BY DEF vars
  <2> QED  BY <1>2, <2>1, <2>2, <2>3, <2>4, <2>5, <2>6, <2>7 DEF Next
<1>3. ASSUME Inv, Read PROVE Fits
  <2> SUFFICES ASSUME NEW r \in Runners, Select(r), pc'[r] = "wave" PROVE WaveFits(tasks')  OBVIOUS
  <2>1. native \in Nat /\ pc[r] = "select" /\ pc \in [Runners -> Places]
    BY <1>3 DEF Inv, TypeOK, Select
  <2>2. ~Leaves(r)  BY <2>1 DEF Leaves
  <2>3. tasks' = Selection(State(queue))  BY <2>2, Zenon DEF Select
  <2> QED  BY <1>3, <2>1, <2>3, SelectionFits
<1> HIDE DEF Fits, Read
<1>4. Spec => []Read  BY <1>1, <1>2, PTL DEF Spec
<1>5. ASSUME Inv, Read, [Next]_vars PROVE [Fits]_vars  BY <1>3, <1>5
<1>6. Spec => [][Fits]_vars  BY <1>4, <1>5, RefillSound, PTL DEF Spec
<1> QED  BY <1>6 DEF Fits
=============================================================================
