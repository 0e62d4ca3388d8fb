-------------------------- MODULE PacketLoopProofs --------------------------
(***************************************************************************)
(* The cold-start loop for any set of packets, drivers and retry classes,  *)
(* for any budgets and any number of faults and of operators at retry.py:  *)
(* one retry per attempt, one answer per failure, and that the loop        *)
(* implements PacketLife.  A claim is made on a ledger that may be old; it *)
(* stands only if nobody claimed the attempt before, and then the ledger   *)
(* cannot have moved past it: that is the invariant RetriesSound.          *)
(***************************************************************************)
EXTENDS PacketLoop, FiniteSetTheorems, SequenceTheorems, WellFoundedInduction, TLAPS

-----------------------------------------------------------------------------
(* Naturals and finite sets of them. *)

\* The order on the naturals, as a relation.
LEMMA LessRel == \A x, y \in Nat : x < y => <<x, y>> \in OpToRel(<, Nat)
  BY DEF OpToRel

\* A set of naturals has a least element.
LEMMA LeastNat ==
  ASSUME NEW X \in SUBSET Nat, X # {}
  PROVE  \E n \in X : \A m \in X : n <= m
<1> DEFINE R == OpToRel(<, Nat)
<1>1. IsWellFoundedOn(R, Nat)  BY NatLessThanWellFounded
<1>2. \A x, y \in Nat : x < y => <<x, y>> \in R  BY LessRel
<1>3. \E x \in X : \A y \in X : ~ (<<y, x>> \in R)  BY <1>1, WFMin
<1> HIDE DEF R
<1>4. PICK x \in X : \A y \in X : ~ (<<y, x>> \in R)  BY <1>3
<1>5. \A y \in X : ~ (y < x)  BY <1>2, <1>4
<1>6. \A y \in X : x <= y  BY <1>5
<1> QED  BY <1>6

\* Induction over the naturals up to n, for a set.
LEMMA UpTo ==
  ASSUME NEW n \in Nat, NEW Good, 0 \in Good, \A m \in 0..(n - 1) : m \in Good => m + 1 \in Good
  PROVE  \A m \in 0..n : m \in Good
<1> DEFINE Bad == {m \in 0..n : m \notin Good}
<1> SUFFICES ASSUME Bad # {} PROVE FALSE  OBVIOUS
<1>1. Bad \in SUBSET Nat  OBVIOUS
<1> HIDE DEF Bad
<1>2. PICK m \in Bad : \A k \in Bad : m <= k  BY <1>1, LeastNat
<1>3. m \in 0..n /\ m \notin Good /\ m # 0  BY <1>2 DEF Bad
<1>4. m - 1 \in 0..(n - 1) /\ m - 1 \in 0..n /\ ~(m <= m - 1) /\ (m - 1) + 1 = m  BY <1>3
<1>5. m - 1 \notin Bad  BY <1>4, <1>2
<1>6. m - 1 \in Good  BY <1>4, <1>5 DEF Bad
<1>7. (m - 1) + 1 \in Good  BY <1>4, <1>6
<1> QED  BY <1>3, <1>4, <1>7

\* Every finite set of naturals has a bound.
LEMMA FiniteBound ==
  ASSUME NEW S \in SUBSET Nat, IsFiniteSet(S)
  PROVE  \E b \in Nat : \A s \in S : s <= b
<1>0. PICK n \in Nat : ExistsBijection(1..n, S)  BY FS_NatBijection
<1>1. PICK f \in [1..n -> S] : S = {f[i] : i \in 1..n}
  <2>1. PICK f \in Bijection(1..n, S) : TRUE  BY <1>0, Zenon DEF ExistsBijection
  <2>2. f \in [1..n -> S] /\ \A s \in S : \E i \in 1..n : f[i] = s
    BY <2>1, Zenon DEF Bijection, Surjection
  <2> QED  BY <2>2
<1> DEFINE Good == {m \in 0..n : \E b \in Nat : \A i \in 1..m : f[i] <= b}
<1>2. 0 \in Good
  <2>1. \A i \in 1..0 : f[i] <= 0  OBVIOUS
  <2> QED  BY <2>1
<1>3. ASSUME NEW m \in 0..(n - 1), m \in Good PROVE m + 1 \in Good
  <2>1. PICK b \in Nat : \A i \in 1..m : f[i] <= b  BY <1>3
  <2>2. m + 1 \in 1..n /\ m + 1 \in 0..n  OBVIOUS
  <2>3. f[m + 1] \in Nat  BY <2>2
  <2>4. PICK c \in Nat : b <= c /\ f[m + 1] <= c
    <3>1. CASE b <= f[m + 1]  BY <3>1, <2>3
    <3>2. CASE f[m + 1] <= b  BY <3>2, <2>3
    <3> QED  BY <3>1, <3>2, <2>3
  <2>5. ASSUME NEW i \in 1..(m + 1) PROVE f[i] <= c
    <3>1. CASE i = m + 1  BY <3>1, <2>4
    <3>2. CASE i # m + 1
      <4>1. i \in 1..m /\ i \in 1..n  BY <3>2
      <4>2. f[i] \in Nat  BY <4>1
      <4> QED  BY <4>1, <4>2, <2>1, <2>4
    <3> QED  BY <3>1, <3>2
  <2> QED  BY <2>2, <2>5
<1> HIDE DEF Good
<1>4. \A m \in 0..(n - 1) : m \in Good => m + 1 \in Good  BY <1>3
<1>5. \A m \in 0..n : m \in Good  BY <1>2, <1>4, UpTo, Zenon
<1>6. PICK b \in Nat : \A i \in 1..n : f[i] <= b
  <2>1. n \in Good  BY <1>5
  <2> QED  BY <2>1 DEF Good
<1> QED  BY <1>1, <1>6

\* The largest element of a finite set of naturals.
LEMMA MaxSound ==
  ASSUME NEW S \in SUBSET Nat, IsFiniteSet(S), S # {}
  PROVE  Max(S) \in S /\ \A s \in S : s <= Max(S)
<1>1. PICK b \in Nat : \A s \in S : s <= b  BY FiniteBound
<1> DEFINE Bounds == {c \in Nat : \A s \in S : s <= c}
<1>2. Bounds \in SUBSET Nat /\ Bounds # {}  BY <1>1
<1>3. PICK x \in Bounds : \A c \in Bounds : x <= c  BY <1>2, LeastNat
<1>4. x \in S
  <2> SUFFICES ASSUME x \notin S PROVE FALSE  OBVIOUS
  <2>1. PICK s \in S : TRUE  OBVIOUS
  <2>2. s <= x /\ s # x /\ s \in Nat  BY <1>3
  <2>3. x - 1 \in Nat /\ ~(x <= x - 1)  BY <2>2, <1>3
  <2>4. \A t \in S : t <= x /\ t # x /\ t \in Nat  BY <1>3
  <2>5. \A t \in S : t <= x - 1  BY <2>4, <1>3
  <2> QED  BY <2>3, <2>5, <1>3
<1>5. \A s \in S : x >= s  BY <1>3
<1> QED  BY <1>4, <1>5 DEF Max

-----------------------------------------------------------------------------
(* One line, applied to one entry. *)

\* The attempts a class may still be retried at are below its max_retries.
LEMMA MaxTriesBounds == MaxTries \in Nat /\ \A k \in Classes : MaxRetries[k] <= MaxTries
<1> DEFINE S == {MaxRetries[k] : k \in Classes} \cup {0}
<1>1. S \in SUBSET Nat /\ S # {}  BY LoopConstants
<1>2. IsFiniteSet(S)
  <2>1. IsFiniteSet({MaxRetries[k] : k \in Classes})
    <3> DEFINE R == {MaxRetries[k] : k \in Classes}
    <3>1. MaxRetries \in Surjection(Classes, R)  BY LoopConstants DEF Surjection
    <3> QED  BY <3>1, LoopConstants, FS_Surjection
  <2> QED  BY <2>1, FS_AddElement
<1>3. MaxTries = Max(S)  BY DEF MaxTries
<1>4. \A k \in Classes : MaxRetries[k] \in S  OBVIOUS
<1> HIDE DEF S
<1>5. Max(S) \in S /\ \A s \in S : s <= Max(S)  BY <1>1, <1>2, MaxSound
<1> QED  BY <1>1, <1>3, <1>4, <1>5

\* The line may be applied to the entry: a retry is the next attempt's and within the class's
\* budget, a ruling that sends the packet back is its first.
Fits(k, e) ==
  /\ e.name = "retry_dispatch" => e.att = k.attempts + 1 /\ e.att <= MaxTries
  /\ e.name \in Sent => k.reviews = 0

\* A move of the entry that counts nothing.
Moved(from, to) ==
  \/ to = from \/ to = "escalated"
  \/ <<from, to>> \in {<<"waiting", "running">>, <<"running", "reported">>,
                       <<"reported", "accepted">>, <<"running", "failed">>,
                       <<"reported", "failed">>, <<"failed", "review">>}

\* Which rows count, and on what events.
LEMMA RowCounts ==
  \A r \in Table :
    /\ r.to \in STATES
    /\ r.num \in {9, 37} <=> r.on = "retry_dispatch"
    /\ r.num \in {11, 12} <=> r.on \in Sent
  BY DEF Table, T, Row, STATES, Sent

\* The phases a row leads from and to.
LEMMA RowPhases ==
  \A r \in Table :
    /\ r.num \in {9, 37} => Phase(r.from) = "failed" /\ Phase(r.to) = "waiting"
    /\ r.num \in {11, 12} => Phase(r.from) = "review" /\ Phase(r.to) = "running"
    /\ r.num = 22 => Phase(r.from) = "escalated" /\ Phase(r.to) = "waiting"
    /\ r.num \notin {9, 37, 11, 12, 22} => Moved(Phase(r.from), Phase(r.to))
  BY DEF Table, T, Row, Phase, Moved

\* Every state has a phase of PacketLife.
LEMMA PhaseTypes == \A s \in STATES : Phase(s) \in Life!Phases
  BY DEF STATES, Phase, Life!Phases

\* A move that counts nothing is a step of the abstract packet, or none.
LEMMA MovedLives ==
  ASSUME NEW k \in Life!Lives, NEW to \in Life!Phases, Moved(k.phase, to)
  PROVE  LET l == [k EXCEPT !.phase = to] IN l = k \/ Life!Lived(k, l)
<1> DEFINE l == [k EXCEPT !.phase = to]
<1>1. k.phase \in Life!Phases  BY DEF Life!Lives
<1>2. CASE to = k.phase
  <2>1. l = k  BY <1>2 DEF Life!Lives
  <2> QED  BY <2>1
<1>3. CASE to = "escalated"
  BY <1>1, <1>3 DEF Life!Lived, Life!Escalate, Life!Moves
<1>4. CASE to # k.phase /\ to # "escalated"
  BY <1>4 DEF Moved, Life!Lived, Life!Start, Life!Report, Life!Accept, Life!Fail,
              Life!Refer, Life!Moves
<1> QED  BY <1>2, <1>3, <1>4

\* What the line e may make of the entry k.
Follows(k, e, l) ==
  /\ l \in Entries /\ l.attempts <= MaxTries
  /\ l.attempts = k.attempts \/ (e.name = "retry_dispatch" /\ l.attempts = k.attempts + 1)
  /\ l.reviews = k.reviews \/ (e.name \in Sent /\ l.reviews = 1)
  /\ Abs(l) = Abs(k) \/ Life!Lived(Abs(k), Abs(l))

\* An entry that is within its budget is an abstract packet.
LEMMA AbsTypes ==
  ASSUME NEW k \in Entries, k.attempts <= MaxTries
  PROVE  Abs(k) \in Life!Lives
<1>1. Phase(k.state) \in Life!Phases  BY PhaseTypes DEF Entries
<1>2. k.attempts \in 0..MaxTries  BY MaxTriesBounds DEF Entries
<1>3. k.reviews \in 0..1  BY DEF Entries
<1> QED  BY <1>1, <1>2, <1>3 DEF Abs, Life!Lives, Entries

\* A line that is dropped changes nothing, and giving up only escalates.
LEMMA DroppedFollows ==
  ASSUME NEW k \in Entries, NEW e \in Lines, k.attempts <= MaxTries
  PROVE  Follows(k, e, k) /\ Follows(k, e, DeadLetter(k))
         /\ Follows(k, e, [DeadLetter(k) EXCEPT !.timeouts = @ + 1])
<1>1. Follows(k, e, k)  BY DEF Follows
<1>2. ASSUME NEW n \in Nat PROVE Follows(k, e, [k EXCEPT !.state = "DEAD_LETTER", !.timeouts = n])
  <2> DEFINE l == [k EXCEPT !.state = "DEAD_LETTER", !.timeouts = n]
  <2>1. l \in Entries /\ l.attempts = k.attempts /\ l.reviews = k.reviews /\ l.replans = k.replans
        /\ l.state = "DEAD_LETTER"
    BY DEF Entries, STATES
  <2> HIDE DEF l
  <2>2. Phase("DEAD_LETTER") = "escalated"  BY DEF Phase
  <2>3. Abs(l) = [Abs(k) EXCEPT !.phase = "escalated"]  BY <2>1, <2>2 DEF Abs
  <2>4. Abs(l) = Abs(k) \/ Life!Lived(Abs(k), Abs(l))
    BY <2>3, AbsTypes, MovedLives DEF Moved, Life!Phases
  <2> QED  BY <2>1, <2>4 DEF Follows, l
<1>3. DeadLetter(k) = [k EXCEPT !.state = "DEAD_LETTER", !.timeouts = k.timeouts]
  BY DEF DeadLetter, Entries
<1>4. [DeadLetter(k) EXCEPT !.timeouts = @ + 1]
        = [k EXCEPT !.state = "DEAD_LETTER", !.timeouts = k.timeouts + 1]
  BY DEF DeadLetter, Entries
<1>5. k.timeouts \in Nat /\ k.timeouts + 1 \in Nat  BY DEF Entries
<1> QED  BY <1>1, <1>2, <1>3, <1>4, <1>5

\* A packet that has used up one thing more has been retried, resumed or replanned.
LEMMA Used ==
  ASSUME NEW k \in Life!Lives, NEW l \in Life!Lives
  PROVE  /\ k.phase = "failed" /\ l.phase = "waiting" /\ k.tries < MaxTries
            /\ l.tries = k.tries + 1 /\ l.reviews = k.reviews /\ l.replans = k.replans
            => Life!Retry(k, l)
         /\ k.phase = "review" /\ l.phase = "running" /\ k.reviews = 0
            /\ l.tries = k.tries /\ l.reviews = 1 /\ l.replans = k.replans
            => Life!Resume(k, l)
         /\ k.phase = "escalated" /\ l.phase = "waiting" /\ k.replans < REPLAN_CAP
            /\ l.tries = k.tries /\ l.reviews = k.reviews /\ l.replans = k.replans + 1
            => Life!Replan(k, l)
  BY DEF Life!Lives, Life!Retry, Life!Resume, Life!Replan

\* A row counts what it should, and no further than the abstract packet may.
LEMMA TakenFollows ==
  ASSUME NEW k \in Entries, NEW e \in Lines, Fits(k, e), k.attempts <= MaxTries,
         NEW r \in Table, r.from = k.state, r.on = e.name
  PROVE  Follows(k, e, Taken(k, r))
<1> DEFINE l == Taken(k, r)
<1>1. CASE r.num = 22 /\ ReplansSpent(k)
  BY <1>1, DroppedFollows DEF Taken
<1>2. CASE r.num = 37 /\ TimeoutsSpent(k)
  BY <1>2, DroppedFollows DEF Taken
<1>3. CASE ~(r.num = 22 /\ ReplansSpent(k)) /\ ~(r.num = 37 /\ TimeoutsSpent(k))
  <2> DEFINE a == IF r.num \in {9, 37} THEN k.attempts + 1 ELSE k.attempts
             t == IF r.num = 37 THEN k.timeouts + 1 ELSE k.timeouts
             n == IF r.num = 22 THEN k.replans + 1 ELSE k.replans
             v == IF r.num \in {11, 12} THEN k.reviews + 1 ELSE k.reviews
  <2>1. l = [state |-> r.to, attempts |-> a, timeouts |-> t, replans |-> n, reviews |-> v]
    BY <1>3 DEF Taken, Entries
  <2>2. r.to \in STATES  BY RowCounts
  <2>3. a \in Nat /\ a <= MaxTries /\ (r.num \notin {9, 37} => a = k.attempts)
        /\ (r.num \in {9, 37} => a = k.attempts + 1 /\ k.attempts < MaxTries)
    BY RowCounts, MaxTriesBounds DEF Entries, Fits
  <2>4. t \in Nat  BY DEF Entries
  <2>5. n \in 0..REPLAN_CAP /\ (r.num # 22 => n = k.replans)
        /\ (r.num = 22 => n = k.replans + 1 /\ k.replans < REPLAN_CAP)
    BY <1>3 DEF Entries, ReplansSpent, REPLAN_CAP
  <2>6. v \in {0, 1} /\ (r.num \notin {11, 12} => v = k.reviews)
        /\ (r.num \in {11, 12} => v = 1 /\ k.reviews = 0)
    BY RowCounts DEF Entries, Fits
  <2> HIDE DEF a, t, n, v
  <2>7. l \in Entries /\ l.attempts = a /\ l.reviews = v
    BY <2>1, <2>2, <2>3, <2>4, <2>5, <2>6 DEF Entries
  <2>8. Abs(l) = [phase |-> Phase(r.to), tries |-> a, reviews |-> v, replans |-> n]
    BY <2>1 DEF Abs
  <2> HIDE DEF l
  <2>9. Abs(k) \in Life!Lives /\ Phase(r.to) \in Life!Phases
    BY <2>2, AbsTypes, PhaseTypes
  <2>10. Abs(k) = [phase |-> Phase(r.from), tries |-> k.attempts, reviews |-> k.reviews,
                   replans |-> k.replans]
    BY DEF Abs
  <2>11. Abs(l) = Abs(k) \/ Life!Lived(Abs(k), Abs(l))
    <3>0. Abs(l) \in Life!Lives
      <4>1. l.attempts <= MaxTries  BY <2>3, <2>7
      <4> QED  BY <4>1, <2>7, AbsTypes
    <3>1. CASE r.num \in {9, 37}
      <4>1. a = k.attempts + 1 /\ k.attempts < MaxTries /\ v = k.reviews /\ n = k.replans
            /\ Phase(r.from) = "failed" /\ Phase(r.to) = "waiting"
        BY <3>1, <2>3, <2>5, <2>6, RowPhases
      <4>2. Life!Retry(Abs(k), Abs(l))  BY <4>1, <3>0, <2>8, <2>9, <2>10, Used
      <4> QED  BY <4>2 DEF Life!Lived
    <3>2. CASE r.num \in {11, 12}
      <4>1. v = 1 /\ k.reviews = 0 /\ a = k.attempts /\ n = k.replans
            /\ Phase(r.from) = "review" /\ Phase(r.to) = "running"
        BY <3>2, <2>3, <2>5, <2>6, RowPhases
      <4>2. Life!Resume(Abs(k), Abs(l))  BY <4>1, <3>0, <2>8, <2>9, <2>10, Used
      <4> QED  BY <4>2 DEF Life!Lived
    <3>3. CASE r.num = 22
      <4>1. a = k.attempts /\ v = k.reviews /\ n = k.replans + 1 /\ k.replans < REPLAN_CAP
            /\ Phase(r.from) = "escalated" /\ Phase(r.to) = "waiting"
        BY <3>3, <2>3, <2>5, <2>6, RowPhases
      <4>2. Life!Replan(Abs(k), Abs(l))  BY <4>1, <3>0, <2>8, <2>9, <2>10, Used
      <4> QED  BY <4>2 DEF Life!Lived
    <3>4. CASE r.num \notin {9, 37, 11, 12, 22}
      <4>1. Abs(l) = [Abs(k) EXCEPT !.phase = Phase(r.to)]
        BY <3>4, <2>3, <2>5, <2>6, <2>8, <2>10
      <4>2. Moved(Abs(k).phase, Phase(r.to))  BY <3>4, <2>10, RowPhases
      <4> QED  BY <4>1, <4>2, <2>9, MovedLives
    <3> QED  BY <3>1, <3>2, <3>3, <3>4
  <2>12. l.attempts = k.attempts \/ (e.name = "retry_dispatch" /\ l.attempts = k.attempts + 1)
    BY <2>3, <2>7, RowCounts
  <2>13. l.reviews = k.reviews \/ (e.name \in Sent /\ l.reviews = 1)
    BY <2>6, <2>7, RowCounts
  <2>14. Follows(k, e, l)  BY <2>3, <2>7, <2>11, <2>12, <2>13 DEF Follows
  <2> QED  BY <2>14 DEF l
<1> QED  BY <1>1, <1>2, <1>3

\* apply_event() as a whole.
LEMMA AppliedFollows ==
  ASSUME NEW k \in Entries, NEW e \in Lines, Fits(k, e), k.attempts <= MaxTries
  PROVE  Follows(k, e, Applied(k, e))
<1> DEFINE r == CHOOSE r \in Row1(k, e) : TRUE
<1>1. CASE Absorbed(k, e) \/ Row1(k, e) = {}
  BY <1>1, DroppedFollows DEF Applied
<1>2. CASE ~Absorbed(k, e) /\ Row1(k, e) # {}
  <2>1. r \in Row1(k, e)  BY <1>2
  <2>2. r \in Table /\ r.from = k.state /\ r.on = e.name  BY <2>1 DEF Row1
  <2>3. Applied(k, e) \in {DeadLetter(k), Taken(k, r)}  BY <1>2 DEF Applied
  <2> HIDE DEF r
  <2> QED  BY <2>2, <2>3, DroppedFollows, TakenFollows
<1> QED  BY <1>1, <1>2

-----------------------------------------------------------------------------
(* What a step does to the log. *)

\* The lines of the new log with these names are lines of the old one, in their order.
Keeps(names) ==
  \E d \in {0, 1} :
    \A i \in DOMAIN log' : log'[i].name \in names => i + d \in DOMAIN log /\ log'[i] = log[i + d]

\* Reading a line takes the first one off.
LEMMA TailLines ==
  ASSUME log \in Seq(Lines), log # <<>>
  PROVE  /\ Tail(log) \in Seq(Lines) /\ Head(log) \in Lines
         /\ Head(log) = log[1] /\ 1 \in DOMAIN log
         /\ \A i \in DOMAIN Tail(log) : i + 1 \in DOMAIN log /\ i + 1 # 1 /\ Tail(log)[i] = log[i + 1]
<1>1. Len(log) \in Nat /\ Len(log) > 0 /\ DOMAIN log = 1..Len(log)  OBVIOUS
<1>2. DOMAIN Tail(log) = 1..(Len(log) - 1)  BY <1>1
<1>3. \A i \in 1..(Len(log) - 1) : Tail(log)[i] = log[i + 1]  BY <1>1
<1>4. Tail(log) \in Seq(Lines) /\ Head(log) \in Lines /\ Head(log) = log[1]  BY <1>1
<1> QED  BY <1>1, <1>2, <1>3, <1>4

\* Writing a line puts it at the end.
LEMMA WrittenLines ==
  ASSUME log \in Seq(Lines), NEW e \in Lines, Write(<<e>>)
  PROVE  /\ log' \in Seq(Lines)
         /\ DOMAIN log' = DOMAIN log \cup {Len(log) + 1} /\ Len(log) + 1 \notin DOMAIN log
         /\ \A i \in DOMAIN log : log'[i] = log[i]
         /\ log'[Len(log) + 1] = e
<1>1. log' = log \o <<e>>  BY DEF Write
<1>2. <<e>> \in Seq(Lines) /\ Len(<<e>>) = 1 /\ <<e>>[1] = e  OBVIOUS
<1>3. log' \in Seq(Lines) /\ Len(log') = Len(log) + 1  BY <1>1, <1>2, ConcatProperties
<1>4. \A i \in 1..(Len(log) + 1) : log'[i] = IF i <= Len(log) THEN log[i] ELSE e
  BY <1>1, <1>2, ConcatProperties
<1>5. DOMAIN log = 1..Len(log) /\ DOMAIN log' = 1..(Len(log) + 1) /\ Len(log) \in Nat
  BY <1>3
<1> QED  BY <1>3, <1>4, <1>5

\* What is read or left alone, and what is written under another name, is kept.
LEMMA KeptLines ==
  ASSUME log \in Seq(Lines), NEW names
  PROVE  /\ UNCHANGED log => Keeps(names)
         /\ log # <<>> /\ log' = Tail(log) => Keeps(names)
         /\ \A e \in Lines : e.name \notin names /\ Write(<<e>>) => Keeps(names)
<1>1. UNCHANGED log => Keeps(names)
  <2> HAVE UNCHANGED log
  <2>1. \A i \in DOMAIN log : i + 0 = i  OBVIOUS
  <2> QED  BY <2>1 DEF Keeps
<1>2. ASSUME log # <<>>, log' = Tail(log) PROVE Keeps(names)
  BY <1>2, TailLines DEF Keeps
<1>3. ASSUME NEW e \in Lines, e.name \notin names, Write(<<e>>) PROVE Keeps(names)
  <2>1. \A i \in DOMAIN log' : log'[i].name \in names => i \in DOMAIN log /\ log'[i] = log[i]
    BY <1>3, WrittenLines
  <2>2. \A i \in DOMAIN log : i + 0 = i  OBVIOUS
  <2> QED  BY <2>1, <2>2 DEF Keeps
<1> QED  BY <1>1, <1>2, <1>3

\* A line that was single stays single.
LEMMA SingleKept ==
  ASSUME NEW names, Single(names), Keeps(names), log' \in Seq(Lines)
  PROVE  Single(names)'
<1>1. PICK d \in {0, 1} : \A i \in DOMAIN log' : log'[i].name \in names =>
                            i + d \in DOMAIN log /\ log'[i] = log[i + d]
  BY DEF Keeps
<1> SUFFICES ASSUME NEW i \in DOMAIN log', NEW j \in DOMAIN log',
                    log'[i].name \in names, log'[j].name \in names, log'[i].p = log'[j].p
             PROVE  i = j
  BY DEF Single
<1>2. i \in Nat /\ j \in Nat  OBVIOUS
<1>3. i + d = j + d  BY <1>1 DEF Single
<1> QED  BY <1>2, <1>3

\* What follows the line that is read is not about the same packet.
LEMMA SingleRead ==
  ASSUME NEW names, Single(names), log \in Seq(Lines), log # <<>>, log' = Tail(log),
         Head(log).name \in names
  PROVE  \A i \in DOMAIN log' : log'[i].name \in names => log'[i].p # Head(log).p
BY TailLines DEF Single

\* A line for a packet that has none stays single.
LEMMA SingleWritten ==
  ASSUME NEW names, Single(names), log \in Seq(Lines), NEW e \in Lines, Write(<<e>>),
         \A i \in DOMAIN log : log[i].name \in names => log[i].p # e.p
  PROVE  Single(names)'
<1> SUFFICES ASSUME NEW i \in DOMAIN log', NEW j \in DOMAIN log',
                    log'[i].name \in names, log'[j].name \in names, log'[i].p = log'[j].p
             PROVE  i = j
  BY DEF Single
<1> QED  BY WrittenLines DEF Single

\* The gate's event is one of three.
LEMMA OutcomesAre == Outcomes \subseteq DutyOutcomes
<1> SUFFICES ASSUME NEW r \in Ruling PROVE gate_ruling(r, EnforceDuty) \in DutyOutcomes
  BY DEF Outcomes
<1>1. CASE r.class \in RulingClasses
  BY <1>1 DEF gate_ruling, DutyOutcomes, RulingClasses
<1>2. CASE r.class \notin RulingClasses
  <2>1. Reasons(r) # {}
    <3>1. CASE r.class = "none"  BY <3>1 DEF Reasons
    <3>2. CASE r.class # "none"
      <4>1. "ILLEGAL_CLASS" \in Reasons(r)  BY <1>2, <3>2 DEF Reasons
      <4> QED  BY <4>1
    <3> QED  BY <3>1, <3>2
  <2> QED  BY <2>1 DEF gate_ruling, Gate, DutyOutcomes
<1> QED  BY <1>1, <1>2

\* The watchdog's lines.
LEMMA TimeoutLines ==
  ASSUME mem \in [Packets -> Entries], NEW late \in SUBSET Packets,
         log' = SetToSeq({Event(p, "timeout", mem[p].attempts) : p \in late})
  PROVE  log' \in Seq(Lines) /\ \A i \in DOMAIN log' : log'[i].name = "timeout"
<1> DEFINE S == {Event(p, "timeout", mem[p].attempts) : p \in late}
<1>1. S \subseteq Lines /\ \A e \in S : e.name = "timeout"
  BY DEF Event, Lines, LineNames, Entries
<1>2. IsFiniteSet(S)
  <2> DEFINE f == [p \in late |-> Event(p, "timeout", mem[p].attempts)]
  <2>1. f \in Surjection(late, S)  BY DEF Surjection
  <2>2. IsFiniteSet(late)  BY LoopConstants, FS_Subset
  <2> QED  BY <2>1, <2>2, FS_Surjection
<1> HIDE DEF S
<1>3. Cardinality(S) \in Nat /\ ExistsBijection(1..Cardinality(S), S)
  BY <1>2, FS_CardinalityType
<1>4. \E f \in [1..Cardinality(S) -> S] : IsInjective(f)
  BY <1>3 DEF ExistsBijection, Bijection, Injection, IsInjective
<1>5. SetToSeq(S) \in [1..Cardinality(S) -> S]  BY <1>4 DEF SetToSeq
<1>6. log' = SetToSeq(S)  BY DEF S
<1>7. log' \in [1..Cardinality(S) -> Lines]  BY <1>1, <1>5, <1>6
<1>8. log' \in Seq(Lines)  BY <1>3, <1>7
<1> QED  BY <1>1, <1>5, <1>6, <1>8

-----------------------------------------------------------------------------
(* What the parts of the invariant rest on. *)

\* Every line is about a packet.
LEMMA LineTypes ==
  ASSUME log \in Seq(Lines), NEW i \in DOMAIN log
  PROVE  log[i] \in Lines /\ log[i].p \in Packets
<1>1. log[i] \in Lines  OBVIOUS
<1> QED  BY <1>1 DEF Lines

\* Nothing is counted or claimed, and no retry written.
LEMMA RetriesKept ==
  ASSUME RetriesSound, TypeOK, log' \in Seq(Lines), Keeps({"retry_dispatch"}), UNCHANGED claimed,
         \A p \in Packets : mem'[p].attempts = mem[p].attempts
                            /\ disk'[p].attempts <= mem[p].attempts,
         \A c \in Callers : call'[c] = call[c] \/ CallSound(c)'
  PROVE  RetriesSound'
<1>1. RetryOncePerAttempt'  BY DEF RetriesSound, RetryOncePerAttempt
<1>2. \A p \in Packets : Claimed(p)' = Claimed(p)  BY DEF Claimed
<1>3. ASSUME NEW p \in Packets
      PROVE  /\ disk'[p].attempts <= mem'[p].attempts /\ mem'[p].attempts <= MaxTries
             /\ 1..mem'[p].attempts \subseteq Claimed(p)'
  BY <1>2 DEF RetriesSound
<1>4. ASSUME NEW i \in DOMAIN log' PROVE RetryLineSound(i)'
  <2> SUFFICES ASSUME log'[i].name = "retry_dispatch" PROVE RetryLineSound(i)'
    BY DEF RetryLineSound
  <2>1. PICK j \in DOMAIN log : log'[i] = log[j]  BY DEF Keeps
  <2>2. log[j].p \in Packets  BY LineTypes DEF TypeOK
  <2>3. RetryLineSound(j)  BY DEF RetriesSound
  <2> QED  BY <2>1, <2>2, <2>3 DEF RetryLineSound, Claimed
<1>5. Single({"retry_dispatch"})'  BY SingleKept DEF RetriesSound
<1>6. ASSUME NEW c \in Callers PROVE CallSound(c)'
  <2>1. CASE call'[c] = call[c]
    <3>1. CallSound(c)  BY DEF RetriesSound
    <3>2. call[c].at # "idle" => call[c].p \in Packets  BY DEF TypeOK, CallOK
    <3> QED  BY <2>1, <3>1, <3>2 DEF CallSound
  <2> QED  BY <2>1
<1> QED  BY <1>1, <1>3, <1>4, <1>5, <1>6 DEF RetriesSound

\* Nobody rules, and no packet is sent back.
LEMMA RulingsKept ==
  ASSUME RulingsSound, TypeOK, log' \in Seq(Lines), Keeps(Sent), UNCHANGED ruled,
         \A p \in Packets : mem'[p].reviews = mem[p].reviews
  PROVE  RulingsSound'
<1>1. ASSUME NEW i \in DOMAIN log', log'[i].name \in Sent
      PROVE  ruled'[log'[i].p] = 1 /\ mem'[log'[i].p].reviews = 0
  <2>1. PICK j \in DOMAIN log : log'[i] = log[j]  BY <1>1 DEF Keeps
  <2>2. log[j].p \in Packets  BY LineTypes DEF TypeOK
  <2> QED  BY <1>1, <2>1, <2>2 DEF RulingsSound
<1>2. Single(Sent)'  BY SingleKept DEF RulingsSound
<1> QED  BY <1>1, <1>2 DEF RulingsSound

\* Nobody answers, and the epilogue stays where it is.
LEMMA AnswersKept ==
  ASSUME AnswersSound, log' \in Seq(Lines), Keeps(Answers),
         UNCHANGED <<stepper, epilogue, todo, call, manual>>
  PROVE  AnswersSound'
<1>1. stepper' = stepper /\ epilogue' = epilogue /\ todo' = todo /\ call' = call
      /\ manual' = manual
  OBVIOUS
<1>2. manual = 0 => Single(Answers)'  BY SingleKept DEF AnswersSound
<1>3. ASSUME NEW i \in DOMAIN log', log'[i].name \in Answers
      PROVE  \E j \in DOMAIN log : log'[i] = log[j]
  BY <1>3 DEF Keeps
<1> QED  BY <1>1, <1>2, <1>3 DEF AnswersSound

-----------------------------------------------------------------------------
(* The state machine's step. *)

\* Every packet lives on as PacketLife lets it.
LifeStep ==
  \A p \in Packets : Abs(mem'[p]) = Abs(mem[p]) \/ Life!Lived(Abs(mem[p]), Abs(mem'[p]))

\* The line that is read may be applied.
LEMMA HeadFits == ASSUME Inv, log # <<>> PROVE Fits(mem[Head(log).p], Head(log))
<1>1. Head(log) = log[1] /\ 1 \in DOMAIN log  BY TailLines DEF Inv, TypeOK
<1>2. RetryLineSound(1) /\ (log[1].name \in Sent => mem[log[1].p].reviews = 0)
  BY <1>1 DEF Inv, RetriesSound, RulingsSound
<1> QED  BY <1>1, <1>2 DEF Fits, RetryLineSound

\* A line is applied, or left alone.
LEMMA ApplyEventKeeps == ASSUME Inv, ApplyEvent PROVE Inv' /\ LifeStep
<1> DEFINE e == Head(log)
           q == Head(log).p
<1>1. log \in Seq(Lines) /\ log # <<>> /\ log' = Tail(log) /\ mem \in [Packets -> Entries]
      /\ UNCHANGED <<disk, stepper, files, work, deciders, faults>>
  BY DEF Inv, TypeOK, ApplyEvent
<1>2. e \in Lines /\ q \in Packets /\ log' \in Seq(Lines) /\ e = log[1] /\ 1 \in DOMAIN log
  BY <1>1, TailLines DEF Lines
<1>3. PICK l : mem' = [mem EXCEPT ![q] = l] /\ Follows(mem[q], e, l)
  <2>1. mem[q] \in Entries /\ mem[q].attempts <= MaxTries  BY <1>1, <1>2 DEF Inv, RetriesSound
  <2>2. Follows(mem[q], e, Applied(mem[q], e))
    BY <1>1, <1>2, <2>1, HeadFits, AppliedFollows
  <2>3. Follows(mem[q], e, mem[q])  BY <1>2, <2>1, DroppedFollows
  <2>4. CASE mem' = [mem EXCEPT ![q] = Applied(mem[q], e)]  BY <2>4, <2>2
  <2>5. CASE UNCHANGED mem
    <3>1. mem' = [mem EXCEPT ![q] = mem[q]]  BY <1>1, <2>5
    <3> QED  BY <3>1, <2>3
  <2> QED  BY <2>4, <2>5 DEF ApplyEvent
<1>4. mem' \in [Packets -> Entries] /\ \A p \in Packets : mem'[p] = IF p = q THEN l ELSE mem[p]
  BY <1>1, <1>2, <1>3 DEF Follows
<1>5. \A i \in DOMAIN log' : i + 1 \in DOMAIN log /\ log'[i] = log[i + 1]  BY <1>1, TailLines
<1>6. \A names : Keeps(names)  BY <1>1, KeptLines
<1> HIDE DEF e, q
<1>7. TypeOK'
  BY <1>1, <1>2, <1>4 DEF Inv, TypeOK, files, work, deciders
<1>8. AnswersSound'
  BY <1>1, <1>2, <1>6, AnswersKept DEF Inv, deciders
<1>9. RetriesSound'
  <2>1. RetryOncePerAttempt' /\ \A p \in Packets : Claimed(p)' = Claimed(p)
    BY <1>1 DEF Inv, RetriesSound, RetryOncePerAttempt, Claimed, files
  <2>2. RetryLineSound(1)  BY <1>2 DEF Inv, RetriesSound
  <2>3. l.attempts = mem[q].attempts
        \/ (e.name = "retry_dispatch" /\ l.attempts = mem[q].attempts + 1
            /\ l.attempts \in Claimed(q))
    BY <1>2, <1>3, <2>2 DEF Follows, RetryLineSound, e, q
  <2>4. ASSUME NEW p \in Packets
        PROVE  /\ mem[p].attempts \in Nat /\ mem'[p].attempts \in Nat
               /\ mem[p].attempts <= mem'[p].attempts
    <3>1. mem[p] \in Entries /\ mem'[p] \in Entries  BY <1>1, <1>4
    <3>2. mem[p].attempts \in Nat /\ mem'[p].attempts \in Nat  BY <3>1 DEF Entries
    <3>3. mem'[p].attempts = mem[p].attempts \/ mem'[p].attempts = mem[p].attempts + 1
      BY <1>4, <2>3
    <3> QED  BY <3>2, <3>3
  <2>5. ASSUME NEW p \in Packets
        PROVE  /\ disk'[p].attempts <= mem'[p].attempts /\ mem'[p].attempts <= MaxTries
               /\ 1..mem'[p].attempts \subseteq Claimed(p)'
    <3>1. disk[p].attempts <= mem[p].attempts /\ mem[p].attempts <= MaxTries
          /\ 1..mem[p].attempts \subseteq Claimed(p)
      BY DEF Inv, RetriesSound
    <3>2. disk'[p].attempts = disk[p].attempts /\ disk[p].attempts \in Nat
      BY <1>1 DEF Inv, TypeOK, Entries
    <3>3. disk'[p].attempts <= mem'[p].attempts  BY <2>4, <3>1, <3>2
    <3>4. mem'[p].attempts <= MaxTries  BY <1>3, <1>4, <3>1 DEF Follows
    <3>5. mem'[p].attempts = mem[p].attempts
          \/ (mem'[p].attempts = mem[p].attempts + 1 /\ mem'[p].attempts \in Claimed(p))
      BY <1>4, <2>3
    <3>6. 1..mem'[p].attempts \subseteq Claimed(p)  BY <2>4, <3>1, <3>5
    <3> QED  BY <2>1, <3>3, <3>4, <3>6
  <2>6. ASSUME NEW i \in DOMAIN log' PROVE RetryLineSound(i)'
    <3> SUFFICES ASSUME log'[i].name = "retry_dispatch" PROVE RetryLineSound(i)'
      BY DEF RetryLineSound
    <3>1. i + 1 \in DOMAIN log /\ log'[i] = log[i + 1] /\ log'[i].p \in Packets
      BY <1>1, <1>2, <1>5, LineTypes
    <3>2. RetryLineSound(i + 1)  BY <3>1 DEF Inv, RetriesSound
    <3>3. mem'[log'[i].p].attempts = mem[log'[i].p].attempts
      <4>1. CASE log'[i].p = q
        <5>1. e.name # "retry_dispatch"
          BY <1>1, <1>2, <4>1, SingleRead DEF Inv, RetriesSound, e, q
        <5> QED  BY <1>4, <2>3, <3>1, <4>1, <5>1
      <4>2. CASE log'[i].p # q  BY <1>4, <3>1, <4>2
      <4> QED  BY <4>1, <4>2
    <3>4. UNCHANGED claimed  BY <1>1 DEF files
    <3> QED  BY <3>1, <3>2, <3>3, <3>4 DEF RetryLineSound, Claimed
  <2>7. Single({"retry_dispatch"})'  BY <1>2, <1>6, SingleKept DEF Inv, RetriesSound
  <2>8. ASSUME NEW c \in Callers PROVE CallSound(c)'
    <3>1. CallSound(c) /\ CallOK(call[c])  BY DEF Inv, TypeOK, RetriesSound
    <3>2. call' = call  BY <1>1 DEF deciders
    <3> QED  BY <2>4, <3>1, <3>2 DEF CallSound, CallOK
  <2> QED  BY <2>1, <2>5, <2>6, <2>7, <2>8 DEF RetriesSound
<1>10. RulingsSound'
  <2>1. ruled' = ruled /\ ruled \in [Packets -> {0, 1}]  BY <1>1 DEF Inv, TypeOK, files
  <2>2. l.reviews = mem[q].reviews \/ (e.name \in Sent /\ l.reviews = 1 /\ ruled[q] = 1)
    BY <1>2, <1>3 DEF Inv, RulingsSound, Follows, e, q
  <2>3. ASSUME NEW p \in Packets PROVE mem'[p].reviews <= ruled'[p]
    BY <1>4, <2>1, <2>2 DEF Inv, RulingsSound
  <2>4. ASSUME NEW i \in DOMAIN log', log'[i].name \in Sent
        PROVE  ruled'[log'[i].p] = 1 /\ mem'[log'[i].p].reviews = 0
    <3>1. i + 1 \in DOMAIN log /\ log'[i] = log[i + 1] /\ log'[i].p \in Packets
      BY <1>1, <1>2, <1>5, LineTypes
    <3>2. ruled[log'[i].p] = 1 /\ mem[log'[i].p].reviews = 0
      BY <2>4, <3>1 DEF Inv, RulingsSound
    <3>3. mem'[log'[i].p].reviews = mem[log'[i].p].reviews
      <4>1. CASE log'[i].p = q
        <5>1. e.name \notin Sent
          BY <1>1, <1>2, <2>4, <4>1, SingleRead DEF Inv, RulingsSound, e, q
        <5> QED  BY <1>4, <2>2, <3>1, <4>1, <5>1
      <4>2. CASE log'[i].p # q  BY <1>4, <3>1, <4>2
      <4> QED  BY <4>1, <4>2
    <3> QED  BY <2>1, <3>2, <3>3
  <2>5. Single(Sent)'  BY <1>2, <1>6, SingleKept DEF Inv, RulingsSound
  <2> QED  BY <2>3, <2>4, <2>5 DEF RulingsSound
<1>11. LifeStep  BY <1>3, <1>4 DEF LifeStep, Follows
<1> QED  BY <1>7, <1>8, <1>9, <1>10, <1>11 DEF Inv

\* The watchdog and the reconciler move what runs, and the ledger is written.
LEMMA StepEndsKeeps == ASSUME Inv, StepEnds PROVE Inv' /\ LifeStep
<1>1. PICK late \in SUBSET {p \in Packets : Overdue(p)} :
        /\ mem' = [p \in Packets |->
                     IF p \in late THEN [mem[p] EXCEPT !.state = "TIMED_OUT"]
                     ELSE IF mem[p].state = "RUNNING" /\ report_is_current(p)
                     THEN [mem[p] EXCEPT !.state = "REPORTED"]
                     ELSE mem[p]]
        /\ log' = SetToSeq({Event(p, "timeout", mem[p].attempts) : p \in late})
        /\ faults' = faults + Cardinality({p \in late : mem[p].attempts \in children[p]})
        /\ faults' <= MaxFaults
  BY DEF StepEnds
<1>2. /\ stepper # "nobody" /\ log = <<>> /\ disk' = mem' /\ stepper' = "nobody"
      /\ UNCHANGED <<files, children, report, call, asked, manual>>
      /\ IF stepper = "epilogue"
         THEN /\ epilogue' = IF epilogue = "steps" THEN "routes" ELSE "idle"
              /\ todo' = IF epilogue = "steps"
                         THEN {p \in Packets : mem'[p].state \in {"FAILED", "TIMED_OUT"}} ELSE {}
         ELSE UNCHANGED <<epilogue, todo>>
  BY DEF StepEnds
<1>3. mem \in [Packets -> Entries] /\ late \subseteq Packets  BY DEF Inv, TypeOK
<1>4. log' \in Seq(Lines) /\ \A i \in DOMAIN log' : log'[i].name = "timeout"
  BY <1>1, <1>3, TimeoutLines
<1>5. ASSUME NEW p \in Packets
      PROVE  /\ mem'[p] \in Entries /\ mem'[p].attempts = mem[p].attempts
             /\ mem'[p].reviews = mem[p].reviews
             /\ Abs(mem'[p]) = Abs(mem[p]) \/ Life!Lived(Abs(mem[p]), Abs(mem'[p]))
  <2>1. mem[p] \in Entries /\ mem[p].attempts <= MaxTries  BY <1>3 DEF Inv, RetriesSound
  <2>2. ASSUME NEW to \in {"TIMED_OUT", "REPORTED"}, mem[p].state = "RUNNING",
               mem'[p] = [mem[p] EXCEPT !.state = to]
        PROVE  /\ mem'[p] \in Entries /\ mem'[p].attempts = mem[p].attempts
               /\ mem'[p].reviews = mem[p].reviews
               /\ Life!Lived(Abs(mem[p]), Abs(mem'[p]))
    <3> DEFINE k == mem[p]
               l == [k EXCEPT !.state = to]
    <3>1. l \in Entries /\ l.attempts = k.attempts /\ l.reviews = k.reviews
          /\ l.replans = k.replans /\ l.state = to
      BY <2>1 DEF Entries, STATES
    <3>2. Phase(k.state) = "running" /\ Phase(to) \in {"failed", "reported"}
      BY <2>2 DEF Phase
    <3> HIDE DEF k, l
    <3>3. Abs(l) = [Abs(k) EXCEPT !.phase = Phase(to)]  BY <3>1 DEF Abs
    <3>4. Abs(k).phase = "running"  BY <3>2 DEF Abs
    <3>5. Moved(Abs(k).phase, Phase(to)) /\ Phase(to) # Abs(k).phase  BY <3>2, <3>4 DEF Moved
    <3>6. Abs(k) \in Life!Lives /\ Phase(to) \in Life!Phases
      BY <2>1, <3>2, AbsTypes DEF k, Life!Phases
    <3>7. Abs(l).phase = Phase(to)  BY <3>1 DEF Abs
    <3>8. Life!Lived(Abs(k), Abs(l))  BY <3>3, <3>4, <3>5, <3>6, <3>7, MovedLives
    <3> QED  BY <2>2, <3>1, <3>8 DEF k, l
  <2>3. CASE p \in late
    <3>1. mem[p].state = "RUNNING"  BY <2>3 DEF Overdue
    <3>2. mem'[p] = [mem[p] EXCEPT !.state = "TIMED_OUT"]  BY <1>1, <2>3
    <3> QED  BY <2>2, <3>1, <3>2
  <2>4. CASE p \notin late /\ mem[p].state = "RUNNING" /\ report_is_current(p)
    <3>1. mem'[p] = [mem[p] EXCEPT !.state = "REPORTED"]  BY <1>1, <2>4
    <3> QED  BY <2>2, <2>4, <3>1
  <2>5. CASE p \notin late /\ ~(mem[p].state = "RUNNING" /\ report_is_current(p))
    <3>1. mem'[p] = mem[p]  BY <1>1, <2>5
    <3> QED  BY <2>1, <3>1
  <2> QED  BY <2>3, <2>4, <2>5
<1>6. mem' \in [Packets -> Entries]
  <2>1. DOMAIN mem' = Packets /\ mem' = [p \in Packets |-> mem'[p]]  BY <1>1
  <2> QED  BY <1>5, <2>1
<1>7. faults' \in 0..MaxFaults
  <2> DEFINE stalled == {p \in late : mem[p].attempts \in children[p]}
  <2>1. IsFiniteSet(stalled)  BY <1>3, LoopConstants, FS_Subset
  <2>2. Cardinality(stalled) \in Nat  BY <2>1, FS_CardinalityType
  <2> HIDE DEF stalled
  <2> QED  BY <1>1, <2>2, LoopConstants DEF stalled, Inv, TypeOK
<1>8. TypeOK'
  <2>1. todo' \subseteq Packets /\ epilogue' \in {"idle", "steps", "routes", "again"}
    BY <1>2 DEF Inv, TypeOK
  <2> QED  BY <1>2, <1>4, <1>6, <1>7, <2>1 DEF Inv, TypeOK, files
<1>9. \A names : "timeout" \notin names => Keeps(names)
  BY <1>4 DEF Keeps
<1>10. RetriesSound'
  <2>1. \A p \in Packets : mem'[p].attempts = mem[p].attempts
                            /\ disk'[p].attempts <= mem[p].attempts
    BY <1>2, <1>3, <1>5 DEF Entries
  <2> QED  BY <1>2, <1>4, <1>9, <2>1, RetriesKept DEF Inv, files
<1>11. RulingsSound'
  BY <1>2, <1>4, <1>5, <1>9, RulingsKept DEF Inv, files, Sent
<1>12. AnswersSound'
  <2>1. \A i \in DOMAIN log' : log'[i].name \notin Answers  BY <1>4 DEF Answers
  <2>2. Single(Answers)'  BY <2>1 DEF Single
  <2>3. call' = call /\ manual' = manual  BY <1>2
  <2>4. stepper = "epilogue" <=> epilogue \in {"steps", "again"}  BY DEF Inv, AnswersSound
  <2>5. manual = 0 /\ epilogue # "routes" => call["epilogue"] = NoCall  BY DEF Inv, AnswersSound
  <2>6. NoCall.at = "idle"  BY DEF NoCall
  <2>7. CASE stepper = "epilogue"
    BY <1>2, <2>1, <2>2, <2>3, <2>4, <2>5, <2>6, <2>7 DEF Inv, AnswersSound
  <2>8. CASE stepper # "epilogue"
    BY <1>2, <2>1, <2>2, <2>3, <2>4, <2>8 DEF Inv, AnswersSound
  <2> QED  BY <2>7, <2>8
<1> QED  BY <1>5, <1>8, <1>10, <1>11, <1>12 DEF Inv, LifeStep

-----------------------------------------------------------------------------
(* The world around the machine. *)

\* A step that answers nothing, rules nothing and leaves the deciders alone.
LEMMA QuietKeeps ==
  ASSUME Inv, TypeOK', UNCHANGED <<disk, mem, stepper, claimed, ruled, call, epilogue, todo, manual>>,
         UNCHANGED log \/ \E e \in Lines : e.name \notin Answers \cup Sent /\ Write(<<e>>)
  PROVE  Inv' /\ LifeStep
<1>1. log \in Seq(Lines) /\ log' \in Seq(Lines)  BY DEF Inv, TypeOK
<1>2. Keeps({"retry_dispatch"}) /\ Keeps(Sent) /\ Keeps(Answers)
  BY <1>1, KeptLines DEF Answers
<1>3. \A p \in Packets : disk'[p].attempts <= mem[p].attempts /\ mem'[p] = mem[p]
  BY DEF Inv, RetriesSound
<1>4. RetriesSound'  BY <1>1, <1>2, <1>3, RetriesKept DEF Inv
<1>5. RulingsSound'  BY <1>1, <1>2, <1>3, RulingsKept DEF Inv
<1>6. AnswersSound'  BY <1>1, <1>2, AnswersKept DEF Inv
<1> QED  BY <1>3, <1>4, <1>5, <1>6 DEF Inv, LifeStep

\* A line about a packet, as the writers around the machine leave it.
LEMMA EventTypes ==
  ASSUME NEW p \in Packets, NEW name \in LineNames, NEW att \in Nat \cup {NoAttempt}
  PROVE  Event(p, name, att) \in Lines /\ Event(p, name, att).p = p
         /\ Event(p, name, att).name = name /\ Event(p, name, att).att = att
BY DEF Event, Lines

Quiet == \E e \in Lines : e.name \notin Answers \cup Sent /\ Write(<<e>>)

\* A line that neither answers nor sends back.
LEMMA QuietLine ==
  ASSUME NEW p \in Packets, NEW name \in LineNames, NEW att \in Nat \cup {NoAttempt},
         name \notin Answers \cup Sent, Write(<<Event(p, name, att)>>)
  PROVE  Quiet
<1>1. Event(p, name, att) \in Lines /\ Event(p, name, att).name = name  BY EventTypes
<1> DEFINE e == Event(p, name, att)
<1>2. e \in Lines /\ e.name \notin Answers \cup Sent /\ Write(<<e>>)  BY <1>1
<1> QED  BY <1>2 DEF Quiet

LEMMA LaunchKeeps == ASSUME Inv, NEW p \in Packets, Launch(p) PROVE Inv' /\ LifeStep
<1>1. UNCHANGED <<disk, mem, stepper, files, deciders, faults>> /\ report' \subseteq report
      /\ children' = [children EXCEPT ![p] = @ \cup {disk[p].attempts}]
  BY DEF Launch, Others, ledger
<1>2. disk[p].attempts \in Nat  BY DEF Inv, TypeOK, Entries
<1> DEFINE e == Event(p, "dispatched", disk[p].attempts)
<1>3. e \in Lines /\ e.name \notin Answers \cup Sent /\ Write(<<e>>)
  BY <1>2, EventTypes DEF Launch, LineNames, Answers, Sent
<1>4. log' \in Seq(Lines)  BY <1>3, WrittenLines DEF Inv, TypeOK
<1>5. TypeOK'  BY <1>1, <1>2, <1>4 DEF Inv, TypeOK, files, deciders
<1> HIDE DEF e
<1> QED  BY <1>1, <1>3, <1>5, QuietKeeps DEF files, deciders

LEMMA ChildEndsKeeps == ASSUME Inv, NEW p \in Packets, ChildEnds(p) PROVE Inv' /\ LifeStep
<1>1. PICK n \in children[p] :
        /\ children' = [children EXCEPT ![p] = @ \ {n}]
        /\ \/ /\ report' = report \cup {p} /\ UNCHANGED faults
              /\ Write(<<Event(p, "subagent_stop", n)>>)
           \/ /\ Write(<<Event(p, "exec_failed", n)>>) /\ UNCHANGED <<report, faults>>
           \/ /\ faults < MaxFaults /\ faults' = faults + 1
              /\ report' \in {report, report \cup {p}} /\ UNCHANGED log
        /\ Others
  BY DEF ChildEnds
<1>2. n \in Nat  BY DEF Inv, TypeOK
<1>3. UNCHANGED <<disk, mem, stepper, files, deciders>>  BY <1>1 DEF Others, ledger
<1>4. UNCHANGED log \/ Quiet
  <2>1. {"subagent_stop", "exec_failed"} \subseteq LineNames \ (Answers \cup Sent)
    BY DEF LineNames, Answers, Sent
  <2> QED  BY <1>1, <1>2, <2>1, QuietLine
<1>5. log' \in Seq(Lines)  BY <1>4, WrittenLines DEF Inv, TypeOK, Quiet
<1>6. report' \subseteq Packets /\ faults' \in 0..MaxFaults
  BY <1>1, LoopConstants DEF Inv, TypeOK
<1>7. TypeOK'  BY <1>1, <1>3, <1>5, <1>6 DEF Inv, TypeOK, files, deciders
<1> QED  BY <1>3, <1>4, <1>7, QuietKeeps DEF files, deciders, Quiet

LEMMA JudgeKeeps == ASSUME Inv, NEW p \in Packets, Judge(p) PROVE Inv' /\ LifeStep
<1>1. UNCHANGED <<disk, mem, stepper, files, deciders, work, faults>>
  BY DEF Judge, Others, ledger
<1>2. Quiet
  <2>1. PICK v \in Verdicts : Write(<<Event(p, v, NoAttempt)>>)  BY DEF Judge
  <2>2. v \in LineNames /\ v \notin Answers \cup Sent  BY DEF Verdicts, LineNames, Answers, Sent
  <2> QED  BY <2>1, <2>2, QuietLine
<1>3. log' \in Seq(Lines)  BY <1>2, WrittenLines DEF Inv, TypeOK, Quiet
<1>4. TypeOK'  BY <1>1, <1>3 DEF Inv, TypeOK, files, deciders, work
<1> QED  BY <1>1, <1>2, <1>4, QuietKeeps DEF files, deciders, Quiet

LEMMA HumanKeeps == ASSUME Inv, NEW p \in Packets, Human(p) PROVE Inv' /\ LifeStep
<1>1. UNCHANGED <<disk, mem, stepper, files, deciders, work, faults>>
  BY DEF Human, Others, ledger
<1>2. Quiet
  <2>1. PICK r \in Table : r.on \in {"dead_letter_summary", "sol_replan", "dag_assert_pass"}
                           /\ Write(<<Event(p, r.on, NoAttempt)>>)
    BY DEF Human
  <2>2. r.on \in LineNames /\ r.on \notin Answers \cup Sent
    BY <2>1 DEF LineNames, Answers, Sent
  <2> QED  BY <2>1, <2>2, QuietLine
<1>3. log' \in Seq(Lines)  BY <1>2, WrittenLines DEF Inv, TypeOK, Quiet
<1>4. TypeOK'  BY <1>1, <1>3 DEF Inv, TypeOK, files, deciders, work
<1> QED  BY <1>1, <1>2, <1>4, QuietKeeps DEF files, deciders, Quiet

-----------------------------------------------------------------------------
(* The duty officer. *)

LEMMA AsksKeeps == ASSUME Inv, NEW d \in Drivers, Asks(d) PROVE Inv' /\ LifeStep
<1>1. UNCHANGED <<disk, mem, stepper, log, files, work, call, epilogue, todo, manual, faults>>
  BY DEF Asks, ledger
<1>2. asked' \in [Drivers -> Packets \cup {NoPacket}]  BY DEF Asks, Inv, TypeOK
<1>3. TypeOK'  BY <1>1, <1>2 DEF Inv, TypeOK, files, work
<1> QED  BY <1>1, <1>3, QuietKeeps DEF files

\* A ruling is the packet's first, so nothing has sent it back before.
LEMMA RulesKeeps == ASSUME Inv, NEW d \in Drivers, Rules(d) PROVE Inv' /\ LifeStep
<1> DEFINE p == asked[d]
<1>1. UNCHANGED <<disk, mem, stepper, claimed, lastClass, tickets, work, call, epilogue, todo,
                  manual, faults>>
      /\ asked' = [asked EXCEPT ![d] = NoPacket]
  BY DEF Rules, ledger
<1>2. p \in Packets  BY DEF Rules, Inv, TypeOK
<1>3. asked' \in [Drivers -> Packets \cup {NoPacket}]  BY <1>1 DEF Inv, TypeOK
<1>4. CASE UNCHANGED <<log, ruled>>
  <2>1. TypeOK'  BY <1>1, <1>3, <1>4 DEF Inv, TypeOK, work
  <2> QED  BY <1>1, <1>4, <2>1, QuietKeeps
<1>5. CASE ~Raced(p) /\ ruled' = [ruled EXCEPT ![p] = @ + 1]
           /\ \E o \in Outcomes : Write(<<Event(p, o, NoAttempt)>>)
  <2>1. PICK o \in Outcomes : Write(<<Event(p, o, NoAttempt)>>)  BY <1>5
  <2> DEFINE e == Event(p, o, NoAttempt)
  <2>2. o \in DutyOutcomes  BY OutcomesAre
  <2>3. e \in Lines /\ e.p = p /\ e.name = o /\ e.name \notin Answers /\ Write(<<e>>)
    BY <1>2, <2>1, <2>2, EventTypes DEF DutyOutcomes, LineNames, Answers
  <2> HIDE DEF e, p
  <2>4. log \in Seq(Lines) /\ log' \in Seq(Lines)  BY <2>3, WrittenLines DEF Inv, TypeOK
  <2>5. ruled \in [Packets -> {0, 1}] /\ ruled[p] = 0  BY <1>2, <1>5 DEF Inv, TypeOK, Raced
  <2>6. ruled' \in [Packets -> {0, 1}]
        /\ \A q \in Packets : ruled'[q] = IF q = p THEN 1 ELSE ruled[q]
    BY <1>2, <1>5, <2>5
  <2>7. TypeOK'  BY <1>1, <1>3, <2>4, <2>6 DEF Inv, TypeOK, work
  <2>8. \A q \in Packets : disk'[q].attempts <= mem[q].attempts /\ mem'[q] = mem[q]
    BY <1>1 DEF Inv, RetriesSound
  <2>9. Keeps({"retry_dispatch"}) /\ Keeps(Answers)  BY <2>3, <2>4, KeptLines DEF Answers
  <2>10. RetriesSound'  BY <1>1, <2>4, <2>8, <2>9, RetriesKept DEF Inv
  <2>11. AnswersSound'  BY <1>1, <2>4, <2>9, AnswersKept DEF Inv
  <2>12. \A i \in DOMAIN log : log[i].name \in Sent => log[i].p # p
    BY <2>5 DEF Inv, RulingsSound
  <2>13. mem[p].reviews = 0
    <3>1. mem[p].reviews \in {0, 1} /\ mem[p].reviews <= 0
      BY <1>2, <2>5 DEF Inv, TypeOK, Entries, RulingsSound
    <3> QED  BY <3>1
  <2>14. RulingsSound'
    <3>1. ASSUME NEW q \in Packets PROVE mem'[q].reviews <= ruled'[q]
      BY <2>6, <2>8, <2>13 DEF Inv, RulingsSound
    <3>2. ASSUME NEW i \in DOMAIN log', log'[i].name \in Sent
          PROVE  ruled'[log'[i].p] = 1 /\ mem'[log'[i].p].reviews = 0
      <4>1. CASE i \in DOMAIN log
        <5>1. log'[i] = log[i] /\ log[i].p \in Packets  BY <2>3, <2>4, <4>1, WrittenLines, LineTypes
        <5> QED  BY <2>6, <2>8, <3>2, <4>1, <5>1 DEF Inv, RulingsSound
      <4>2. CASE i \notin DOMAIN log
        <5>1. log'[i] = e  BY <2>3, <2>4, <4>2, WrittenLines
        <5> QED  BY <1>2, <2>3, <2>6, <2>8, <2>13, <5>1
      <4> QED  BY <4>1, <4>2
    <3>3. Single(Sent)'  BY <2>3, <2>4, <2>12, SingleWritten DEF Inv, RulingsSound
    <3> QED  BY <3>1, <3>2, <3>3 DEF RulingsSound
  <2> QED  BY <2>7, <2>8, <2>10, <2>11, <2>14 DEF Inv, LifeStep
<1> QED  BY <1>4, <1>5 DEF Rules

-----------------------------------------------------------------------------
(* retry.py. *)

\* One caller gets on with its run.
LEMMA CallMoves ==
  ASSUME TypeOK, NEW c \in Callers, NEW r, call' = [call EXCEPT ![c] = r]
  PROVE  /\ call' = [d \in Callers |-> call'[d]]
         /\ \A d \in Callers : call'[d] = IF d = c THEN r ELSE call[d]
<1>1. call = [d \in Callers |-> call[d]]  BY DEF TypeOK
<1>2. call' = [d \in Callers |-> IF d = c THEN r ELSE call[d]]  BY <1>1
<1> QED  BY <1>2

\* A run that only gets on, for the same packet.
LEMMA AnswersRun ==
  ASSUME Inv, NEW c \in Callers, NEW r, call' = [call EXCEPT ![c] = r], call[c].at # "idle",
         r.p = call[c].p, UNCHANGED <<stepper, epilogue, todo, manual, log>>
  PROVE  AnswersSound'
<1>1. \A d \in Callers : call'[d] = IF d = c THEN r ELSE call[d]  BY CallMoves DEF Inv
<1>2. stepper' = stepper /\ epilogue' = epilogue /\ todo' = todo /\ manual' = manual
      /\ log' = log
  OBVIOUS
<1>3. NoCall.at = "idle"  BY DEF NoCall
<1>4. manual = 0 => c = "epilogue" /\ epilogue = "routes"
  BY <1>3 DEF Inv, AnswersSound, Callers
<1>5. Single(Answers)' <=> Single(Answers)  BY <1>2 DEF Single
<1>6. ASSUME manual = 0
      PROVE  /\ call'["operator"] = call["operator"] /\ call'["epilogue"].p = call["epilogue"].p
             /\ call["epilogue"].at # "idle"
  BY <1>1, <1>4, <1>6 DEF Callers
<1> QED  BY <1>2, <1>4, <1>5, <1>6 DEF Inv, AnswersSound

\* The end of a run: one answer for its packet, or none.
LEMMA AnswersEnd ==
  ASSUME Inv, NEW c \in Callers, call' = [call EXCEPT ![c] = NoCall], call[c].at # "idle",
         UNCHANGED <<stepper, epilogue, todo, manual>>,
         UNCHANGED log \/ \E e \in Lines : e.p = call[c].p /\ Write(<<e>>)
  PROVE  AnswersSound'
<1>1. \A d \in Callers : call'[d] = IF d = c THEN NoCall ELSE call[d]  BY CallMoves DEF Inv
<1>2. stepper' = stepper /\ epilogue' = epilogue /\ todo' = todo /\ manual' = manual
  OBVIOUS
<1>3. NoCall.at = "idle"  BY DEF NoCall
<1>4. stepper' = "epilogue" <=> epilogue' \in {"steps", "again"}
  BY <1>2 DEF Inv, AnswersSound
<1>5. ASSUME manual = 0
      PROVE  /\ c = "epilogue" /\ epilogue = "routes" /\ call[c].p \notin todo
             /\ \A i \in DOMAIN log : log[i].name \in Answers =>
                  log[i].p \notin todo /\ log[i].p # call[c].p
             /\ Single(Answers) /\ call["operator"] = NoCall
  <2>1. c = "epilogue" /\ epilogue = "routes"  BY <1>3, <1>5 DEF Inv, AnswersSound, Callers
  <2> QED  BY <1>5, <2>1 DEF Inv, AnswersSound
<1>6. ASSUME manual = 0
      PROVE  Single(Answers)' /\ \A i \in DOMAIN log' : log'[i].name \in Answers => log'[i].p \notin todo
  <2>1. CASE UNCHANGED log
    BY <1>5, <1>6, <2>1 DEF Single
  <2>2. CASE \E e \in Lines : e.p = call[c].p /\ Write(<<e>>)
    <3>1. PICK e \in Lines : e.p = call[c].p /\ Write(<<e>>)  BY <2>2
    <3>2. log \in Seq(Lines)  BY DEF Inv, TypeOK
    <3>3. Single(Answers)'  BY <1>5, <1>6, <3>1, <3>2, SingleWritten
    <3>4. ASSUME NEW i \in DOMAIN log', log'[i].name \in Answers PROVE log'[i].p \notin todo
      BY <1>5, <1>6, <3>1, <3>2, <3>4, WrittenLines
    <3> QED  BY <3>3, <3>4
  <2> QED  BY <2>1, <2>2
<1>7. manual = 0 => call'["operator"] = NoCall /\ call'["epilogue"] = NoCall
  BY <1>1, <1>5 DEF Callers
<1> QED  BY <1>2, <1>3, <1>4, <1>5, <1>6, <1>7 DEF AnswersSound

\* A caller's step that claims nothing.
LEMMA RunKeeps ==
  ASSUME Inv, TypeOK', AnswersSound', NEW c \in Callers, NEW r, call' = [call EXCEPT ![c] = r],
         CallSound(c)',
         UNCHANGED <<disk, mem, claimed, ruled>>,
         UNCHANGED log \/ \E e \in Lines : e.name \notin {"retry_dispatch"} \cup Sent /\ Write(<<e>>)
  PROVE  Inv' /\ LifeStep
<1>1. log \in Seq(Lines) /\ log' \in Seq(Lines)  BY DEF Inv, TypeOK
<1>2. Keeps({"retry_dispatch"}) /\ Keeps(Sent)  BY <1>1, KeptLines
<1>3. \A p \in Packets : disk'[p].attempts <= mem[p].attempts /\ mem'[p] = mem[p]
  BY DEF Inv, RetriesSound
<1>4. \A d \in Callers : call'[d] = call[d] \/ CallSound(d)'
  BY CallMoves DEF Inv
<1>5. RetriesSound'  BY <1>1, <1>2, <1>3, <1>4, RetriesKept DEF Inv
<1>6. RulingsSound'  BY <1>1, <1>2, <1>3, RulingsKept DEF Inv
<1> QED  BY <1>3, <1>5, <1>6 DEF Inv, LifeStep

LEMMA UnclassifiedKeeps == ASSUME Inv, NEW c \in Callers, Unclassified(c) PROVE Inv' /\ LifeStep
<1> DEFINE r == [at |-> "duty_review", p |-> call[c].p]
<1>1. call[c].at = "classify" /\ call' = [call EXCEPT ![c] = r]
      /\ UNCHANGED <<disk, mem, stepper, log, claimed, lastClass, tickets, todo, manual, ruled,
                     work, epilogue, asked, faults>>
  BY DEF Unclassified, RetryFrame, ledger
<1>2. r.at = "duty_review" /\ r.p = call[c].p /\ call[c].p \in Packets
  BY <1>1 DEF Inv, TypeOK, CallOK
<1> HIDE DEF r
<1>3. \A d \in Callers : CallOK(call'[d])
  BY <1>1, <1>2, CallMoves DEF Inv, TypeOK, CallOK
<1>4. TypeOK'  BY <1>1, <1>3, CallMoves DEF Inv, TypeOK, work
<1>5. AnswersSound'  BY <1>1, <1>2, AnswersRun
<1>6. CallSound(c)'  BY <1>1, <1>2, CallMoves DEF Inv, CallSound
<1> QED  BY <1>1, <1>4, <1>5, <1>6, RunKeeps

\* A retry is decided only below the class's max_retries.
LEMMA ClassifiesKeeps == ASSUME Inv, NEW c \in Callers, Classifies(c) PROVE Inv' /\ LifeStep
<1> DEFINE q == call[c].p
<1>1. PICK k \in Classes :
        /\ call' = [call EXCEPT ![c] =
                      [at |-> Decision(k, lastClass[q], call[c].attempts, call[c].spent),
                       p |-> q, attempts |-> call[c].attempts]]
        /\ lastClass' = [lastClass EXCEPT ![q] = k]
  BY DEF Classifies
<1>2. call[c].at = "classify"
      /\ UNCHANGED <<disk, mem, stepper, log, claimed, tickets, todo, manual, ruled,
                     work, epilogue, asked, faults>>
  BY DEF Classifies, RetryFrame, ledger
<1>3. q \in Packets /\ call[c].attempts \in Nat /\ call[c].attempts <= mem[q].attempts
  BY <1>2 DEF Inv, TypeOK, CallOK, RetriesSound, CallSound
<1> DEFINE at == Decision(k, lastClass[q], call[c].attempts, call[c].spent)
           r == [at |-> at, p |-> q, attempts |-> call[c].attempts]
<1>4. at \in {"duty_review", "budget_exhausted", "retry_dispatch"}
      /\ (at = "retry_dispatch" => ~(call[c].attempts >= MaxRetries[k]))
  BY DEF Decision
<1>5. call' = [call EXCEPT ![c] = r]  BY <1>1
<1> HIDE DEF at
<1>6. r.at = at /\ r.p = q /\ r.attempts = call[c].attempts  OBVIOUS
<1>7. at = "retry_dispatch" => call[c].attempts < MaxTries
  <2>1. MaxRetries[k] \in Nat /\ MaxRetries[k] <= MaxTries /\ MaxTries \in Nat
    BY MaxTriesBounds, LoopConstants
  <2> QED  BY <1>3, <1>4, <2>1
<1> HIDE DEF r
<1>8. \A d \in Callers : CallOK(call'[d])
  BY <1>3, <1>4, <1>5, <1>6, CallMoves DEF Inv, TypeOK, CallOK
<1>9. lastClass' \in [Packets -> Classes \cup {"none"}]
  BY <1>1, <1>3 DEF Inv, TypeOK
<1>10. TypeOK'  BY <1>2, <1>5, <1>8, <1>9, CallMoves DEF Inv, TypeOK, work
<1>11. AnswersSound'
  <2>1. call[c].at # "idle"  BY <1>2
  <2> QED  BY <1>2, <1>5, <1>6, <2>1, AnswersRun
<1>12. CallSound(c)'
  <2>1. call'[c] = r  BY <1>5, CallMoves DEF Inv
  <2> QED  BY <1>2, <1>3, <1>6, <1>7, <2>1 DEF CallSound
<1> QED  BY <1>2, <1>5, <1>10, <1>11, <1>12, RunKeeps

\* The packet is referred, and a ticket left.
LEMMA RefersKeeps == ASSUME Inv, NEW c \in Callers, Refers(c) PROVE Inv' /\ LifeStep
<1> DEFINE q == call[c].p
           e == Event(q, "duty_review", NoAttempt)
<1>1. call[c].at = "duty_review" /\ call' = [call EXCEPT ![c] = NoCall] /\ Write(<<e>>)
      /\ tickets' = tickets \cup {q}
      /\ UNCHANGED <<disk, mem, stepper, claimed, lastClass, todo, manual, ruled,
                     work, epilogue, asked, faults>>
  BY DEF Refers, RetryFrame, ledger, write_ticket
<1>2. q \in Packets  BY <1>1 DEF Inv, TypeOK, CallOK
<1>3. e \in Lines /\ e.p = q /\ e.name = "duty_review"
  <2>1. PICK name \in LineNames : name = "duty_review"  BY DEF LineNames, Answers
  <2>2. e = Event(q, name, NoAttempt)  BY <2>1
  <2> HIDE DEF e, q
  <2>3. e \in Lines /\ e.p = q /\ e.name = name  BY <1>2, <2>2 DEF Event, Lines
  <2> QED  BY <2>1, <2>3
<1> HIDE DEF e
<1>4. log' \in Seq(Lines)  BY <1>1, <1>3, WrittenLines DEF Inv, TypeOK
<1>5. \A d \in Callers : CallOK(call'[d])
  BY <1>1, CallMoves DEF Inv, TypeOK, CallOK, NoCall
<1>6. TypeOK'  BY <1>1, <1>2, <1>4, <1>5, CallMoves DEF Inv, TypeOK, work
<1>7. AnswersSound'
  <2>1. call[c].at # "idle"  BY <1>1
  <2> QED  BY <1>1, <1>3, <2>1, AnswersEnd
<1>8. CallSound(c)'
  <2>1. call'[c] = NoCall  BY <1>1, CallMoves DEF Inv
  <2> QED  BY <2>1 DEF CallSound, NoCall
<1>9. e.name \notin {"retry_dispatch"} \cup Sent  BY <1>3 DEF Sent
<1> QED  BY <1>1, <1>3, <1>6, <1>7, <1>8, <1>9, RunKeeps

\* The packet is given up.
LEMMA GivesUpKeeps == ASSUME Inv, NEW c \in Callers, GivesUp(c) PROVE Inv' /\ LifeStep
<1> DEFINE q == call[c].p
           e == Event(q, "budget_exhausted", NoAttempt)
<1>1. call[c].at = "budget_exhausted" /\ call' = [call EXCEPT ![c] = NoCall] /\ Write(<<e>>)
      /\ UNCHANGED <<disk, mem, stepper, claimed, lastClass, tickets, todo, manual, ruled,
                     work, epilogue, asked, faults>>
  BY DEF GivesUp, RetryFrame, ledger
<1>2. q \in Packets  BY <1>1 DEF Inv, TypeOK, CallOK
<1>3. e \in Lines /\ e.p = q /\ e.name = "budget_exhausted"
  <2>1. PICK name \in LineNames : name = "budget_exhausted"  BY DEF LineNames, Answers
  <2>2. e = Event(q, name, NoAttempt)  BY <2>1
  <2> HIDE DEF e, q
  <2>3. e \in Lines /\ e.p = q /\ e.name = name  BY <1>2, <2>2 DEF Event, Lines
  <2> QED  BY <2>1, <2>3
<1> HIDE DEF e
<1>4. log' \in Seq(Lines)  BY <1>1, <1>3, WrittenLines DEF Inv, TypeOK
<1>5. \A d \in Callers : CallOK(call'[d])
  BY <1>1, CallMoves DEF Inv, TypeOK, CallOK, NoCall
<1>6. TypeOK'  BY <1>1, <1>4, <1>5, CallMoves DEF Inv, TypeOK, work
<1>7. AnswersSound'
  <2>1. call[c].at # "idle"  BY <1>1
  <2> QED  BY <1>1, <1>3, <2>1, AnswersEnd
<1>8. CallSound(c)'
  <2>1. call'[c] = NoCall  BY <1>1, CallMoves DEF Inv
  <2> QED  BY <2>1 DEF CallSound, NoCall
<1>9. e.name \notin {"retry_dispatch"} \cup Sent  BY <1>3 DEF Sent
<1> QED  BY <1>1, <1>3, <1>6, <1>7, <1>8, <1>9, RunKeeps

\* A claim that stands is the next attempt's: every earlier one was claimed before.
LEMMA ClaimStands ==
  ASSUME Inv, NEW c \in Callers, call[c].at = "retry_dispatch",
         ~has_retry_dispatch(call[c].p, call[c].attempts + 1)
  PROVE  /\ call[c].attempts = mem[call[c].p].attempts /\ call[c].attempts + 1 <= MaxTries
         /\ \A i \in DOMAIN log : log[i].name = "retry_dispatch" => log[i].p # call[c].p
<1> DEFINE q == call[c].p
           n == call[c].attempts
<1>1. q \in Packets /\ n \in Nat /\ n <= mem[q].attempts /\ n < MaxTries
  BY DEF Inv, TypeOK, CallOK, RetriesSound, CallSound
<1>2. n + 1 \notin Claimed(q)  BY DEF has_retry_dispatch, Claimed
<1>3. mem[q].attempts \in Nat /\ 1..mem[q].attempts \subseteq Claimed(q)
  BY <1>1 DEF Inv, TypeOK, Entries, RetriesSound
<1>4. n = mem[q].attempts  BY <1>1, <1>2, <1>3
<1>5. MaxTries \in Nat  BY MaxTriesBounds
<1>6. ASSUME NEW i \in DOMAIN log, log[i].name = "retry_dispatch", log[i].p = q PROVE FALSE
  BY <1>2, <1>4, <1>6 DEF Inv, RetriesSound, RetryLineSound
<1> QED  BY <1>1, <1>4, <1>5, <1>6

Members(s) == {s[i] : i \in DOMAIN s}
Apart(s) == \A i, j \in DOMAIN s : s[i] = s[j] => i = j

\* The claims with one more.
LEMMA OneClaimMore ==
  ASSUME NEW s \in Seq(Nat), NEW n \in Nat, NEW t, t = Append(s, n)
  PROVE  /\ t \in Seq(Nat)
         /\ Members(t) = Members(s) \cup {n}
         /\ Apart(s) /\ n \notin Members(s) => Apart(t)
<1>1. /\ t \in Seq(Nat) /\ DOMAIN t = DOMAIN s \cup {Len(s) + 1} /\ Len(s) + 1 \notin DOMAIN s
      /\ \A i \in DOMAIN s : t[i] = s[i]
      /\ t[Len(s) + 1] = n
  BY AppendProperties
<1>2. {t[i] : i \in DOMAIN t} = {s[i] : i \in DOMAIN s} \cup {n}
  <2>1. ASSUME NEW x \in {t[i] : i \in DOMAIN t} PROVE x \in {s[i] : i \in DOMAIN s} \cup {n}
    BY <1>1
  <2>2. n \in {t[i] : i \in DOMAIN t}  BY <1>1
  <2>3. ASSUME NEW i \in DOMAIN s PROVE s[i] \in {t[j] : j \in DOMAIN t}
    <3>1. i \in DOMAIN t /\ s[i] = t[i]  BY <1>1
    <3> QED  BY <3>1
  <2> QED  BY <2>1, <2>2, <2>3
<1>3. ASSUME \A i, j \in DOMAIN s : s[i] = s[j] => i = j, n \notin {s[i] : i \in DOMAIN s},
             NEW i \in DOMAIN t, NEW j \in DOMAIN t, t[i] = t[j]
      PROVE  i = j
  BY <1>1, <1>3
<1>4. Members(t) = Members(s) \cup {n}  BY <1>2, Zenon DEF Members
<1>5. Apart(s) /\ n \notin Members(s) => Apart(t)  BY <1>3 DEF Members, Apart
<1> QED  BY <1>1, <1>4, <1>5

\* The attempt is claimed, once.
LEMMA ClaimsKeeps == ASSUME Inv, NEW c \in Callers, Claims(c) PROVE Inv' /\ LifeStep
<1>1. call[c].at = "retry_dispatch" /\ call' = [call EXCEPT ![c] = NoCall]
      /\ UNCHANGED <<disk, mem, stepper, lastClass, tickets, todo, manual, ruled,
                     work, epilogue, asked, faults>>
  BY DEF Claims, RetryFrame, ledger
<1>2. PICK q \in Packets, n \in Nat : q = call[c].p /\ n = call[c].attempts + 1
  BY <1>1 DEF Inv, TypeOK, CallOK
<1> DEFINE e == Event(q, "retry_dispatch", n)
<1>3. \A d \in Callers : CallOK(call'[d])
  BY <1>1, CallMoves DEF Inv, TypeOK, CallOK, NoCall
<1>4. CallSound(c)'
  <2>1. call'[c] = NoCall  BY <1>1, CallMoves DEF Inv
  <2> QED  BY <2>1 DEF CallSound, NoCall
<1>5. call[c].at # "idle"  BY <1>1
<1>6. CASE UNCHANGED <<log, claimed>>
  <2>1. TypeOK'  BY <1>1, <1>3, <1>6, CallMoves DEF Inv, TypeOK, work
  <2>2. AnswersSound'  BY <1>1, <1>5, <1>6, AnswersEnd
  <2> QED  BY <1>1, <1>4, <1>6, <2>1, <2>2, RunKeeps
<1>7. CASE /\ ~has_retry_dispatch(q, n) /\ Write(<<e>>)
           /\ claimed' = [claimed EXCEPT ![q] = Append(@, n)]
  <2>1. e \in Lines /\ e.p = q /\ e.name = "retry_dispatch" /\ e.att = n
    BY <1>2, EventTypes DEF LineNames, Answers
  <2>2. n \notin Claimed(q)  BY <1>7 DEF has_retry_dispatch, Claimed
  <2>3. n = mem[q].attempts + 1 /\ n <= MaxTries
        /\ \A i \in DOMAIN log : log[i].name = "retry_dispatch" => log[i].p # q
    BY <1>1, <1>2, <1>7, ClaimStands
  <2>4. Write(<<e>>) /\ claimed' = [claimed EXCEPT ![q] = Append(claimed[q], n)]  BY <1>7
  <2> HIDE DEF e
  <2>5. log \in Seq(Lines) /\ log' \in Seq(Lines)  BY <2>1, <2>4, WrittenLines DEF Inv, TypeOK
  <2>6. claimed \in [Packets -> Seq(Nat)] /\ claimed[q] \in Seq(Nat)
    BY <1>2 DEF Inv, TypeOK
  <2>7. claimed' \in [Packets -> Seq(Nat)]
        /\ \A p \in Packets : claimed'[p] = IF p = q THEN Append(claimed[q], n) ELSE claimed[p]
    BY <1>2, <2>4, <2>6
  <2>8. /\ {claimed'[q][i] : i \in DOMAIN claimed'[q]} = Claimed(q) \cup {n}
        /\ RetryOncePerAttempt => \A i, j \in DOMAIN claimed'[q] :
                                    claimed'[q][i] = claimed'[q][j] => i = j
    <3>1. PICK s \in Seq(Nat), t \in Seq(Nat) : s = claimed[q] /\ t = claimed'[q] /\ t = Append(s, n)
      BY <1>2, <2>6, <2>7
    <3>n. s \in Seq(Nat) /\ n \in Nat /\ t = Append(s, n)  BY <2>3, <3>1
    <3>2. Claimed(q) = Members(s)  BY <3>1, Zenon DEF Claimed, Members
    <3>3. Members(t) = Members(s) \cup {n}  BY <3>n, OneClaimMore, Zenon
    <3>m. n \notin Members(s)  BY <2>2, <3>2
    <3>4. Apart(s) => Apart(t)  BY <3>m, <3>n, OneClaimMore
    <3>5. RetryOncePerAttempt => Apart(s)  BY <1>2, <3>1 DEF RetryOncePerAttempt, Apart
    <3>6. {claimed'[q][i] : i \in DOMAIN claimed'[q]} = Members(t)
      BY <3>1 DEF Members
    <3>7. RetryOncePerAttempt => \A i, j \in DOMAIN claimed'[q] :
                                   claimed'[q][i] = claimed'[q][j] => i = j
      BY <3>1, <3>4, <3>5 DEF Apart
    <3> QED  BY <3>2, <3>3, <3>6, <3>7
  <2>9. \A p \in Packets : Claimed(p)' = IF p = q THEN Claimed(q) \cup {n} ELSE Claimed(p)
    <3> SUFFICES ASSUME NEW p \in Packets
                 PROVE  Claimed(p)' = IF p = q THEN Claimed(q) \cup {n} ELSE Claimed(p)
      OBVIOUS
    <3>1. CASE p = q  BY <2>8, <3>1 DEF Claimed
    <3>2. CASE p # q  BY <2>7, <3>2 DEF Claimed
    <3> QED  BY <3>1, <3>2
  <2>10. TypeOK'  BY <1>1, <1>3, <2>5, <2>7, CallMoves DEF Inv, TypeOK, work
  <2>11. AnswersSound'  BY <1>1, <1>2, <1>5, <2>1, <2>4, AnswersEnd
  <2>12. RulingsSound'
    <3>1. Keeps(Sent)
      <4>1. e.name \notin Sent  BY <2>1 DEF Sent
      <4> QED  BY <2>1, <2>4, <2>5, <4>1, KeptLines
    <3> QED  BY <1>1, <2>5, <3>1, RulingsKept DEF Inv
  <2>13. RetryOncePerAttempt'
    <3> SUFFICES ASSUME NEW p \in Packets, NEW i \in DOMAIN claimed'[p], NEW j \in DOMAIN claimed'[p],
                        claimed'[p][i] = claimed'[p][j]
                 PROVE  i = j
      BY DEF RetryOncePerAttempt
    <3>1. RetryOncePerAttempt  BY DEF Inv, RetriesSound
    <3>2. CASE p # q  BY <2>7, <3>1, <3>2 DEF RetryOncePerAttempt
    <3>3. CASE p = q  BY <2>8, <3>1, <3>3
    <3> QED  BY <3>2, <3>3
  <2>14. ASSUME NEW i \in DOMAIN log' PROVE RetryLineSound(i)'
    <3>1. CASE i \in DOMAIN log
      <4>1. log'[i] = log[i] /\ log[i].p \in Packets  BY <2>1, <2>4, <2>5, <3>1, WrittenLines, LineTypes
      <4>2. RetryLineSound(i)  BY <3>1 DEF Inv, RetriesSound
      <4>3. mem' = mem /\ Claimed(log[i].p) \subseteq Claimed(log[i].p)'  BY <1>1, <2>9, <4>1
      <4> QED  BY <4>1, <4>2, <4>3 DEF RetryLineSound
    <3>2. CASE i \notin DOMAIN log
      <4>1. log'[i] = e  BY <2>1, <2>4, <2>5, <3>2, WrittenLines
      <4>2. mem' = mem /\ n \in Claimed(q)'  BY <1>1, <1>2, <2>9
      <4> QED  BY <2>1, <2>3, <4>1, <4>2 DEF RetryLineSound
    <3> QED  BY <3>1, <3>2
  <2>15. Single({"retry_dispatch"})'
    BY <2>1, <2>3, <2>4, <2>5, SingleWritten DEF Inv, RetriesSound
  <2>16. ASSUME NEW p \in Packets
         PROVE  /\ disk'[p].attempts <= mem'[p].attempts /\ mem'[p].attempts <= MaxTries
                /\ 1..mem'[p].attempts \subseteq Claimed(p)'
    <3>1. disk[p].attempts <= mem[p].attempts /\ mem[p].attempts <= MaxTries
          /\ 1..mem[p].attempts \subseteq Claimed(p)
      BY DEF Inv, RetriesSound
    <3> QED  BY <1>1, <2>9, <3>1
  <2>17. ASSUME NEW d \in Callers PROVE CallSound(d)'
    <3>1. CASE d = c  BY <1>4, <3>1
    <3>2. CASE d # c
      <4>1. call'[d] = call[d] /\ mem' = mem  BY <1>1, <3>2, CallMoves DEF Inv
      <4>2. CallSound(d)  BY DEF Inv, RetriesSound
      <4> QED  BY <4>1, <4>2 DEF CallSound
    <3> QED  BY <3>1, <3>2
  <2>18. RetriesSound'  BY <2>13, <2>14, <2>15, <2>16, <2>17 DEF RetriesSound
  <2>19. LifeStep  BY <1>1 DEF LifeStep
  <2> QED  BY <2>10, <2>11, <2>12, <2>18, <2>19 DEF Inv
<1> QED  BY <1>2, <1>6, <1>7 DEF Claims

\* What a caller has read of the ledger is not ahead of the one in memory.
LEMMA ReadsKeeps ==
  ASSUME Inv, NEW c \in Callers, NEW p \in Packets, RetryReads(c, p), AnswersSound',
         todo' \subseteq todo, manual' \in 0..MaxManual
  PROVE  Inv' /\ LifeStep
<1>1. UNCHANGED <<disk, mem, stepper, log, claimed, lastClass, tickets, ruled, work, epilogue,
                  asked, faults>>
  BY DEF RetryReads, RetryFrame, ledger
<1> DEFINE failed == [at |-> "classify", p |-> p, attempts |-> disk[p].attempts, spent |-> Spent]
<1>2. PICK r \in {NoCall, failed} : call' = [call EXCEPT ![c] = r]  BY DEF RetryReads
<1>3. disk[p].attempts \in Nat /\ disk[p].attempts <= mem[p].attempts
  BY DEF Inv, TypeOK, Entries, RetriesSound
<1>4. r.at = "idle" \/ (r.at = "classify" /\ r.p = p /\ r.attempts = disk[p].attempts)
  BY <1>2 DEF NoCall
<1> HIDE DEF failed
<1>5. \A d \in Callers : CallOK(call'[d])
  BY <1>2, <1>3, <1>4, CallMoves DEF Inv, TypeOK, CallOK
<1>6. TypeOK'  BY <1>1, <1>2, <1>5, CallMoves DEF Inv, TypeOK, work
<1>7. CallSound(c)'
  <2>1. call'[c] = r  BY <1>2, CallMoves DEF Inv
  <2> QED  BY <1>1, <1>3, <1>4, <2>1 DEF CallSound
<1> QED  BY <1>1, <1>2, <1>6, <1>7, RunKeeps

\* An operator calls retry.py: from now on a failure may have two answers.
LEMMA OperatorRetriesKeeps == ASSUME Inv, OperatorRetries PROVE Inv' /\ LifeStep
<1>1. PICK p \in Packets : RetryReads("operator", p)  BY DEF OperatorRetries
<1>2. manual' \in 0..MaxManual /\ manual' # 0 /\ todo' = todo
  BY LoopConstants DEF OperatorRetries, Inv, TypeOK
<1>3. UNCHANGED <<stepper, epilogue>>  BY <1>1 DEF RetryReads, RetryFrame, ledger
<1>4. AnswersSound'  BY <1>2, <1>3 DEF Inv, AnswersSound
<1> QED  BY <1>1, <1>2, <1>4, ReadsKeeps DEF Callers

\* The epilogue turns to the next failed packet, which has no answer yet.
LEMMA EpilogueRoutesKeeps == ASSUME Inv, EpilogueRoutes PROVE Inv' /\ LifeStep
<1>1. PICK p \in todo : RetryReads("epilogue", p) /\ todo' = todo \ {p}  BY DEF EpilogueRoutes
<1>2. p \in Packets /\ manual' = manual /\ manual \in 0..MaxManual /\ epilogue = "routes"
  BY DEF EpilogueRoutes, Inv, TypeOK
<1>3. UNCHANGED <<stepper, epilogue, log>>  BY <1>1 DEF RetryReads, RetryFrame, ledger
<1>4. PICK r : call' = [call EXCEPT !["epilogue"] = r] /\ (r.at = "idle" \/ r.p = p)
  <2> DEFINE failed == [at |-> "classify", p |-> p, attempts |-> disk[p].attempts, spent |-> Spent]
  <2>1. PICK r \in {NoCall, failed} : call' = [call EXCEPT !["epilogue"] = r]
    BY <1>1 DEF RetryReads
  <2>2. r.at = "idle" \/ r.p = p  BY <2>1 DEF NoCall
  <2> HIDE DEF failed
  <2> QED  BY <2>1, <2>2
<1>5. call'["epilogue"] = r /\ call'["operator"] = call["operator"]
  <2>1. "epilogue" \in Callers /\ "operator" \in Callers /\ "operator" # "epilogue"
    BY DEF Callers
  <2> QED  BY <1>4, <2>1, CallMoves DEF Inv
<1>6. Single(Answers)' <=> Single(Answers)  BY <1>3 DEF Single
<1>7. AnswersSound'  BY <1>1, <1>2, <1>3, <1>4, <1>5, <1>6 DEF Inv, AnswersSound
<1> QED  BY <1>1, <1>2, <1>7, ReadsKeeps DEF Callers

-----------------------------------------------------------------------------
(* Taking the lock, and dying. *)

\* A step that leaves the ledgers, the log, the claims and the rulings alone, and calls nobody.
LEMMA LockKeeps ==
  ASSUME Inv, UNCHANGED <<disk, mem, log, files, work, asked, manual>>,
         stepper' \in {"nobody", "command", "epilogue"}, faults' \in 0..MaxFaults,
         epilogue' \in {"idle", "steps", "routes", "again"}, todo' \subseteq todo,
         call' = call \/ call' = [call EXCEPT !["epilogue"] = NoCall], AnswersSound'
  PROVE  Inv' /\ LifeStep
<1>1. UNCHANGED <<disk, mem, log, claimed, ruled>>  BY DEF files
<1>2. call' = [c \in Callers |-> call'[c]]
      /\ \A c \in Callers : call'[c] = call[c] \/ call'[c] = NoCall
  <2>1. CASE call' = call  BY <2>1 DEF Inv, TypeOK
  <2>2. CASE call' = [call EXCEPT !["epilogue"] = NoCall]
    <3>1. "epilogue" \in Callers  BY DEF Callers
    <3> QED  BY <2>2, <3>1, CallMoves DEF Inv
  <2> QED  BY <2>1, <2>2
<1>3. \A c \in Callers : CallOK(call'[c])  BY <1>2 DEF Inv, TypeOK, CallOK, NoCall
<1>4. TypeOK'  BY <1>2, <1>3 DEF Inv, TypeOK, files, work
<1>5. \A c \in Callers : call'[c] = call[c] \/ CallSound(c)'
  BY <1>2 DEF CallSound, NoCall
<1>6. log' \in Seq(Lines) /\ Keeps({"retry_dispatch"}) /\ Keeps(Sent)
  BY <1>1, KeptLines DEF Inv, TypeOK
<1>7. \A p \in Packets : disk'[p].attempts <= mem[p].attempts /\ mem'[p] = mem[p]
  BY <1>1 DEF Inv, RetriesSound
<1>8. RetriesSound'  BY <1>1, <1>5, <1>6, <1>7, RetriesKept DEF Inv
<1>9. RulingsSound'  BY <1>1, <1>6, <1>7, RulingsKept DEF Inv
<1> QED  BY <1>4, <1>7, <1>8, <1>9 DEF Inv, LifeStep

\* A command takes the lock.
LEMMA CommandStepsKeeps == ASSUME Inv, CommandSteps PROVE Inv' /\ LifeStep
<1>1. stepper = "nobody" /\ stepper' = "command"
      /\ UNCHANGED <<disk, mem, log, files, work, faults, call, epilogue, todo, asked, manual>>
  BY DEF CommandSteps, StepBegins, deciders
<1>2. Single(Answers)' <=> Single(Answers)  BY <1>1 DEF Single
<1>3. AnswersSound'  BY <1>1, <1>2 DEF Inv, AnswersSound
<1> QED  BY <1>1, <1>3, LockKeeps DEF Inv, TypeOK

\* The epilogue takes the lock, before it routes or after.
LEMMA EpilogueLocksKeeps ==
  ASSUME Inv, EpilogueBegins \/ EpilogueStepsAgain
  PROVE  Inv' /\ LifeStep
<1>1. stepper = "nobody" /\ stepper' = "epilogue" /\ epilogue' \in {"steps", "again"}
      /\ UNCHANGED <<disk, mem, log, files, work, faults, call, todo, asked, manual>>
      /\ (epilogue = "routes" => call["epilogue"] = NoCall)
  BY DEF EpilogueBegins, EpilogueStepsAgain, StepBegins
<1>2. Single(Answers)' <=> Single(Answers)  BY <1>1 DEF Single
<1>3. AnswersSound'  BY <1>1, <1>2 DEF Inv, AnswersSound
<1> QED  BY <1>1, <1>3, LockKeeps DEF Inv, TypeOK

\* The epilogue is killed, and retry.py with it.
LEMMA EpilogueKilledKeeps == ASSUME Inv, EpilogueKilled PROVE Inv' /\ LifeStep
<1>1. epilogue = "routes" /\ epilogue' = "idle" /\ todo' = {} /\ faults' \in 0..MaxFaults
      /\ call' = [call EXCEPT !["epilogue"] = NoCall]
      /\ UNCHANGED <<disk, mem, stepper, log, files, work, asked, manual>>
  BY LoopConstants DEF EpilogueKilled, ledger, Inv, TypeOK
<1>2. Single(Answers)' <=> Single(Answers)  BY <1>1 DEF Single
<1>3. call'["epilogue"] = NoCall /\ call'["operator"] = call["operator"]
  <2>1. "epilogue" \in Callers /\ "operator" \in Callers /\ "operator" # "epilogue"
    BY DEF Callers
  <2> QED  BY <1>1, <2>1, CallMoves DEF Inv
<1>4. AnswersSound'  BY <1>1, <1>2, <1>3 DEF Inv, AnswersSound
<1> QED  BY <1>1, <1>4, LockKeeps DEF Inv, TypeOK

-----------------------------------------------------------------------------
(* The theorems. *)

\* Initially nothing is counted, claimed, written or under way, and every packet waits.
LEMMA InitSound == ASSUME Init PROVE Inv /\ Life!Init
<1>1. NewPkt \in Entries /\ NewPkt.attempts = 0 /\ NewPkt.reviews = 0 /\ NewPkt.replans = 0
      /\ NewPkt.state = "DISPATCHABLE"
  BY DEF NewPkt, Entries, STATES, REPLAN_CAP
<1>2. \A p \in Packets : disk[p] = NewPkt /\ mem[p] = NewPkt  BY DEF Init
<1>3. call = [c \in Callers |-> NoCall] /\ \A c \in Callers : call[c].at = "idle"
  BY DEF Init, NoCall
<1>4. TypeOK
  <2>1. disk \in [Packets -> Entries] /\ mem \in [Packets -> Entries]  BY <1>1 DEF Init
  <2>2. \A c \in Callers : CallOK(call[c])  BY <1>3 DEF CallOK
  <2> QED  BY <1>3, <2>1, <2>2, LoopConstants DEF Init, TypeOK
<1>5. RetriesSound
  <2>1. \A c \in Callers : CallSound(c)  BY <1>3 DEF CallSound
  <2>2. log = <<>> /\ \A p \in Packets : claimed[p] = <<>>  BY DEF Init
  <2> QED  BY <1>1, <1>2, <2>1, <2>2, MaxTriesBounds DEF RetriesSound, RetryOncePerAttempt, Single
<1>6. RulingsSound  BY <1>1, <1>2 DEF Init, RulingsSound, Single
<1>7. AnswersSound  BY <1>3 DEF Init, AnswersSound, Single, Callers
<1>8. Life!Init  BY <1>1, <1>2 DEF Life!Init, Phase, Abs
<1> QED  BY <1>4, <1>5, <1>6, <1>7, <1>8 DEF Inv

\* Whatever happens next, the invariant is kept and every packet lives as it may.
LEMMA NextKeeps == ASSUME Inv, [Next]_vars PROVE Inv' /\ LifeStep
<1>1. CASE Steps
  BY <1>1, CommandStepsKeeps, ApplyEventKeeps, StepEndsKeeps DEF Steps
<1>2. CASE Epilogue
  BY <1>2, EpilogueLocksKeeps, EpilogueRoutesKeeps, EpilogueKilledKeeps DEF Epilogue
<1>3. CASE Retries
  BY <1>3, UnclassifiedKeeps, ClassifiesKeeps, RefersKeeps, GivesUpKeeps, ClaimsKeeps
     DEF Retries, RetryRuns
<1>4. CASE OperatorRetries  BY <1>4, OperatorRetriesKeeps
<1>5. CASE Duty  BY <1>5, AsksKeeps, RulesKeeps DEF Duty
<1>6. CASE World
  BY <1>6, LaunchKeeps, ChildEndsKeeps, JudgeKeeps, HumanKeeps DEF World
<1>7. CASE UNCHANGED vars
  <2>1. UNCHANGED <<disk, mem, stepper, log, claimed, ruled, lastClass, tickets, children, report,
                    call, epilogue, todo, asked, manual, faults>>
    BY <1>7 DEF vars, ledger, files, work, deciders
  <2>2. TypeOK'  BY <2>1 DEF Inv, TypeOK
  <2> QED  BY <2>1, <2>2, QuietKeeps
<1> QED  BY <1>1, <1>2, <1>3, <1>4, <1>5, <1>6, <1>7 DEF Next

\* Types, claims, rulings and answers are sound in every state the loop reaches
\* (retry.py:99 has_retry_dispatch, duty_route.py:120 adjudicate, terminal_packet_epilogue.py:47
\* route_terminal_retries).
THEOREM LoopSound == Spec => []Inv
<1>1. Init => Inv  BY InitSound
<1>2. Inv /\ [Next]_vars => Inv'  BY NextKeeps
<1> QED  BY <1>1, <1>2, PTL DEF Spec

\* An attempt is retried once, for any number of callers' runs and faults
\* (retry.py:99 has_retry_dispatch under .events.lock).
THEOREM OneRetryPerAttempt == Spec => []RetryOncePerAttempt
<1>1. Inv => RetryOncePerAttempt  BY DEF Inv, RetriesSound
<1> QED  BY <1>1, LoopSound, PTL

\* As long as no operator calls retry.py, a failure has one answer under way, however often the
\* epilogue is killed between two packets (terminal_packet_epilogue.py:47 route_terminal_retries:
\* the step comes first).
THEOREM OneAnswerPerFailure == Spec => []OneAnswer
<1>1. Inv => OneAnswer  BY DEF Inv, AnswersSound, OneAnswer, Single
<1> QED  BY <1>1, LoopSound, PTL

\* The loop implements PacketLife: a packet is retried at most max_retries times, sent back by a
\* ruling once and replanned up to the cap, whatever races (retry.py:232, duty_route.py:120,
\* statemachine.py bump_replan_counter).
THEOREM LoopImplementsLife == Spec => LivesBounded
<1>1. Init => Life!Init  BY InitSound
<1>2. ASSUME Inv, [Next]_vars
      PROVE  [Life!Next]_([p \in Packets |-> Abs(mem[p])])
  <2>1. Inv' /\ LifeStep  BY <1>2, NextKeeps
  <2>2. \A p \in Packets : Abs(mem'[p]) \in Life!Lives
    BY <2>1, AbsTypes DEF Inv, TypeOK, RetriesSound
  <2> QED  BY <2>1, <2>2 DEF Life!Next, LifeStep
<1> QED  BY <1>1, <1>2, LoopSound, PTL DEF Spec, LivesBounded, Life!Spec
=============================================================================
