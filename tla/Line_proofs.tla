---------------------------- MODULE Line_proofs ----------------------------
(*************************************************************************)
(* What surrounds a call, for any number of callers, tools, scenarios    *)
(* and scripts: the line in front of it, its job in the agent worker,    *)
(* and the scripts that seed a workspace and evaluate its agent.         *)
(*************************************************************************)
EXTENDS CallLife, CallLatency, VoiceWaitlist, EvalRun, DemoSeed, FiniteSetTheorems, SequenceTheorems, TLAPS

----------------------------------------------------------------------------
(*************************************************************************)
(* The job of a call: what the caller is told.                           *)
(*************************************************************************)

CallsSafe == CallTypeOK /\ ToldIsStored

\* Before the job is recorded nothing has happened; who was told something
\* stored has a row; nothing is done for nobody.
NothingYet ==
  job \in {"idle", "resolved", "built"} =>
    /\ callRow = "none" /\ ~ callId /\ rows = {} /\ tasks = {}
    /\ \A t \in Tools \union Lookups : tool[t] = "idle"

RecordedAreStored == \A t \in Tools : tool[t] \in {"stored", "confirmed"} => t \in rows

NobodyIsServed ==
  tenant = "none" => rows = {} /\ callRow = "none" /\ \A t \in Tools : tool[t] \in {"idle", "nothing"}

CallInv ==
  /\ tool \in [Tools \union Lookups ->
                 {"idle", "running", "stored", "confirmed", "found", "nothing", "apology"}]
  /\ CallTypeOK /\ NothingYet /\ RecordedAreStored /\ NobodyIsServed

LEMMA CallStart == CallInit => CallInv
  BY DEF CallInit, CallInv, CallTypeOK, NothingYet, RecordedAreStored, NobodyIsServed, Businesses

LEMMA EntrypointKeeps == CallInv /\ Entrypoint => CallInv'
<1> SUFFICES ASSUME CallInv, Entrypoint PROVE CallInv'
  OBVIOUS
<1>1. CASE Resolve
  BY <1>1 DEF CallInv, CallTypeOK, NothingYet, RecordedAreStored, NobodyIsServed, Resolve, Businesses
<1>2. CASE Build
  BY <1>2 DEF CallInv, CallTypeOK, NothingYet, RecordedAreStored, NobodyIsServed, Build
<1>3. CASE Record
  BY <1>3 DEF CallInv, CallTypeOK, NothingYet, RecordedAreStored, NobodyIsServed, Record
<1>4. CASE StartSession
  BY <1>4 DEF CallInv, CallTypeOK, NothingYet, RecordedAreStored, NobodyIsServed, StartSession, AfterFailedStart
<1> QED
  BY <1>1, <1>2, <1>3, <1>4 DEF Entrypoint

LEMMA AgentKeeps ==
  ASSUME CallInv, NEW t \in Tools \union Lookups,
         UseTool(t) \/ Looked(t) \/ Stores(t) \/ Confirm(t) \/ Refuse(t)
  PROVE  CallInv'
<1>1. CASE UseTool(t)
  BY <1>1 DEF CallInv, CallTypeOK, NothingYet, RecordedAreStored, NobodyIsServed, UseTool
<1>2. CASE Looked(t)
  BY <1>2 DEF CallInv, CallTypeOK, NothingYet, RecordedAreStored, NobodyIsServed, Alive, Looked
<1>3. CASE Stores(t)
  BY <1>3 DEF CallInv, CallTypeOK, NothingYet, RecordedAreStored, NobodyIsServed, Alive, Stores
<1>4. CASE Confirm(t)
  BY <1>4 DEF CallInv, CallTypeOK, NothingYet, RecordedAreStored, NobodyIsServed, Alive, Confirm
<1>5. CASE Refuse(t)
  BY <1>5 DEF CallInv, CallTypeOK, NothingYet, RecordedAreStored, NobodyIsServed, Alive, Refuse
<1> QED
  BY <1>1, <1>2, <1>3, <1>4, <1>5

LEMMA ShutdownKeeps ==
  ASSUME CallInv, \/ Shutdown \/ Exit(TRUE) \/ Crash
                  \/ \E e \in Tools \union {"call"} : Deliver(e)
  PROVE  CallInv'
<1>1. CASE CallEnds
  BY <1>1 DEF CallInv, CallTypeOK, NothingYet, RecordedAreStored, NobodyIsServed, CallEnds
<1>2. CASE Finalize
  BY <1>2 DEF CallInv, CallTypeOK, NothingYet, RecordedAreStored, NobodyIsServed, Finalize, FinalizeFailed
<1>3. CASE Drain
  BY <1>3 DEF CallInv, CallTypeOK, NothingYet, RecordedAreStored, NobodyIsServed, Drain
<1>4. CASE Exit(FALSE) \/ Exit(TRUE)
  BY <1>4 DEF CallInv, CallTypeOK, NothingYet, RecordedAreStored, NobodyIsServed, Exit
<1>5. CASE Crash
  BY <1>5 DEF CallInv, CallTypeOK, NothingYet, RecordedAreStored, NobodyIsServed, Alive, Crash
<1>6. CASE \E e \in Tools \union {"call"} : Deliver(e)
  BY <1>6 DEF CallInv, CallTypeOK, NothingYet, RecordedAreStored, NobodyIsServed, Alive, Deliver
<1> QED
  BY <1>1, <1>2, <1>3, <1>4, <1>5, <1>6 DEF Shutdown

LEMMA CallStutters == CallInv /\ UNCHANGED callVars => CallInv'
  BY DEF CallInv, CallTypeOK, NothingYet, RecordedAreStored, NobodyIsServed, callVars

LEMMA CallKeeps == CallInv /\ [CallNext]_callVars => CallInv'
  BY EntrypointKeeps, AgentKeeps, ShutdownKeeps, CallStutters DEF CallNext

LEMMA CallInvIsSafe == CallInv => CallsSafe
  BY DEF CallInv, RecordedAreStored, CallsSafe, ToldIsStored

\* However many bookings and messages the agent is asked to record, and wherever
\* the call breaks off: a caller is read a confirmation of committed rows only,
\* what was announced is committed, and a job without a tenant writes nothing.
THEOREM CallsAreSafe == CallSpec => []CallsSafe
<1> QED
  BY CallStart, CallKeeps, CallInvIsSafe, PTL DEF CallSpec

----------------------------------------------------------------------------
(*************************************************************************)
(* The delays of a call: what its percentiles are.                       *)
(*************************************************************************)

LEMMA LenIsFinite ==
  ASSUME NEW values \in Seq(Nat)
  PROVE  IsFiniteSet(DOMAIN values) /\ Cardinality(DOMAIN values) = Len(values)
<1>1. DOMAIN values = 1 .. Len(values) /\ Len(values) \in Nat
  BY LenProperties
<1>2. \A n \in Nat : IsFiniteSet(1 .. n) /\ Cardinality(1 .. n) = n
  BY FS_Interval
<1> QED
  BY <1>1, <1>2

\* Who comes before somebody who comes before i, or is i, is among them; so
\* the places differ, there are as many as delays, and each is taken.
LEMMA UptoIsCounted ==
  ASSUME NEW values \in Seq(Nat), NEW i \in DOMAIN values
  PROVE  /\ i \in Upto(values, i) /\ Upto(values, i) \subseteq DOMAIN values
         /\ IsFiniteSet(Upto(values, i))
         /\ Cardinality(Upto(values, i)) \in 1 .. Len(values)
<1>1. values[i] \in Nat /\ i \in Nat /\ DOMAIN values = 1 .. Len(values) /\ Len(values) \in Nat
  BY LenProperties, ElementOfSeq
<1>2. i \in Upto(values, i) /\ Upto(values, i) \subseteq 1 .. Len(values)
  BY <1>1 DEF Upto
<1>3. IsFiniteSet(1 .. Len(values)) /\ Cardinality(1 .. Len(values)) = Len(values)
  BY <1>1, LenIsFinite
<1>4. /\ IsFiniteSet(Upto(values, i)) /\ Cardinality(Upto(values, i)) <= Len(values)
  BY <1>2, <1>3, FS_Subset
<1>5. Cardinality(Upto(values, i)) \in Nat /\ Cardinality(Upto(values, i)) # 0
  BY <1>2, <1>4, FS_CardinalityType, FS_EmptySet
<1> QED
  BY <1>1, <1>2, <1>4, <1>5

LEMMA PlacesDiffer ==
  ASSUME NEW values \in Seq(Nat), NEW i \in DOMAIN values, NEW j \in DOMAIN values,
         values[i] < values[j] \/ (values[i] = values[j] /\ i < j)
  PROVE  Cardinality(Upto(values, i)) < Cardinality(Upto(values, j))
<1>1. \A h \in DOMAIN values : values[h] \in Nat /\ h \in Nat
  BY LenProperties, ElementOfSeq
<1>2. Upto(values, i) \subseteq Upto(values, j) /\ j \notin Upto(values, i) /\ j \in Upto(values, j)
  BY <1>1 DEF Upto
<1>3. IsFiniteSet(Upto(values, j))
  BY UptoIsCounted
<1> QED
  BY <1>2, <1>3, FS_Subset, FS_CardinalityType

\* sorted(values) has a delay at every place.
LEMMA PlaceIsTaken ==
  ASSUME NEW values \in Seq(Nat), NEW place \in 1 .. Len(values)
  PROVE  \E i \in DOMAIN values : Cardinality(Upto(values, i)) = place
<1> DEFINE at == [i \in DOMAIN values |-> Cardinality(Upto(values, i))]
<1>1. DOMAIN values = 1 .. Len(values) /\ Len(values) \in Nat /\ \A i \in DOMAIN values : values[i] \in Nat
  BY LenProperties, ElementOfSeq
<1>2. at \in [DOMAIN values -> 1 .. Len(values)]
  BY UptoIsCounted
<1>3. ASSUME NEW i \in DOMAIN values, NEW j \in DOMAIN values, i # j
      PROVE  at[i] # at[j]
  <2>1. \/ values[i] < values[j] \/ (values[i] = values[j] /\ i < j)
        \/ values[j] < values[i] \/ (values[j] = values[i] /\ j < i)
    BY <1>1, <1>3
  <2>2. at[i] < at[j] \/ at[j] < at[i]
    BY <2>1, PlacesDiffer
  <2>3. at[i] \in Nat /\ at[j] \in Nat
    BY <1>2
  <2> QED
    BY <2>2, <2>3
<1> HIDE DEF at
<1>4. at \in Injection(DOMAIN values, 1 .. Len(values))
  BY <1>2, <1>3 DEF Injection, IsInjective
<1>5. IsFiniteSet(1 .. Len(values))
  BY <1>1, FS_Interval
<1>6. at \in Surjection(DOMAIN values, 1 .. Len(values))
  BY <1>1, <1>4, <1>5, FS_Injection
<1> QED
  BY <1>6 DEF Surjection, at

\* What stands there: as many are less as stand before it at the most, and as
\* many are no greater as stand up to it at least.
LEMMA OrderedIs ==
  ASSUME NEW values \in Seq(Nat), NEW place \in 1 .. Len(values)
  PROVE  \E i \in DOMAIN values :
           /\ Ordered(values, place) = values[i] /\ Cardinality(Upto(values, i)) = place
           /\ Cardinality({j \in DOMAIN values : values[j] < values[i]}) <= place - 1
           /\ Cardinality({j \in DOMAIN values : values[j] <= values[i]}) >= place
<1> DEFINE i == CHOOSE i \in DOMAIN values : Cardinality(Upto(values, i)) = place
           Less == {j \in DOMAIN values : values[j] < values[i]}
           NoGreater == {j \in DOMAIN values : values[j] <= values[i]}
<1>1. i \in DOMAIN values /\ Cardinality(Upto(values, i)) = place
  BY PlaceIsTaken
<1>2. Ordered(values, place) = values[i]
  BY DEF Ordered
<1> HIDE DEF i
<1>3. /\ DOMAIN values = 1 .. Len(values) /\ Len(values) \in Nat /\ place \in Nat
      /\ \A j \in DOMAIN values : values[j] \in Nat /\ j \in Nat
  BY LenProperties, ElementOfSeq
<1>4. /\ IsFiniteSet(DOMAIN values) /\ IsFiniteSet(Upto(values, i)) /\ i \in Upto(values, i)
  BY <1>1, <1>3, UptoIsCounted, LenIsFinite
<1>5. Less \subseteq Upto(values, i) \ {i} /\ Upto(values, i) \subseteq NoGreater /\ NoGreater \subseteq DOMAIN values
  BY <1>1, <1>3 DEF Upto
<1>6. IsFiniteSet(Upto(values, i) \ {i}) /\ Cardinality(Upto(values, i) \ {i}) = place - 1
  BY <1>1, <1>4, FS_RemoveElement
<1>7. Cardinality(Less) <= place - 1
  BY <1>5, <1>6, FS_Subset
<1>8. IsFiniteSet(NoGreater)
  BY <1>4, <1>5, FS_Subset
<1>9. Cardinality(NoGreater) \in Nat /\ place <= Cardinality(NoGreater)
  BY <1>1, <1>5, <1>8, FS_Subset, FS_CardinalityType
<1> QED
  BY <1>1, <1>2, <1>3, <1>7, <1>9

LEMMA StandsThere ==
  ASSUME NEW values \in Seq(Nat), NEW place \in 1 .. Len(values), NEW x, x = Ordered(values, place)
  PROVE  /\ \E i \in DOMAIN values : values[i] = x
         /\ Cardinality({j \in DOMAIN values : values[j] < x}) <= place - 1
         /\ Cardinality({j \in DOMAIN values : values[j] <= x}) >= place
<1>1. PICK i \in DOMAIN values :
        /\ Ordered(values, place) = values[i]
        /\ Cardinality({j \in DOMAIN values : values[j] < values[i]}) <= place - 1
        /\ Cardinality({j \in DOMAIN values : values[j] <= values[i]}) >= place
  BY OrderedIs
<1>2. x = values[i]
  BY <1>1
<1> QED
  BY <1>1, <1>2

LEMMA RankIsNear ==
  ASSUME NEW n \in Nat \ {0}, NEW pct \in {50, 95}
  PROVE  /\ Rank(n, pct) \in 0 .. n - 1
         /\ 200 * Rank(n, pct) <= 2 * (pct * (n - 1)) + 100
         /\ 200 * Rank(n, pct) >= 2 * (pct * (n - 1)) - 100
<1> DEFINE twice == 2 * pct * (n - 1)
           up == (twice + 100) \div 200
<1>1. twice \in Nat /\ twice = 2 * (pct * (n - 1)) /\ twice <= 190 * (n - 1)
  BY Z3
<1>2. Rank(n, pct) = IF (twice + 100) % 200 = 0 /\ up % 2 = 1 THEN up - 1 ELSE up
  BY DEF Rank
<1> HIDE DEF twice
<1>3. up \in Nat /\ 200 * up <= twice + 100 /\ twice + 100 < 200 * up + 200
      /\ ((twice + 100) % 200 = 0 => twice + 100 = 200 * up) /\ (up % 2 = 1 => up > 0)
  BY <1>1
<1> HIDE DEF up
<1> QED
  BY <1>1, <1>2, <1>3

LEMMA RanksInOrder ==
  ASSUME NEW n \in Nat \ {0}
  PROVE  Rank(n, 50) <= Rank(n, 95)
<1>1. Rank(n, 50) \in Nat /\ Rank(n, 95) \in Nat
  BY RankIsNear
<1>2. 200 * Rank(n, 50) <= 100 * (n - 1) + 100 /\ 200 * Rank(n, 95) >= 190 * (n - 1) - 100
  BY RankIsNear
<1>3. CASE n > 3
  BY <1>1, <1>2, <1>3
<1>4. Rank(1, 50) = 0 /\ Rank(2, 50) = 0 /\ Rank(2, 95) = 1 /\ Rank(3, 50) = 1 /\ Rank(3, 95) = 2
  BY DEF Rank
<1> QED
  BY <1>1, <1>3, <1>4

LEMMA BucketsAreNumbers ==
  ASSUME LatencyTypeOK, NEW s \in Stages
  PROVE  bucket[s] \in Seq(Nat) /\ Len(bucket[s]) \in Nat
<1>1. bucket[s] \in Seq(Delays)
  BY DEF LatencyTypeOK
<1>2. bucket[s] \in Seq(Nat)
  BY <1>1, DelaysAssumption, SeqMonotonic, Zenon
<1> QED
  BY <1>2, LenProperties

LEMMA PercentileIs ==
  ASSUME NEW values \in Seq(Nat), Len(values) # 0, NEW pct \in {50, 95}
  PROVE  /\ Rank(Len(values), pct) + 1 \in 1 .. Len(values)
         /\ Percentile(values, pct) = Ordered(values, Rank(Len(values), pct) + 1)
<1>1. Len(values) \in Nat \ {0}
  BY LenProperties
<1>2. Rank(Len(values), pct) \in 0 .. Len(values) - 1
  BY <1>1, RankIsNear
<1> QED
  BY <1>1, <1>2 DEF Percentile

LEMMA PercentileIsRight ==
  ASSUME NEW values \in Seq(Nat), Len(values) # 0, NEW pct \in {50, 95}
  PROVE  IsPercentile(values, Percentile(values, pct), pct)
<1> SUFFICES ASSUME NEW x, x = Percentile(values, pct)
             PROVE  IsPercentile(values, x, pct)
  OBVIOUS
<1> DEFINE rank == Rank(Len(values), pct)
           place == rank + 1
           way == pct * (Len(values) - 1)
           Less == {i \in DOMAIN values : values[i] < x}
           NoGreater == {i \in DOMAIN values : values[i] <= x}
           less == Cardinality(Less)
           upto == Cardinality(NoGreater)
<1>1. Len(values) \in Nat \ {0}
  BY LenProperties
<1>2. rank \in 0 .. Len(values) - 1 /\ 200 * rank <= 2 * way + 100 /\ 200 * rank >= 2 * way - 100
  BY <1>1, RankIsNear
<1>3. rank \in Nat /\ way \in Nat
  BY <1>1, <1>2, Z3
<1>4. place \in 1 .. Len(values) /\ x = Ordered(values, place)
  BY PercentileIs
<1>5. place = rank + 1
  OBVIOUS
<1>6. less \in Nat /\ upto \in Nat
  <2>1. IsFiniteSet(Less) /\ IsFiniteSet(NoGreater)
    BY LenIsFinite, FS_Subset
  <2> QED
    BY <2>1, FS_CardinalityType
<1> HIDE DEF place, rank
<1>7. (\E i \in DOMAIN values : values[i] = x) /\ less <= place - 1 /\ upto >= place
  <2>1. /\ \E i \in DOMAIN values : values[i] = x
        /\ Cardinality(Less) <= place - 1 /\ Cardinality(NoGreater) >= place
    BY <1>4, StandsThere
  <2> QED
    BY <2>1
<1> HIDE DEF Less, NoGreater, less, upto, way
<1>8. 200 * less <= 2 * way + 100 /\ 200 * (upto - 1) >= 2 * way - 100
  BY <1>2, <1>3, <1>5, <1>6, <1>7
<1> QED
  BY <1>7, <1>8 DEF IsPercentile, Less, NoGreater, less, upto, way

LEMMA PercentilesInOrder ==
  ASSUME NEW values \in Seq(Nat), Len(values) # 0
  PROVE  Percentile(values, 50) <= Percentile(values, 95)
<1> DEFINE middle == Rank(Len(values), 50) + 1
           late == Rank(Len(values), 95) + 1
<1>1. Len(values) \in Nat \ {0}
  BY LenProperties
<1>2. /\ Percentile(values, 50) = Ordered(values, middle) /\ middle \in 1 .. Len(values)
      /\ Percentile(values, 95) = Ordered(values, late) /\ late \in 1 .. Len(values)
  BY PercentileIs
<1>3. Rank(Len(values), 50) <= Rank(Len(values), 95) /\ \A pct \in {50, 95} : Rank(Len(values), pct) \in Int
  BY <1>1, RanksInOrder, RankIsNear
<1>4. middle <= late /\ middle \in Int /\ late \in Int
  BY <1>3
<1> HIDE DEF middle, late
<1>5. PICK i \in DOMAIN values : Ordered(values, middle) = values[i] /\ Cardinality(Upto(values, i)) = middle
  BY <1>2, OrderedIs
<1>6. PICK j \in DOMAIN values : Ordered(values, late) = values[j] /\ Cardinality(Upto(values, j)) = late
  BY <1>2, OrderedIs
<1>7. values[i] \in Nat /\ values[j] \in Nat
  BY ElementOfSeq, LenProperties
<1>8. values[j] < values[i] => late < middle
  BY <1>5, <1>6, PlacesDiffer
<1> QED
  BY <1>2, <1>4, <1>5, <1>6, <1>7, <1>8

LEMMA LatencyStep == LatencyTypeOK /\ [LatencyNext]_latencyVars => LatencyTypeOK'
<1> SUFFICES ASSUME LatencyTypeOK, [LatencyNext]_latencyVars PROVE LatencyTypeOK'
  OBVIOUS
<1>1. CASE UNCHANGED latencyVars
  BY <1>1 DEF LatencyTypeOK, latencyVars
<1>2. CASE LatencyNext
  <2>1. PICK m \in [Stages -> Delays \union {Missing}] : Handle(m)
    BY <1>2 DEF LatencyNext
  <2>2. events' \in 0 .. MaxEvents
    BY <2>1, DelaysAssumption DEF Handle, LatencyTypeOK
  <2>3. ASSUME NEW s \in Stages
        PROVE  bucket'[s] \in Seq(Delays)
    <3>1. bucket[s] \in Seq(Delays) /\ m[s] \in Delays \union {Missing}
      BY DEF LatencyTypeOK
    <3>2. Valid(m[s]) => m[s] \in Delays
      BY <3>1 DEF Valid, Missing
    <3> QED
      BY <2>1, <3>1, <3>2, AppendProperties DEF Handle
  <2> QED
    BY <2>2, <2>3 DEF LatencyTypeOK
<1> QED
  BY <1>1, <1>2

\* The percentiles of a call's record are what they are called: measured values,
\* in their places among the others, whatever the delays were and however many
\* events came.
THEOREM LatencyIsRight == LatencySpec => []LatencyKept
<1>1. LatencyInit => LatencyTypeOK
  BY DelaysAssumption, EmptySeq DEF LatencyInit, LatencyTypeOK
<1>2. LatencyTypeOK => LatencyKept
  <2> SUFFICES ASSUME LatencyTypeOK, NEW s \in Stages
               PROVE  LET st == Snapshot[s] IN
                      IF st.n = 0 THEN st.p50 = Missing /\ st.p95 = Missing
                      ELSE /\ IsPercentile(bucket[s], st.p50, 50) /\ IsPercentile(bucket[s], st.p95, 95)
                           /\ st.p50 <= st.p95
    BY DEF LatencyKept, PercentilesAreRight
  <2>1. /\ Snapshot[s].n = Len(bucket[s])
        /\ Snapshot[s].p50 = Percentile(bucket[s], 50) /\ Snapshot[s].p95 = Percentile(bucket[s], 95)
    BY DEF Snapshot, Stats
  <2>2. CASE Len(bucket[s]) = 0
    BY <2>1, <2>2 DEF Percentile
  <2>3. CASE Len(bucket[s]) # 0
    BY <2>1, <2>3, BucketsAreNumbers, PercentileIsRight, PercentilesInOrder
  <2> QED
    BY <2>2, <2>3
<1>3. LatencyTypeOK /\ [LatencyNext]_latencyVars => LatencyTypeOK'
  BY LatencyStep
<1> QED
  BY <1>1, <1>2, <1>3, PTL DEF LatencySpec

----------------------------------------------------------------------------
(*************************************************************************)
(* The line: whoever has room in it keeps that room.                     *)
(*************************************************************************)

\* The queue, by itself: a line of different tenants
Queues == {q \in Seq(Tenants) : IsInjective(q)}

LEMMA RankIs ==
  ASSUME NEW q \in Queues, NEW k \in ToSet(q)
  PROVE  /\ RankIn(q, k) \in Nat /\ RankIn(q, k) < Len(q)
         /\ RankIn(q, k) + 1 \in DOMAIN q /\ q[RankIn(q, k) + 1] = k
         /\ \A i \in DOMAIN q : q[i] = k => RankIn(q, k) = i - 1
<1> DEFINE c == CHOOSE i \in DOMAIN q : q[i] = k
<1>1. c \in DOMAIN q /\ q[c] = k
  BY DEF ToSet
<1>2. DOMAIN q = 1 .. Len(q) /\ Len(q) \in Nat
  BY DEF Queues
<1>3. \A i \in DOMAIN q : q[i] = k => i = c
  BY <1>1 DEF Queues, IsInjective
<1>4. RankIn(q, k) = c - 1
  BY DEF RankIn
<1> HIDE DEF c
<1> QED
  BY <1>1, <1>2, <1>3, <1>4

LEMMA RemovedIs ==
  ASSUME NEW q \in Queues, NEW i \in DOMAIN q
  PROVE  LET r == RemoveAt(q, i) IN
           /\ r \in Seq(Tenants) /\ Len(r) = Len(q) - 1
           /\ \A j \in 1 .. Len(r) : r[j] = IF j < i THEN q[j] ELSE q[j + 1]
<1>1. q \in Seq(Tenants) /\ DOMAIN q = 1 .. Len(q) /\ Len(q) \in Nat /\ i \in 1 .. Len(q)
  BY DEF Queues
<1>2. /\ SubSeq(q, 1, i - 1) \in Seq(Tenants) /\ Len(SubSeq(q, 1, i - 1)) = i - 1
      /\ \A j \in 1 .. i - 1 : SubSeq(q, 1, i - 1)[j] = q[j]
  BY <1>1
<1>3. /\ SubSeq(q, i + 1, Len(q)) \in Seq(Tenants) /\ Len(SubSeq(q, i + 1, Len(q))) = Len(q) - i
      /\ \A j \in 1 .. Len(q) - i : SubSeq(q, i + 1, Len(q))[j] = q[i + j]
  BY <1>1
<1> DEFINE a == SubSeq(q, 1, i - 1)
           b == SubSeq(q, i + 1, Len(q))
<1>4. RemoveAt(q, i) = a \o b
  BY DEF RemoveAt
<1> HIDE DEF a, b
<1>5. /\ a \o b \in Seq(Tenants) /\ Len(a \o b) = Len(a) + Len(b)
      /\ \A j \in 1 .. Len(a) + Len(b) : (a \o b)[j] = IF j <= Len(a) THEN a[j] ELSE b[j - Len(a)]
  BY <1>2, <1>3 DEF a, b
<1>6. Len(a) = i - 1 /\ Len(b) = Len(q) - i
  BY <1>2, <1>3 DEF a, b
<1>7. \A j \in 1 .. Len(q) - 1 : (a \o b)[j] = IF j < i THEN q[j] ELSE q[j + 1]
  <2> TAKE j \in 1 .. Len(q) - 1
  <2>1. CASE j < i
    <3>1. j \in 1 .. i - 1 /\ j <= Len(a) /\ j \in 1 .. Len(a) + Len(b)
      BY <1>1, <1>6, <2>1
    <3>2. (a \o b)[j] = a[j]
      BY <1>5, <3>1
    <3> QED
      BY <1>2, <2>1, <3>1, <3>2 DEF a
  <2>2. CASE ~ (j < i)
    <3>1. j - (i - 1) \in 1 .. Len(q) - i /\ ~ (j <= Len(a)) /\ j \in 1 .. Len(a) + Len(b)
      BY <1>1, <1>6, <2>2
    <3>2. (a \o b)[j] = b[j - (i - 1)]
      BY <1>5, <1>6, <3>1
    <3>3. b[j - (i - 1)] = q[i + (j - (i - 1))]
      BY <1>3, <3>1 DEF b
    <3>4. i + (j - (i - 1)) = j + 1
      BY <1>1
    <3> QED
      BY <2>2, <3>2, <3>3, <3>4
  <2> QED
    BY <2>1, <2>2
<1>8. Len(a \o b) = Len(q) - 1
  BY <1>1, <1>5, <1>6
<1> QED
  BY <1>4, <1>5, <1>7, <1>8

LEMMA LeftIs ==
  ASSUME NEW q \in Queues, NEW k \in ToSet(q)
  PROVE  LET r == RemoveAt(q, RankIn(q, k) + 1) IN
           /\ r \in Queues /\ ToSet(r) = ToSet(q) \ {k}
           /\ \A j \in ToSet(r) : RankIn(r, j) = IF RankIn(q, j) < RankIn(q, k) THEN RankIn(q, j) ELSE RankIn(q, j) - 1
<1> DEFINE i == RankIn(q, k) + 1
           r == RemoveAt(q, i)
<1>1. i \in DOMAIN q /\ q[i] = k /\ DOMAIN q = 1 .. Len(q) /\ Len(q) \in Nat
  BY RankIs DEF Queues
<1>2. /\ r \in Seq(Tenants) /\ Len(r) = Len(q) - 1 /\ DOMAIN r = 1 .. Len(r)
      /\ \A j \in DOMAIN r : r[j] = IF j < i THEN q[j] ELSE q[j + 1]
  <2> HIDE DEF i
  <2>1. /\ r \in Seq(Tenants) /\ Len(r) = Len(q) - 1
        /\ \A j \in 1 .. Len(r) : r[j] = IF j < i THEN q[j] ELSE q[j + 1]
    BY <1>1, RemovedIs
  <2> HIDE DEF r
  <2> QED
    BY <2>1
<1>d. \A a, b \in DOMAIN q : q[a] = q[b] => a = b
  BY DEF Queues, IsInjective
<1>3. IsInjective(r)
  BY <1>1, <1>2, <1>d DEF IsInjective
<1>4. r \in Queues
  BY <1>2, <1>3 DEF Queues
<1>5. ToSet(r) \subseteq ToSet(q) \ {k}
  <2> SUFFICES ASSUME NEW j \in DOMAIN r PROVE r[j] \in ToSet(q) /\ r[j] # k
    BY DEF ToSet
  <2>1. CASE j < i
    BY <1>1, <1>2, <1>d, <2>1 DEF ToSet
  <2>2. CASE ~ (j < i)
    BY <1>1, <1>2, <1>d, <2>2 DEF ToSet
  <2> QED
    BY <2>1, <2>2
<1>6. \A x \in ToSet(q) \ {k} :
        \E j \in DOMAIN r : r[j] = x /\ j - 1 = IF RankIn(q, x) < RankIn(q, k) THEN RankIn(q, x) ELSE RankIn(q, x) - 1
  <2> SUFFICES ASSUME NEW x \in ToSet(q) \ {k}
               PROVE  \E j \in DOMAIN r :
                        r[j] = x /\ j - 1 = IF RankIn(q, x) < RankIn(q, k) THEN RankIn(q, x) ELSE RankIn(q, x) - 1
    OBVIOUS
  <2> DEFINE n == RankIn(q, x) + 1
  <2>1. n \in DOMAIN q /\ q[n] = x /\ RankIn(q, x) = n - 1 /\ RankIn(q, k) = i - 1 /\ n # i /\ RankIn(q, x) \in Nat /\ RankIn(q, k) \in Nat
    BY <1>1, RankIs
  <2> HIDE DEF n, i, r
  <2>2. CASE n < i
    BY <1>1, <1>2, <2>1, <2>2
  <2>3. CASE n > i
    <3>1. n - 1 \in DOMAIN r /\ r[n - 1] = x
      BY <1>1, <1>2, <2>1, <2>3
    <3> QED
      BY <1>1, <2>1, <2>3, <3>1
  <2> QED
    BY <1>1, <2>1, <2>2, <2>3
<1>7. ToSet(r) = ToSet(q) \ {k}
  BY <1>5, <1>6 DEF ToSet
<1>8. \A j \in ToSet(r) : RankIn(r, j) = IF RankIn(q, j) < RankIn(q, k) THEN RankIn(q, j) ELSE RankIn(q, j) - 1
  <2> TAKE x \in ToSet(r)
  <2> PICK j \in DOMAIN r : r[j] = x /\ j - 1 = IF RankIn(q, x) < RankIn(q, k) THEN RankIn(q, x) ELSE RankIn(q, x) - 1
    BY <1>6, <1>7
  <2> QED
    BY <1>4, RankIs
<1> QED
  BY <1>4, <1>7, <1>8

LEMMA JoinedIs ==
  ASSUME waiting \in Queues, NEW k \in Tenants
  PROVE  /\ Joined(k) \in Queues /\ ToSet(Joined(k)) = ToSet(waiting) \union {k}
         /\ \A j \in ToSet(waiting) : RankIn(Joined(k), j) = RankIn(waiting, j)
         /\ k \notin ToSet(waiting) => \A j \in ToSet(waiting) : RankIn(waiting, j) < RankIn(Joined(k), k)
<1>1. CASE k \in ToSet(waiting)
  BY <1>1 DEF Joined
<1>2. CASE k \notin ToSet(waiting)
  <2> DEFINE q == Append(waiting, k)
  <2>1. Joined(k) = q
    BY <1>2 DEF Joined
  <2>2. /\ waiting \in Seq(Tenants) /\ Len(waiting) \in Nat /\ DOMAIN waiting = 1 .. Len(waiting)
        /\ q \in Seq(Tenants) /\ Len(q) = Len(waiting) + 1 /\ DOMAIN q = 1 .. Len(q)
        /\ q[Len(q)] = k /\ \A i \in DOMAIN waiting : q[i] = waiting[i]
    BY DEF Queues
  <2>3. \A i \in DOMAIN waiting : waiting[i] # k
    BY <1>2 DEF ToSet
  <2>d. \A a, b \in DOMAIN waiting : waiting[a] = waiting[b] => a = b
    BY DEF Queues, IsInjective
  <2> HIDE DEF q
  <2>4. IsInjective(q)
    <3> SUFFICES ASSUME NEW a \in DOMAIN q, NEW b \in DOMAIN q, q[a] = q[b] PROVE a = b
      BY DEF IsInjective
    <3>1. a \in DOMAIN waiting \/ a = Len(q)
      BY <2>2
    <3>2. b \in DOMAIN waiting \/ b = Len(q)
      BY <2>2
    <3> QED
      BY <2>2, <2>3, <2>d, <3>1, <3>2
  <2>5. q \in Queues
    BY <2>2, <2>4 DEF Queues
  <2>6. ToSet(q) = ToSet(waiting) \union {k}
    <3>1. DOMAIN q = DOMAIN waiting \union {Len(q)}
      BY <2>2
    <3> QED
      BY <2>2, <3>1 DEF ToSet
  <2>7. RankIn(q, k) = Len(waiting)
    BY <2>2, <2>5, <2>6, RankIs
  <2>8. \A j \in ToSet(waiting) : RankIn(q, j) = RankIn(waiting, j) /\ RankIn(waiting, j) < Len(waiting)
    <3> TAKE j \in ToSet(waiting)
    <3>1. RankIn(waiting, j) + 1 \in DOMAIN waiting /\ waiting[RankIn(waiting, j) + 1] = j /\ RankIn(waiting, j) \in Nat /\ RankIn(waiting, j) < Len(waiting)
      BY RankIs
    <3>2. RankIn(waiting, j) + 1 \in DOMAIN q /\ q[RankIn(waiting, j) + 1] = j
      BY <2>2, <3>1
    <3>3. RankIn(q, j) = RankIn(waiting, j) + 1 - 1
      BY <2>5, <2>6, <3>2, RankIs
    <3> QED
      BY <3>1, <3>3
  <2> QED
    BY <1>2, <2>1, <2>5, <2>6, <2>7, <2>8
<1> QED
  BY <1>1, <1>2

LEMMA LeaveIs ==
  ASSUME waiting \in Queues, NEW k \in Tenants, LeaveLine(k)
  PROVE  /\ waiting' \in Queues /\ ToSet(waiting') = ToSet(waiting) \ {k}
         /\ \A j \in ToSet(waiting') :
              RankIn(waiting', j) = IF k \in ToSet(waiting) /\ ~ (RankIn(waiting, j) < RankIn(waiting, k))
                                    THEN RankIn(waiting, j) - 1 ELSE RankIn(waiting, j)
<1>1. CASE k \in ToSet(waiting)
  BY <1>1, LeftIs DEF LeaveLine
<1>2. CASE k \notin ToSet(waiting)
  BY <1>2 DEF LeaveLine
<1> QED
  BY <1>1, <1>2

LEMMA QueuesAre == \A q : q \in Queues <=> q \in Seq(Tenants) /\ IsInjective(q)
  BY DEF Queues

\* Only a caller who vanished lets a lease run out.
LineInv == LineTypeOK /\ \A k \in expired : browser[k] = "vanished"

LEMMA LineStart == LineInit => LineInv
<1> SUFFICES ASSUME LineInit PROVE LineInv
  OBVIOUS
<1>1. << >> \in Queues /\ ToSet(<< >>) = {}
  BY DEF Queues, IsInjective, ToSet
<1> QED
  BY <1>1, QueuesAre DEF LineInit, LineInv, LineTypeOK

\* The counts of the holders
LEMMA HoldersAre ==
  ASSUME LineInv
  PROVE  /\ IsFiniteSet(AfterPurge) /\ Cardinality(AfterPurge) \in Nat /\ Cap \in Int
         /\ \A k : k \notin AfterPurge => Cardinality(AfterPurge \union {k}) = Cardinality(AfterPurge) + 1
         /\ \A S \in SUBSET AfterPurge : Cardinality(S) \in Nat /\ Cardinality(S) <= Cardinality(AfterPurge)
<1>1. IsFiniteSet(AfterPurge)
  BY WaitlistAssumption, FS_Subset DEF LineInv, LineTypeOK, AfterPurge
<1> QED
  BY <1>1, FS_CardinalityType, FS_AddElement, FS_Subset, WaitlistAssumption

\* What stays the same for a waiter when nothing worse happens than this.
LEMMA RoomIf ==
  ASSUME LineInv, NEW j \in Tenants, HasRoom(j), j \in ToSet(waiting'), NEW n \in Int, NEW m \in Int,
         RankIn(waiting', j) = RankIn(waiting, j) - n,
         Cardinality(holders' \ expired') = Cardinality(AfterPurge) + m, m <= n
  PROVE  HasRoom(j)'
<1>1. waiting \in Queues /\ j \in ToSet(waiting) /\ RankIn(waiting, j) < Cap - Cardinality(AfterPurge)
  BY QueuesAre DEF LineInv, LineTypeOK, HasRoom, AfterPurge
<1>2. RankIn(waiting, j) \in Nat /\ Cardinality(AfterPurge) \in Nat /\ Cap \in Int
  BY <1>1, RankIs, HoldersAre
<1> DEFINE r == RankIn(waiting', j)
           c == Cardinality(holders' \ expired')
<1>3. r < Cap - c
  BY <1>1, <1>2
<1> QED
  BY <1>3 DEF HasRoom

LEMMA GrantKeeps ==
  ASSUME LineInv, NEW k \in Tenants, browser[k] # "live", Grant(k),
         \/ k \in AfterPurge
         \/ k \in Priority
         \/ RankIn(Joined(k), k) < Cap - Cardinality(AfterPurge)
  PROVE  LineInv' /\ RoomStays
<1>1. /\ waiting \in Queues /\ browser \in [Tenants -> {"away", "queued", "live", "vanished"}]
      /\ browser' = [browser EXCEPT ![k] = "live"] /\ holders' = AfterPurge \union {k} /\ expired' = {}
      /\ LeaveLine(k)
  BY QueuesAre DEF LineInv, LineTypeOK, Grant, Set
<1>2. /\ waiting' \in Queues /\ ToSet(waiting') = ToSet(waiting) \ {k}
      /\ \A j \in ToSet(waiting') :
           RankIn(waiting', j) = IF k \in ToSet(waiting) /\ ~ (RankIn(waiting, j) < RankIn(waiting, k))
                                 THEN RankIn(waiting, j) - 1 ELSE RankIn(waiting, j)
  BY <1>1, LeaveIs
<1>3. LineInv'
  <2>1. holders' \subseteq Tenants /\ holders' \intersect ToSet(waiting') = {}
    BY <1>1, <1>2 DEF LineInv, LineTypeOK, AfterPurge
  <2>2. \A j \in Tenants : browser'[j] = "live" => j \in holders'
    BY <1>1 DEF LineInv, LineTypeOK, AfterPurge
  <2>3. browser' \in [Tenants -> {"away", "queued", "live", "vanished"}] /\ expired' = {}
    BY <1>1
  <2>4. waiting' \in Seq(Tenants) /\ IsInjective(waiting')
    BY <1>2, QueuesAre
  <2> QED
    BY <2>1, <2>2, <2>3, <2>4 DEF LineInv, LineTypeOK
<1>4. RoomStays
  <2> SUFFICES ASSUME NEW j \in Tenants, HasRoom(j), j \in ToSet(waiting'), ~ PastTheLine
               PROVE  HasRoom(j)'
    BY DEF RoomStays
  <2>1. AfterPurge' = AfterPurge \union {k} /\ holders' \ expired' = AfterPurge \union {k}
    BY <1>1 DEF AfterPurge
  <2>2. CASE k \in AfterPurge
    <3>1. k \notin ToSet(waiting) /\ holders' \ expired' = AfterPurge
      BY <2>1, <2>2 DEF LineInv, LineTypeOK, AfterPurge
    <3>2. RankIn(waiting, j) \in Nat /\ RankIn(waiting', j) = RankIn(waiting, j)
      BY <1>1, <1>2, <3>1, RankIs DEF HasRoom
    <3>3. Cardinality(holders' \ expired') = Cardinality(AfterPurge) /\ Cardinality(AfterPurge) \in Nat
      BY <3>1, HoldersAre
    <3>4. /\ RankIn(waiting', j) = RankIn(waiting, j) - 0
          /\ Cardinality(holders' \ expired') = Cardinality(AfterPurge) + 0
      BY <3>2, <3>3
    <3> QED
      BY <3>4, RoomIf
  <2>3. CASE k \notin AfterPurge
    <3>1. k \notin Priority /\ RankIn(Joined(k), k) < Cap - Cardinality(AfterPurge)
      BY <2>1, <2>3 DEF PastTheLine
    <3>2. Cardinality(holders' \ expired') = Cardinality(AfterPurge) + 1 /\ Cardinality(AfterPurge) \in Nat /\ Cap \in Int
      BY <2>1, <2>3, HoldersAre
    <3>3. j \in ToSet(waiting) /\ j # k /\ RankIn(waiting, j) \in Nat
      BY <1>1, <1>2, RankIs DEF HasRoom
    <3>4. CASE k \in ToSet(waiting) /\ ~ (RankIn(waiting, j) < RankIn(waiting, k))
      <4>1. RankIn(waiting', j) = RankIn(waiting, j) - 1
        BY <1>2, <3>4
      <4> QED
        BY <3>2, <4>1, RoomIf
    <3>5. CASE ~ (k \in ToSet(waiting) /\ ~ (RankIn(waiting, j) < RankIn(waiting, k)))
      <4>1. RankIn(waiting, j) < RankIn(Joined(k), k) /\ RankIn(Joined(k), k) \in Nat
        BY <1>1, <3>3, <3>5, JoinedIs, RankIs
      <4>2. RankIn(waiting', j) = RankIn(waiting, j)
        BY <1>2, <3>5
      <4> DEFINE a == RankIn(waiting', j)
                 c == Cardinality(holders' \ expired')
      <4>3. a < Cap - c
        BY <3>1, <3>2, <3>3, <4>1, <4>2
      <4> QED
        BY <4>3 DEF HasRoom
    <3> QED
      BY <3>4, <3>5
  <2> QED
    BY <2>2, <2>3
<1> QED
  BY <1>3, <1>4

LEMMA AcquireKeeps ==
  ASSUME LineInv, NEW k \in Tenants, browser[k] # "live", Acquire(k)
  PROVE  LineInv' /\ RoomStays
<1> DEFINE free == \/ k \in AfterPurge
                   \/ k \in Priority
                   \/ RankIn(Joined(k), k) < Cap - Cardinality(AfterPurge)
<1>1. CASE free
  BY <1>1, GrantKeeps DEF Acquire
<1>2. CASE ~ free
  <2>1. /\ waiting \in Queues /\ browser \in [Tenants -> {"away", "queued", "live", "vanished"}]
        /\ browser' = [browser EXCEPT ![k] = "queued"] /\ holders' = AfterPurge /\ expired' = {}
        /\ waiting' = Joined(k) /\ k \notin AfterPurge
    BY <1>2, QueuesAre DEF LineInv, LineTypeOK, Acquire, Set
  <2>2. /\ waiting' \in Queues /\ ToSet(waiting') = ToSet(waiting) \union {k}
        /\ \A j \in ToSet(waiting) : RankIn(waiting', j) = RankIn(waiting, j)
    BY <2>1, JoinedIs
  <2>3. LineInv'
    <3>1. holders' \subseteq Tenants /\ holders' \intersect ToSet(waiting') = {}
      BY <2>1, <2>2 DEF LineInv, LineTypeOK, AfterPurge
    <3>2. \A j \in Tenants : browser'[j] = "live" => j \in holders'
      BY <2>1 DEF LineInv, LineTypeOK, AfterPurge
    <3>3. waiting' \in Seq(Tenants) /\ IsInjective(waiting')
      BY <2>2, QueuesAre
    <3> QED
      BY <2>1, <3>1, <3>2, <3>3 DEF LineInv, LineTypeOK
  <2>4. RoomStays
    <3> SUFFICES ASSUME NEW j \in Tenants, HasRoom(j), j \in ToSet(waiting') PROVE HasRoom(j)'
      BY DEF RoomStays
    <3>1. holders' \ expired' = AfterPurge
      BY <2>1
    <3>2. /\ RankIn(waiting', j) = RankIn(waiting, j) - 0
          /\ Cardinality(holders' \ expired') = Cardinality(AfterPurge) + 0
      BY <2>1, <2>2, <3>1, RankIs, HoldersAre DEF HasRoom
    <3> QED
      BY <3>2, RoomIf
  <2> QED
    BY <2>3, <2>4
<1> QED
  BY <1>1, <1>2

LEMMA StopKeeps ==
  ASSUME LineInv, NEW k \in Tenants, Stop(k)
  PROVE  LineInv' /\ RoomStays
<1>1. /\ waiting \in Queues /\ browser \in [Tenants -> {"away", "queued", "live", "vanished"}]
      /\ browser' = [browser EXCEPT ![k] = "away"] /\ holders' = holders \ {k} /\ expired' = expired \ {k}
      /\ LeaveLine(k)
  BY QueuesAre DEF LineInv, LineTypeOK, Stop, Set
<1>2. /\ waiting' \in Queues /\ ToSet(waiting') = ToSet(waiting) \ {k}
      /\ \A j \in ToSet(waiting') :
           RankIn(waiting', j) = IF k \in ToSet(waiting) /\ ~ (RankIn(waiting, j) < RankIn(waiting, k))
                                 THEN RankIn(waiting, j) - 1 ELSE RankIn(waiting, j)
  BY <1>1, LeaveIs
<1>3. LineInv'
  <2>1. holders' \subseteq Tenants /\ holders' \intersect ToSet(waiting') = {} /\ expired' \subseteq holders'
    BY <1>1, <1>2 DEF LineInv, LineTypeOK
  <2>2. \A j \in Tenants : browser'[j] = "live" => j \in holders'
    BY <1>1 DEF LineInv, LineTypeOK
  <2>3. \A j \in expired' : browser'[j] = "vanished"
    BY <1>1 DEF LineInv, LineTypeOK
  <2>4. waiting' \in Seq(Tenants) /\ IsInjective(waiting')
    BY <1>2, QueuesAre
  <2> QED
    BY <1>1, <2>1, <2>2, <2>3, <2>4 DEF LineInv, LineTypeOK
<1>4. RoomStays
  <2> SUFFICES ASSUME NEW j \in Tenants, HasRoom(j), j \in ToSet(waiting') PROVE HasRoom(j)'
    BY DEF RoomStays
  <2>1. holders' \ expired' \subseteq AfterPurge
    BY <1>1 DEF AfterPurge
  <2>2. j \in ToSet(waiting) /\ RankIn(waiting, j) \in Nat
    BY <1>1, RankIs DEF HasRoom
  <2> DEFINE c == Cardinality(holders' \ expired')
             C == Cardinality(AfterPurge)
             r == RankIn(waiting, j)
             q == RankIn(waiting', j)
  <2>3. c \in Nat /\ c <= C /\ C \in Nat /\ q = r - (r - q) /\ c = C + (c - C) /\ r - q \in {0, 1}
    <3>1. q = r \/ q = r - 1
      BY <1>2
    <3>2. c \in Nat /\ c <= C /\ C \in Nat
      BY <2>1, HoldersAre
    <3> HIDE DEF c, C, r, q
    <3>3. r \in Nat
      BY <2>2 DEF r
    <3> QED
      BY <3>1, <3>2, <3>3
  <2>4. r - q \in Int /\ c - C \in Int /\ c - C <= r - q
    <3> HIDE DEF c, C, r, q
    <3> QED
      BY <2>3
  <2> QED
    BY <2>3, <2>4, RoomIf
<1> QED
  BY <1>3, <1>4

LEMMA SilenceKeeps ==
  ASSUME LineInv, NEW k \in Tenants, Vanish(k) \/ Expire(k)
  PROVE  LineInv' /\ RoomStays
<1>1. /\ waiting' = waiting /\ holders' = holders /\ expired' \in {expired, expired \union {k}}
      /\ \/ browser' = browser /\ browser[k] = "vanished" /\ k \in holders
         \/ browser' = [browser EXCEPT ![k] = "vanished"] /\ expired' = expired
  BY DEF Vanish, Expire, Set
<1>2. LineInv'
  BY <1>1 DEF LineInv, LineTypeOK
<1>3. RoomStays
  <2> SUFFICES ASSUME NEW j \in Tenants, HasRoom(j) PROVE HasRoom(j)'
    BY DEF RoomStays
  <2>1. holders' \ expired' \subseteq AfterPurge
    BY <1>1 DEF AfterPurge
  <2> DEFINE c == Cardinality(holders' \ expired')
             C == Cardinality(AfterPurge)
             r == RankIn(waiting, j)
  <2>2. c \in Nat /\ c <= C /\ C \in Nat /\ Cap \in Int
    BY <2>1, HoldersAre
  <2>3. waiting \in Queues /\ j \in ToSet(waiting) /\ r < Cap - C
    BY QueuesAre DEF LineInv, LineTypeOK, HasRoom, AfterPurge
  <2>4. r \in Nat
    BY <2>3, RankIs
  <2>5. r < Cap - c
    <3> HIDE DEF c, C, r
    <3> QED
      BY <2>2, <2>3, <2>4
  <2> QED
    BY <1>1, <2>3, <2>5 DEF HasRoom
<1> QED
  BY <1>2, <1>3

LEMMA LineKeeps == LineInv /\ [LineNext]_lineVars => LineInv' /\ [RoomStays]_lineVars
<1> SUFFICES ASSUME LineInv, [LineNext]_lineVars PROVE LineInv' /\ [RoomStays]_lineVars
  OBVIOUS
<1>1. CASE LineNext
  BY <1>1, AcquireKeeps, StopKeeps, SilenceKeeps DEF LineNext, Start, Poll
<1>2. CASE UNCHANGED lineVars
  BY <1>2 DEF lineVars, LineInv, LineTypeOK
<1> QED
  BY <1>1, <1>2

\* For however many callers, slots and allowlisted tenants: one place for each
\* caller, a slot or a place but never both, and once there is room for a waiter
\* nobody but an allowlisted caller can take it.
THEOREM LineIsInOrder == LineSpec => []LineTypeOK /\ RoomIsKept
<1>1. LineInv => LineTypeOK
  BY DEF LineInv
<1> QED
  BY <1>1, LineStart, LineKeeps, PTL DEF LineSpec, RoomIsKept

----------------------------------------------------------------------------
(*************************************************************************)
(* The evaluation: what is reported is what happened.                    *)
(*************************************************************************)

EvalSafe == EvalTypeOK /\ DoneIsRecognised

Talking == {"agent", "tools", "reply"}
Texts == {"line", "bye", "words", "price", ""}

EvalTyped ==
  /\ evalAt \in {"start", "next", "caller", "agent", "tools", "reply", "scoring", "done"}
  /\ scenario \in 0 .. SuiteLength /\ wanted \in Outcomes
  /\ empty \in BOOLEAN /\ error \in BOOLEAN
  /\ calls \subseteq [tool : EvalTools, contact : BOOLEAN]
  /\ did \subseteq EvalTools \X {"done", "empty", "failed", "unknown"}

\* The calls of an answer are counted down to the reply, and a scenario fails once.
CountsRight ==
  /\ failures \in Nat /\ todo \in 0 .. MaxCalls /\ (evalAt = "tools" => todo > 0)
  /\ failures <= scenario + 1
  /\ evalAt = "start" => scenario = 0
  /\ evalAt = "next" => failures <= scenario
  /\ evalAt \in Talking \union {"caller", "scoring"} => failures < scenario

\* Whose turn it is can be told from the transcript, which is over with a goodbye.
TurnsAlternate ==
  /\ transcript \in Seq([role : {"user", "assistant"}, text : Texts])
  /\ Len(transcript) <= 2 * MaxTurns
  /\ evalAt \in {"start", "next"} => transcript = << >>
  /\ evalAt = "caller" => Len(transcript) % 2 = 0
  /\ evalAt \in Talking => Len(transcript) % 2 = 1
  /\ \A i \in DOMAIN transcript :
       /\ transcript[i].role = IF i % 2 = 1 THEN "user" ELSE "assistant"
       /\ transcript[i].text = "bye" => i = Len(transcript) /\ evalAt \notin Talking \union {"caller"}

\* What was called is what came to something; a lookup that found nothing is
\* remembered, and a booking is made with a name and a phone only.
CallsAreKnown ==
  /\ \A d \in did : \E c \in calls : c.tool = d[1]
  /\ \A c \in calls : c.tool # "search_knowledge" =>
       \E o \in {"done", "failed", "unknown"} : <<c.tool, o>> \in did
  /\ empty <=> Came("search_knowledge", {"empty"})
  /\ Came("book_appointment", {"done"}) => \E c \in calls : c.tool = "book_appointment" /\ c.contact
  /\ \A t \in Unoffered : ~ Came(t, {"done"})

EvalInv == EvalTyped /\ CountsRight /\ TurnsAlternate /\ CallsAreKnown

LEMMA EvalStart == EvalInit => EvalInv
<1> SUFFICES ASSUME EvalInit PROVE EvalInv
  OBVIOUS
<1>1. EvalTyped
  <2>1. 0 \in 0 .. SuiteLength
    BY SuiteAssumption
  <2>2. wanted \in Outcomes
    BY DEF EvalInit, Outcomes
  <2> QED
    BY <2>1, <2>2 DEF EvalInit, EvalTyped
<1>2. CountsRight /\ TurnsAlternate
  BY SuiteAssumption DEF EvalInit, CountsRight, TurnsAlternate, Talking
<1>3. CallsAreKnown
  BY DEF EvalInit, CallsAreKnown, Came
<1> QED
  BY <1>1, <1>2, <1>3 DEF EvalInv

LEMMA EvalInvIsSafe == EvalInv => EvalSafe
<1> SUFFICES ASSUME EvalInv PROVE EvalSafe
  OBVIOUS
<1>1. EvalTypeOK
  BY DEF EvalInv, EvalTyped, CountsRight, TurnsAlternate, EvalTypeOK
<1>2. DoneIsRecognised
  <2> SUFFICES ASSUME wanted \in DOMAIN OutcomeTool, Came(OutcomeTool[wanted], {"done"}),
                      ~ (SaidPrice /\ Came("search_knowledge", {"empty"})),
                      ~ (wanted = "message_taken" /\ \A c \in calls : ~c.contact)
               PROVE  Passes(FALSE)
    BY DEF DoneIsRecognised
  <2>1. TaskSuccess
    <3>1. \E c \in calls : c.tool = OutcomeTool[wanted]
      BY DEF EvalInv, CallsAreKnown, Came
    <3> QED
      BY <3>1 DEF TaskSuccess, OutcomeTool
  <2>2. NoUnsupportedPrice
    BY DEF EvalInv, CallsAreKnown, NoUnsupportedPrice
  <2>3. CapturedContact
    <3>1. CASE wanted = "booked"
      BY <3>1 DEF EvalInv, CallsAreKnown, CapturedContact, OutcomeTool
    <3>2. CASE wanted = "rescheduled"
      BY <3>2 DEF EvalInv, CallsAreKnown, OutcomeTool, Unoffered
    <3>3. CASE wanted = "message_taken"
      BY <3>3 DEF CapturedContact
    <3>4. CASE wanted \notin NeedsContact
      BY <3>4 DEF CapturedContact
    <3> QED
      BY <3>1, <3>2, <3>3, <3>4 DEF NeedsContact
  <2> QED
    BY <2>1, <2>2, <2>3 DEF Passes
<1> QED
  BY <1>1, <1>2 DEF EvalSafe

\* A line is added: the turn passes to the other.
LEMMA SaidIs ==
  ASSUME EvalInv, NEW role \in {"user", "assistant"}, NEW text \in Texts, Say(role, text),
         Len(transcript) < 2 * MaxTurns,
         Len(transcript) % 2 = IF role = "user" THEN 0 ELSE 1,
         evalAt \in Talking \union {"caller"},
         evalAt' \in Talking \union {"caller", "scoring"}, evalAt' = "caller" => Len(transcript) % 2 = 1,
         evalAt' \in Talking => Len(transcript) % 2 = 0,
         text = "bye" => evalAt' \notin Talking \union {"caller"}
  PROVE  TurnsAlternate'
<1> DEFINE line == [role |-> role, text |-> text]
<1>1. /\ transcript \in Seq([role : {"user", "assistant"}, text : Texts]) /\ Len(transcript) \in Nat
      /\ DOMAIN transcript = 1 .. Len(transcript)
      /\ line \in [role : {"user", "assistant"}, text : Texts] /\ transcript' = Append(transcript, line)
  BY DEF EvalInv, TurnsAlternate, Say
<1>2. /\ transcript' \in Seq([role : {"user", "assistant"}, text : Texts]) /\ Len(transcript') = Len(transcript) + 1
      /\ DOMAIN transcript' = 1 .. Len(transcript) + 1 /\ transcript'[Len(transcript) + 1] = line
      /\ \A i \in 1 .. Len(transcript) : transcript'[i] = transcript[i]
  BY <1>1
<1>3. line.role = role /\ line.text = text
  OBVIOUS
<1> HIDE DEF line
<1>4. Len(transcript') <= 2 * MaxTurns
  <2>1. MaxTurns \in Nat
    BY SuiteAssumption
  <2>2. Len(transcript') = Len(transcript) + 1 /\ Len(transcript) \in Nat
    BY <1>1, <1>2
  <2> QED
    BY <2>1, <2>2
<1>5. (Len(transcript) + 1) % 2 = 1 - (Len(transcript) % 2) /\ Len(transcript) % 2 \in {0, 1}
  BY <1>1
<1>6. /\ evalAt' = "caller" => Len(transcript') % 2 = 0
      /\ evalAt' \in Talking => Len(transcript') % 2 = 1
  BY <1>2, <1>5
<1>7. \A i \in DOMAIN transcript' :
        /\ transcript'[i].role = IF i % 2 = 1 THEN "user" ELSE "assistant"
        /\ transcript'[i].text = "bye" => i = Len(transcript') /\ evalAt' \notin Talking \union {"caller"}
  <2> SUFFICES ASSUME NEW i \in DOMAIN transcript'
               PROVE  /\ transcript'[i].role = IF i % 2 = 1 THEN "user" ELSE "assistant"
                      /\ transcript'[i].text = "bye" => i = Len(transcript') /\ evalAt' \notin Talking \union {"caller"}
    OBVIOUS
  <2>1. CASE i \in 1 .. Len(transcript)
    <3>1. transcript[i].role = IF i % 2 = 1 THEN "user" ELSE "assistant"
      BY <1>1, <2>1 DEF EvalInv, TurnsAlternate
    <3>2. transcript[i].text # "bye"
      BY <1>1, <2>1 DEF EvalInv, TurnsAlternate
    <3> QED
      BY <1>2, <2>1, <3>1, <3>2
  <2>2. CASE i = Len(transcript) + 1
    <3>1. transcript'[i] = line
      BY <1>2, <2>2
    <3>2. role = IF i % 2 = 1 THEN "user" ELSE "assistant"
      BY <1>5, <2>2
    <3> QED
      BY <1>2, <1>3, <2>2, <3>1, <3>2
  <2> QED
    BY <1>1, <1>2, <2>1, <2>2
<1>8. evalAt' \notin {"start", "next"}
  BY DEF Talking
<1> QED
  BY <1>2, <1>4, <1>6, <1>7, <1>8 DEF TurnsAlternate

LEMMA SuiteKeeps == EvalInv /\ (OpenSuite \/ BeginScenario \/ EndSuite) => EvalInv'
<1> SUFFICES ASSUME EvalInv, OpenSuite \/ BeginScenario \/ EndSuite PROVE EvalInv'
  OBVIOUS
<1>1. EvalTyped'
  <2>1. scenario' \in 0 .. SuiteLength
    BY SuiteAssumption DEF EvalInv, EvalTyped, OpenSuite, BeginScenario, EndSuite
  <2> QED
    BY <2>1 DEF EvalInv, EvalTyped, OpenSuite, BeginScenario, EndSuite
<1>2. CountsRight'
  BY SuiteAssumption DEF EvalInv, EvalTyped, CountsRight, Talking, OpenSuite, BeginScenario, EndSuite
<1>3. CallsAreKnown'
  BY DEF EvalInv, CallsAreKnown, Came, OpenSuite, BeginScenario, EndSuite
<1>4. TurnsAlternate'
  BY SuiteAssumption DEF EvalInv, TurnsAlternate, Talking, OpenSuite, BeginScenario, EndSuite
<1> QED
  BY <1>1, <1>2, <1>3, <1>4 DEF EvalInv

\* No more than the place in the conversation changes.
LEMMA PlaceKeeps ==
  ASSUME EvalInv, evalAt \in Talking \union {"caller"}, evalAt' \in Talking \union {"caller", "scoring"},
         UNCHANGED <<scenario, wanted, calls, empty, failures, did>>,
         error' \in BOOLEAN, todo' \in 0 .. MaxCalls, evalAt' = "tools" => todo' > 0
  PROVE  EvalTyped' /\ CountsRight' /\ CallsAreKnown'
<1>1. EvalTyped'
  BY DEF EvalInv, EvalTyped, Talking
<1>2. CountsRight'
  BY DEF EvalInv, CountsRight, Talking
<1>3. CallsAreKnown'
  BY DEF EvalInv, CallsAreKnown, Came
<1> QED
  BY <1>1, <1>2, <1>3

LEMMA OddIsLess == \A n, m \in Nat : n <= 2 * m /\ n % 2 = 1 => n < 2 * m
  OBVIOUS

LEMMA WordsKeep == EvalInv /\ (CallerSpeaks \/ AgentAnswers \/ AgentReplies) => EvalInv'
<1> SUFFICES ASSUME EvalInv, CallerSpeaks \/ AgentAnswers \/ AgentReplies PROVE EvalInv'
  OBVIOUS
<1>1. /\ UNCHANGED <<scenario, wanted, calls, empty, error, todo, failures, did>>
      /\ evalAt \in {"caller", "agent", "reply"} /\ evalAt' \in {"caller", "agent", "scoring"}
  BY DEF CallerSpeaks, AgentAnswers, AgentReplies, AgentSays
<1>2. EvalTyped' /\ CountsRight' /\ CallsAreKnown'
  BY <1>1, PlaceKeeps DEF EvalInv, EvalTyped, CountsRight, Talking
<1>3. /\ Len(transcript) \in Nat /\ Len(transcript) <= 2 * MaxTurns /\ MaxTurns \in Nat
      /\ evalAt = "caller" => Len(transcript) % 2 = 0
      /\ evalAt \in Talking => Len(transcript) % 2 = 1
  BY SuiteAssumption DEF EvalInv, TurnsAlternate
<1>4. TurnsAlternate'
  <2>1. CASE CallerSpeaks
    <3>1. PICK text \in {"line", "bye"} :
            Say("user", text) /\ evalAt' = IF text = "bye" THEN "scoring" ELSE "agent"
      BY <2>1 DEF CallerSpeaks
    <3>2. evalAt = "caller" /\ Len(transcript) % 2 = 0 /\ Len(transcript) < 2 * MaxTurns
      <4>1. CASE Len(transcript) = 0
        BY <1>3, <2>1, <4>1 DEF CallerSpeaks, Turns
      <4>2. CASE Len(transcript) # 0
        <5>1. transcript # << >>
          BY <4>2
        <5>2. (Len(transcript) + 1) \div 2 < MaxTurns
          BY <2>1, <5>1 DEF CallerSpeaks, Turns
        <5> QED
          BY <1>3, <2>1, <5>2 DEF CallerSpeaks
      <4> QED
        BY <4>1, <4>2
    <3> QED
      BY <3>1, <3>2, SaidIs DEF Texts, Talking
  <2>2. CASE AgentAnswers \/ AgentReplies
    <3>1. PICK text \in {"words", "price", ""} : Say("assistant", text)
      BY <2>2 DEF AgentAnswers, AgentReplies, AgentSays
    <3>2. evalAt \in Talking /\ evalAt' = "caller" /\ Len(transcript) % 2 = 1
      BY <1>3, <2>2 DEF AgentAnswers, AgentReplies, AgentSays, Talking
    <3>3. Len(transcript) < 2 * MaxTurns
      BY <1>3, <3>2, OddIsLess
    <3>4. text \in Texts /\ text # "bye" /\ evalAt' \notin Talking
      BY <3>2 DEF Texts, Talking
    <3>5. Len(transcript) % 2 = IF "assistant" = "user" THEN 0 ELSE 1
      BY <3>2
    <3> QED
      BY <3>1, <3>2, <3>3, <3>4, <3>5, SaidIs
  <2> QED
    BY <2>1, <2>2
<1> QED
  BY <1>2, <1>4 DEF EvalInv

LEMMA TurnsKeep == EvalInv /\ (OutOfTurns \/ AgentCalls \/ ModelFails) => EvalInv'
<1> SUFFICES ASSUME EvalInv, OutOfTurns \/ AgentCalls \/ ModelFails PROVE EvalInv'
  OBVIOUS
<1>1. /\ UNCHANGED <<scenario, wanted, calls, empty, failures, did, transcript>>
      /\ evalAt \in {"caller", "agent", "reply"} /\ evalAt' \in {"scoring", "tools"}
      /\ evalAt' = "tools" => evalAt = "agent"
      /\ error' \in BOOLEAN
  BY DEF OutOfTurns, AgentCalls, ModelFails, EvalInv, EvalTyped
<1>2. todo' \in 0 .. MaxCalls /\ (evalAt' = "tools" => todo' > 0)
  BY SuiteAssumption DEF OutOfTurns, AgentCalls, ModelFails, EvalInv, CountsRight
<1>3. EvalTyped' /\ CountsRight' /\ CallsAreKnown'
  BY <1>1, <1>2, PlaceKeeps DEF Talking
<1>4. TurnsAlternate'
  BY <1>1 DEF EvalInv, TurnsAlternate, Talking
<1> QED
  BY <1>3, <1>4 DEF EvalInv

LEMMA DispatchKeeps == EvalInv /\ Dispatch => EvalInv'
<1> SUFFICES ASSUME EvalInv, Dispatch PROVE EvalInv'
  OBVIOUS
<1>1. PICK used \in EvalTools, contact \in BOOLEAN : \E o \in Comes(used, contact) :
        /\ calls' = calls \union {[tool |-> used, contact |-> contact]}
        /\ empty' = EmptyAfter(o) /\ did' = did \union {<<used, o>>}
  BY DEF Dispatch
<1>2. PICK o \in Comes(used, contact) :
        /\ calls' = calls \union {[tool |-> used, contact |-> contact]}
        /\ empty' = EmptyAfter(o) /\ did' = did \union {<<used, o>>}
  BY <1>1
<1>3. /\ o \in {"done", "empty", "failed", "unknown"}
      /\ o = "empty" => used = "search_knowledge"
      /\ used = "book_appointment" /\ o = "done" => contact
      /\ used \in Unoffered => o = "unknown"
  BY DEF Comes, Unoffered
<1>4. EvalTyped'
  BY <1>2, <1>3 DEF EvalInv, EvalTyped, Dispatch, EmptyAfter
<1>5. CountsRight'
  BY SuiteAssumption DEF EvalInv, CountsRight, Dispatch, Talking
<1>6. TurnsAlternate'
  BY DEF EvalInv, TurnsAlternate, Dispatch, Talking
<1>7. CallsAreKnown'
  <2> DEFINE call == [tool |-> used, contact |-> contact]
  <2>1. call.tool = used /\ call.contact = contact /\ call \in calls' /\ calls' = calls \union {call}
    BY <1>2
  <2> HIDE DEF call
  <2>2. \A d \in did' : \E c \in calls' : c.tool = d[1]
    BY <1>2, <2>1 DEF EvalInv, CallsAreKnown
  <2>3. \A c \in calls' : c.tool # "search_knowledge" => \E p \in {"done", "failed", "unknown"} : <<c.tool, p>> \in did'
    BY <1>2, <1>3, <2>1 DEF EvalInv, CallsAreKnown
  <2>4. empty' <=> <<"search_knowledge", "empty">> \in did'
    BY <1>2, <1>3 DEF EvalInv, EvalTyped, CallsAreKnown, Came, EmptyAfter
  <2>5. <<"book_appointment", "done">> \in did' => \E c \in calls' : c.tool = "book_appointment" /\ c.contact
    BY <1>2, <1>3, <2>1 DEF EvalInv, CallsAreKnown, Came
  <2>6. \A t \in Unoffered : <<t, "done">> \notin did'
    BY <1>2, <1>3 DEF EvalInv, CallsAreKnown, Came
  <2> QED
    BY <2>2, <2>3, <2>4, <2>5, <2>6 DEF CallsAreKnown, Came
<1> QED
  BY <1>4, <1>5, <1>6, <1>7 DEF EvalInv

LEMMA ScoreKeeps == EvalInv /\ (\E slow \in BOOLEAN : Score(slow)) => EvalInv'
<1> SUFFICES ASSUME EvalInv, NEW slow \in BOOLEAN, Score(slow) PROVE EvalInv'
  OBVIOUS
<1>1. /\ evalAt = "scoring" /\ evalAt' = "next" /\ failures' \in {failures, failures + 1}
      /\ transcript' = << >> /\ calls' = {} /\ empty' = FALSE /\ error' = FALSE /\ did' = {}
      /\ UNCHANGED <<scenario, wanted, todo>>
  BY DEF Score
<1>2. EvalTyped'
  BY <1>1 DEF EvalInv, EvalTyped
<1>3. CountsRight'
  BY <1>1 DEF EvalInv, EvalTyped, CountsRight, Talking
<1>4. TurnsAlternate'
  BY <1>1, SuiteAssumption DEF TurnsAlternate, Talking
<1>5. CallsAreKnown'
  BY <1>1 DEF CallsAreKnown, Came
<1> QED
  BY <1>2, <1>3, <1>4, <1>5 DEF EvalInv

\* Two lines of the agent are two turns.
LEMMA TwoLinesAreTwoTurns ==
  ASSUME EvalInv, NEW i \in Lines("assistant"), NEW j \in Lines("assistant"), i # j
  PROVE  Len(transcript) > 3
<1>1. Len(transcript) \in Nat /\ DOMAIN transcript = 1 .. Len(transcript)
  BY DEF EvalInv, TurnsAlternate
<1>2. i \in 1 .. Len(transcript) /\ i % 2 # 1 /\ j \in 1 .. Len(transcript) /\ j % 2 # 1
  BY <1>1 DEF EvalInv, TurnsAlternate, Lines
<1> QED
  BY <1>1, <1>2

LEMMA PassesAreEarned == EvalInv /\ EvalNext => PassIsEarned
<1> SUFFICES ASSUME EvalInv, EvalNext, evalAt = "scoring", failures' = failures
             PROVE  /\ Came("search_knowledge", {"empty"}) => ~SaidPrice
                    /\ wanted = "answered" =>
                         ~error /\ (Len(transcript) > 3 \/ \E i \in Lines("assistant") : transcript[i].text # "")
                    /\ wanted \in DOMAIN OutcomeTool => Came(OutcomeTool[wanted], {"done", "failed", "unknown"})
                    /\ wanted \in NeedsContact => \E c \in calls : c.contact
  BY DEF PassIsEarned
<1>1. PICK slow \in BOOLEAN : Score(slow)
  BY DEF EvalNext, OpenSuite, BeginScenario, EndSuite, Conversation, CallerSpeaks, OutOfTurns, AgentAnswers,
         AgentCalls, Dispatch, AgentReplies, ModelFails
<1>2. Passes(slow)
  <2>1. failures \in Nat /\ failures' = IF Passes(slow) THEN failures ELSE failures + 1
    BY <1>1 DEF EvalInv, CountsRight, Score
  <2> QED
    BY <2>1
<1>3. TaskSuccess /\ NoUnsupportedPrice /\ CapturedContact
  BY <1>2 DEF Passes
<1>4. Came("search_knowledge", {"empty"}) => ~SaidPrice
  BY <1>3 DEF NoUnsupportedPrice, EvalInv, CallsAreKnown
<1>5. ASSUME wanted = "answered"
      PROVE  ~error /\ (Len(transcript) > 3 \/ \E i \in Lines("assistant") : transcript[i].text # "")
  BY <1>3, <1>5, TwoLinesAreTwoTurns DEF TaskSuccess, Answered
<1>6. ASSUME wanted \in DOMAIN OutcomeTool
      PROVE  Came(OutcomeTool[wanted], {"done", "failed", "unknown"})
  <2>1. PICK c \in calls : c.tool = OutcomeTool[wanted]
    BY <1>3, <1>6 DEF TaskSuccess, OutcomeTool
  <2>2. OutcomeTool[wanted] # "search_knowledge"
    BY <1>6 DEF OutcomeTool
  <2> QED
    BY <2>1, <2>2 DEF EvalInv, CallsAreKnown, Came
<1>7. wanted \in NeedsContact => \E c \in calls : c.contact
  BY <1>3 DEF CapturedContact
<1> QED
  BY <1>4, <1>5, <1>6, <1>7

LEMMA EvalKeeps == EvalInv /\ [EvalNext]_evalVars => EvalInv'
<1> SUFFICES ASSUME EvalInv, [EvalNext]_evalVars PROVE EvalInv'
  OBVIOUS
<1>1. CASE EvalNext
  BY <1>1, SuiteKeeps, WordsKeep, TurnsKeep, DispatchKeeps, ScoreKeeps DEF EvalNext, Conversation
<1>2. CASE UNCHANGED evalVars
  BY <1>2 DEF evalVars, EvalInv, EvalTyped, CountsRight, TurnsAlternate, CallsAreKnown, Came
<1> QED
  BY <1>1, <1>2

\* Whatever the length of the suite, of a conversation and of an answer: the two
\* speak in turn, what was done is recognised, and a scenario that passes said no
\* unsupported price and tried what was wanted; for an answer passes, besides a
\* line of the agent, its silence through two turns.
THEOREM ScoresAreEarned == EvalSpec => []EvalSafe /\ [][PassIsEarned]_evalVars
<1> QED
  BY EvalStart, EvalKeeps, EvalInvIsSafe, PassesAreEarned, PTL DEF EvalSpec

----------------------------------------------------------------------------
(*************************************************************************)
(* Seeding: nothing twice, and everything once.                          *)
(*************************************************************************)

SeedSafe == SeedTypeOK /\ SeededOnce

Places == Parts \union {"idle", "commit", "ok", "failed"}
Ended == {r \in Seeders : seeding[r].at = "ok"}

\* Whether a run has the part behind it: the row was there or it has added one.
Stage ==
  [idle |-> 0, ok |-> 0, failed |-> 0, tenant |-> 1, agent |-> 2, docs |-> 3, user |-> 4, sample |-> 5, commit |-> 6]
Behind(at, p) == Stage[at] > Stage[p]

RunsTyped ==
  /\ bare \in {"never", "signed up", "emptied"}
  /\ seeding \in [Seeders -> [at : Places, missing : BOOLEAN, new : SUBSET Parts]]
  /\ \A r \in Seeders, p \in Parts : p \in seeding[r].new => Behind(seeding[r].at, p)

\* Every run that ended well added the knowledge at most once.
RowsCounted ==
  /\ \A p \in Parts \ {"docs"} : db[p] \in {0, 1}
  /\ db["docs"] \in Nat /\ db["docs"] <= Cardinality(Ended)
  /\ db \in [Parts -> Nat]

\* A unique row that is not committed is one run's, and none once it is.
OneWriter ==
  \A p \in Unique, r \in Seeders : p \in seeding[r].new =>
    db[p] = 0 /\ \A o \in Seeders \ {r} : p \notin seeding[o].new

\* What follows a unique row is committed with it, and added by whoever adds it.
Follows(p, q) ==
  /\ db[q] = db[p]
  /\ \A r \in Seeders :
       /\ q \in seeding[r].new => p \in seeding[r].new
       /\ Behind(seeding[r].at, q) /\ p \in seeding[r].new => q \in seeding[r].new
       /\ seeding[r].at = q /\ seeding[r].missing => p \in seeding[r].new

Followed ==
  Follows("tenant", "agent") /\ Follows("user", "sample") /\ (bare = "never" => Follows("tenant", "docs"))

\* What a run has behind it is there, or its own.
SeenOrAdded ==
  \A r \in Seeders, p \in Parts :
    Behind(seeding[r].at, p) => p \in seeding[r].new \/ db[p] > 0 \/ (p = "docs" /\ bare = "emptied")

SeedInv == RunsTyped /\ RowsCounted /\ OneWriter /\ Followed /\ SeenOrAdded

LEMMA PartsAre ==
  /\ Parts = {"tenant", "agent", "docs", "user", "sample"} /\ Unique = {"tenant", "user"} /\ Unique \subseteq Parts
  /\ \A p \in Parts : Order[p] \in Places \ {"idle", "ok", "failed", "tenant"} /\ Order[p] # p /\ ~ Behind(p, p)
  /\ \A p, q \in Parts : Behind(Order[p], q) <=> q = p \/ Behind(p, q)
  /\ \A q \in Parts : Behind("commit", q)
  /\ \A at \in {"idle", "ok", "failed", "tenant"}, q \in Parts : ~ Behind(at, q)
  /\ Behind("agent", "tenant") /\ Behind("docs", "tenant") /\ Behind("sample", "user")
<1>1. Parts = {"tenant", "agent", "docs", "user", "sample"} /\ Unique = {"tenant", "user"} /\ Unique \subseteq Parts
  BY DEF Parts, Order, Unique
<1>2. /\ Order["tenant"] = "agent" /\ Order["agent"] = "docs" /\ Order["docs"] = "user"
      /\ Order["user"] = "sample" /\ Order["sample"] = "commit"
  BY DEF Order
<1>3. /\ Stage["idle"] = 0 /\ Stage["ok"] = 0 /\ Stage["failed"] = 0 /\ Stage["tenant"] = 1 /\ Stage["agent"] = 2
      /\ Stage["docs"] = 3 /\ Stage["user"] = 4 /\ Stage["sample"] = 5 /\ Stage["commit"] = 6
  BY DEF Stage
<1>4. \A p \in Parts : Order[p] \in Places \ {"idle", "ok", "failed", "tenant"} /\ Order[p] # p /\ ~ Behind(p, p)
  BY <1>1, <1>2, <1>3 DEF Places, Behind
<1>5. \A p, q \in Parts : Behind(Order[p], q) <=> q = p \/ Behind(p, q)
  BY <1>1, <1>2, <1>3 DEF Behind
<1>6. \A q \in Parts : Behind("commit", q)
  BY <1>1, <1>3 DEF Behind
<1>7. \A at \in {"idle", "ok", "failed", "tenant"}, q \in Parts : ~ Behind(at, q)
  BY <1>1, <1>3 DEF Behind
<1>8. Behind("agent", "tenant") /\ Behind("docs", "tenant") /\ Behind("sample", "user")
  BY <1>3 DEF Behind
<1> QED
  BY <1>1, <1>4, <1>5, <1>6, <1>7, <1>8

LEMMA EndedAre ==
  /\ IsFiniteSet(Ended) /\ Cardinality(Ended) \in Nat /\ Cardinality(Ended) <= Cardinality(Seeders)
  /\ Cardinality(Seeders) \in Nat /\ Cardinality(Seeders) >= 1
  /\ \A r : r \notin Ended => Cardinality(Ended \union {r}) = Cardinality(Ended) + 1
<1>1. Ended \subseteq Seeders /\ IsFiniteSet(Seeders)
  BY SeedersAssumption DEF Ended
<1>2. Cardinality(Seeders) \in Nat /\ Cardinality(Seeders) # 0
  BY <1>1, SeedersAssumption, FS_CardinalityType, FS_EmptySet
<1> QED
  BY <1>1, <1>2, FS_Subset, FS_CardinalityType, FS_AddElement

LEMMA SeedStart == SeedInit => SeedInv
<1> SUFFICES ASSUME SeedInit PROVE SeedInv
  OBVIOUS
<1>1. /\ \A p \in Parts : db[p] \in {0, 1} /\ (bare = "never" => db[p] = 0)
      /\ db["agent"] = db["tenant"] /\ db["sample"] = db["user"] /\ db["docs"] = 0 /\ db \in [Parts -> Nat]
      /\ \A r \in Seeders : seeding[r].at = "idle" /\ seeding[r].new = {} /\ ~ seeding[r].missing
      /\ bare \in {"never", "signed up"}
  BY PartsAre DEF SeedInit
<1>2. RunsTyped
  BY <1>1 DEF SeedInit, RunsTyped, Places
<1>3. RowsCounted
  <2>1. db["docs"] \in Nat /\ db["docs"] <= Cardinality(Ended)
    <3>1. db["docs"] = 0
      BY <1>1
    <3>2. Cardinality(Ended) \in Nat
      BY EndedAre
    <3> QED
      BY <3>1, <3>2
  <2>2. \A p \in Parts \ {"docs"} : db[p] \in {0, 1}
    BY <1>1
  <2> QED
    BY <1>1, <2>1, <2>2 DEF RowsCounted
<1>4. OneWriter /\ Followed
  BY <1>1, PartsAre DEF OneWriter, Followed, Follows
<1>5. SeenOrAdded
  BY <1>1, PartsAre DEF SeenOrAdded
<1> QED
  BY <1>2, <1>3, <1>4, <1>5 DEF SeedInv

LEMMA SeedInvIsSafe == SeedInv => SeedSafe
<1> SUFFICES ASSUME SeedInv PROVE SeedSafe
  OBVIOUS
<1>1. \A p \in Parts : db[p] \in 0 .. Cardinality(Seeders)
  <2> TAKE p \in Parts
  <2>1. CASE p = "docs"
    BY <2>1, EndedAre DEF SeedInv, RowsCounted
  <2>2. CASE p # "docs"
    BY <2>2, EndedAre DEF SeedInv, RowsCounted
  <2> QED
    BY <2>1, <2>2
<1>2. SeedTypeOK
  BY <1>1 DEF SeedInv, RowsCounted, RunsTyped, Places, SeedTypeOK
<1>3. SeededOnce
  BY PartsAre DEF SeedInv, RowsCounted, Followed, Follows, SeededOnce
<1> QED
  BY <1>2, <1>3 DEF SeedSafe

LEMMA RunIs ==
  ASSUME SeedInv, NEW r \in Seeders
  PROVE  /\ seeding[r] \in [at : Places, missing : BOOLEAN, new : SUBSET Parts]
         /\ \A at, missing, new : Move(r, at, missing, new) =>
              /\ seeding'[r].at = at /\ seeding'[r].missing = missing /\ seeding'[r].new = new
              /\ \A o \in Seeders \ {r} : seeding'[o] = seeding[o]
<1>1. seeding \in [Seeders -> [at : Places, missing : BOOLEAN, new : SUBSET Parts]]
  BY DEF SeedInv, RunsTyped
<1>2. ASSUME NEW at, NEW missing, NEW new, Move(r, at, missing, new)
      PROVE  /\ seeding'[r].at = at /\ seeding'[r].missing = missing /\ seeding'[r].new = new
             /\ \A o \in Seeders \ {r} : seeding'[o] = seeding[o]
  <2>1. seeding' = [seeding EXCEPT ![r] = [at |-> at, missing |-> missing, new |-> new]]
    BY <1>2 DEF Move
  <2>2. seeding'[r] = [at |-> at, missing |-> missing, new |-> new] /\ \A o \in Seeders \ {r} : seeding'[o] = seeding[o]
    BY <1>1, <2>1
  <2> QED
    BY <2>2
<1> QED
  BY <1>1, <1>2

LEMMA CountIs ==
  ASSUME SeedInv, NEW r \in Seeders, NEW p \in Parts
  PROVE  /\ Count(r, p) = 0 => p \notin seeding[r].new /\ db[p] = 0
         /\ Count(r, p) # 0 => p \in seeding[r].new \/ db[p] > 0
<1>1. db[p] \in Nat /\ Count(r, p) = db[p] + IF p \in seeding[r].new THEN 1 ELSE 0
  BY DEF SeedInv, RowsCounted, Count
<1>2. CASE p \in seeding[r].new
  BY <1>1, <1>2
<1>3. CASE p \notin seeding[r].new
  BY <1>1, <1>3
<1> QED
  BY <1>2, <1>3

\* What a run at a place, with what it has added, keeps to
Pairs == {<<"tenant", "agent">>, <<"user", "sample">>, <<"tenant", "docs">>}

Along(at, missing, new, p, q) ==
  (q \in new => p \in new) /\ (Behind(at, q) /\ p \in new => q \in new) /\ (at = q /\ missing => p \in new)

GoesOn(r, at, missing, new) ==
  /\ \A p \in new : Behind(at, p)
  /\ \A p \in Unique \intersect new : db[p] = 0 /\ \A o \in Seeders \ {r} : p \notin seeding[o].new
  /\ \A p \in Parts : Behind(at, p) => p \in new \/ db[p] > 0 \/ (p = "docs" /\ bare = "emptied")
  /\ \A p, q \in Parts : Follows(p, q) /\ <<p, q>> \in Pairs => Along(at, missing, new, p, q)

\* A run moves, and commits nothing.
LEMMA RunMoves ==
  ASSUME SeedInv, NEW r \in Seeders, NEW at \in Places, NEW missing \in BOOLEAN, NEW new \in SUBSET Parts,
         Move(r, at, missing, new), UNCHANGED <<db, bare>>, seeding[r].at # "ok", at # "ok",
         GoesOn(r, at, missing, new)
  PROVE  SeedInv'
<1>1. /\ seeding'[r].at = at /\ seeding'[r].missing = missing /\ seeding'[r].new = new
      /\ \A o \in Seeders \ {r} : seeding'[o] = seeding[o]
  BY RunIs
<1>2. RunsTyped'
  <2>1. seeding' \in [Seeders -> [at : Places, missing : BOOLEAN, new : SUBSET Parts]]
    BY DEF SeedInv, RunsTyped, Move
  <2> QED
    BY <1>1, <2>1 DEF SeedInv, RunsTyped, GoesOn
<1>3. RowsCounted'
  <2>1. Ended' = Ended
    BY <1>1 DEF Ended
  <2> QED
    BY <2>1 DEF SeedInv, RowsCounted
<1>4. OneWriter'
  BY <1>1 DEF SeedInv, OneWriter, GoesOn
<1>5. \A p, q \in Parts : Follows(p, q) /\ <<p, q>> \in Pairs => Follows(p, q)'
  BY <1>1 DEF Follows, GoesOn, Along
<1>6. Followed'
  BY <1>5, PartsAre DEF SeedInv, Followed, Pairs
<1>7. SeenOrAdded'
  BY <1>1 DEF SeedInv, SeenOrAdded, GoesOn
<1> QED
  BY <1>2, <1>3, <1>4, <1>6, <1>7 DEF SeedInv

LEMMA LookUpKeeps ==
  ASSUME SeedInv, NEW r \in Seeders, NEW p \in Parts, LookUp(r, p)
  PROVE  SeedInv'
<1>1. /\ seeding[r].at = p /\ seeding[r].new \in SUBSET Parts /\ p \in Places /\ p # "ok"
      /\ UNCHANGED <<db, bare>> /\ db \in [Parts -> Nat]
      /\ \A q \in seeding[r].new : Behind(p, q)
      /\ \A q \in Unique \intersect seeding[r].new : db[q] = 0 /\ \A o \in Seeders \ {r} : q \notin seeding[o].new
      /\ \A q \in Parts : Behind(p, q) => q \in seeding[r].new \/ db[q] > 0 \/ (q = "docs" /\ bare = "emptied")
  BY RunIs, PartsAre DEF LookUp, SeedInv, RunsTyped, RowsCounted, OneWriter, SeenOrAdded, Places
<1>2. CASE Count(r, p) = 0
  <2>1. p \notin seeding[r].new /\ db[p] = 0 /\ Move(r, p, TRUE, seeding[r].new)
    BY <1>2, CountIs DEF LookUp
  <2>2. \A u, q \in Parts : Follows(u, q) /\ <<u, q>> \in Pairs => Along(p, TRUE, seeding[r].new, u, q)
    BY <1>1, <2>1, PartsAre DEF Follows, Along, Pairs
  <2> QED
    BY <1>1, <2>1, <2>2, RunMoves DEF GoesOn
<1>3. CASE Count(r, p) # 0
  <2>1. (p \in seeding[r].new \/ db[p] > 0) /\ Move(r, Order[p], FALSE, seeding[r].new)
    BY <1>3, CountIs DEF LookUp
  <2>2. Order[p] \in Places /\ Order[p] # "ok" /\ \A q \in Parts : Behind(Order[p], q) <=> q = p \/ Behind(p, q)
    BY PartsAre
  <2>3. \A u, q \in Parts : Follows(u, q) /\ <<u, q>> \in Pairs => Along(Order[p], FALSE, seeding[r].new, u, q)
    BY <1>1, <2>1, <2>2, PartsAre DEF Follows, Along, Pairs
  <2> QED
    <3>1. GoesOn(r, Order[p], FALSE, seeding[r].new)
      BY <1>1, <2>1, <2>2, <2>3 DEF GoesOn
    <3> QED
      BY <1>1, <2>1, <2>2, <3>1, RunMoves
<1> QED
  BY <1>2, <1>3

LEMMA InsertKeeps ==
  ASSUME SeedInv, NEW r \in Seeders, NEW p \in Parts, Insert(r, p)
  PROVE  SeedInv'
<1> DEFINE new == seeding[r].new \union {p}
<1>1. /\ seeding[r].at = p /\ seeding[r].missing /\ seeding[r].new \in SUBSET Parts /\ new \in SUBSET Parts /\ p # "ok"
      /\ UNCHANGED <<db, bare>> /\ Move(r, Order[p], FALSE, new)
      /\ \A q \in seeding[r].new : Behind(p, q)
  BY RunIs, PartsAre DEF Insert, SeedInv, RunsTyped
<1>2. Order[p] \in Places /\ Order[p] # "ok" /\ \A q \in Parts : Behind(Order[p], q) <=> q = p \/ Behind(p, q)
  BY PartsAre
<1>3. \A q \in Unique \intersect new : db[q] = 0 /\ \A o \in Seeders \ {r} : q \notin seeding[o].new
  BY DEF Insert, MayInsert, SeedInv, OneWriter
<1>4. \A q \in Parts : Behind(Order[p], q) => q \in new \/ db[q] > 0 \/ (q = "docs" /\ bare = "emptied")
  BY <1>1, <1>2 DEF SeedInv, SeenOrAdded
<1>5. \A u, q \in Parts : Follows(u, q) /\ <<u, q>> \in Pairs => Along(Order[p], FALSE, new, u, q)
  <2> TAKE u, q \in Parts
  <2> SUFFICES ASSUME Follows(u, q), <<u, q>> \in Pairs
               PROVE  Along(Order[p], FALSE, new, u, q)
    OBVIOUS
  <2>1. q \in new => u \in new
    BY <1>1 DEF Follows
  <2>2. Behind(q, u) /\ q # u
    BY PartsAre DEF Pairs
  <2>3. ~ (p = u /\ Behind(p, q))
    BY <2>2, PartsAre DEF Behind, Stage
  <2>4. Behind(Order[p], q) /\ u \in new => q \in new
    BY <1>1, <1>2, <2>3 DEF Follows
  <2> QED
    BY <2>1, <2>4 DEF Along
<1> HIDE DEF new
<1>6. GoesOn(r, Order[p], FALSE, new)
  BY <1>1, <1>2, <1>3, <1>4, <1>5 DEF GoesOn, new
<1> QED
  BY <1>1, <1>2, <1>6, RunMoves

LEMMA OpenKeeps ==
  ASSUME SeedInv, NEW r \in Seeders, Open(r) \/ Raise(r)
  PROVE  SeedInv'
<1>1. PICK at \in {"tenant", "failed"} :
        Move(r, at, FALSE, {}) /\ UNCHANGED <<db, bare>> /\ seeding[r].at # "ok"
  BY DEF Open, Raise, UnderWay, Over
<1>2. at \in Places /\ \A q \in Parts : ~ Behind(at, q)
  BY PartsAre DEF Places
<1>3. GoesOn(r, at, FALSE, {})
  BY <1>2 DEF GoesOn, Along
<1>4. FALSE \in BOOLEAN /\ {} \in SUBSET Parts /\ at # "ok"
  OBVIOUS
<1> QED
  BY <1>1, <1>2, <1>3, <1>4, RunMoves

LEMMA CommitKeeps ==
  ASSUME SeedInv, NEW r \in Seeders, Commit(r)
  PROVE  SeedInv' /\ \A p \in Parts : db'[p] > 0 \/ (p = "docs" /\ bare = "emptied")
<1>1. /\ seeding[r].at = "commit" /\ seeding[r].new \in SUBSET Parts /\ Move(r, "ok", FALSE, {})
      /\ bare' = bare /\ db' = [p \in Parts |-> Count(r, p)] /\ db \in [Parts -> Nat]
  BY RunIs DEF Commit, SeedInv, RowsCounted
<1>2. /\ seeding'[r].at = "ok" /\ seeding'[r].new = {} /\ ~ seeding'[r].missing
      /\ \A o \in Seeders \ {r} : seeding'[o] = seeding[o]
  BY <1>1, RunIs
<1>3. \A p \in Parts : db'[p] = db[p] + IF p \in seeding[r].new THEN 1 ELSE 0
  BY <1>1 DEF Count
<1>4. RunsTyped'
  <2>1. seeding' \in [Seeders -> [at : Places, missing : BOOLEAN, new : SUBSET Parts]]
    BY <1>1 DEF SeedInv, RunsTyped, Move, Places
  <2> QED
    BY <1>1, <1>2, <2>1 DEF SeedInv, RunsTyped
<1>5. \A p, q \in Parts : Follows(p, q) /\ p \in Unique => Follows(p, q)' /\ (q \in seeding[r].new => db[q] = 0)
  <2> SUFFICES ASSUME NEW p \in Parts, NEW q \in Parts, Follows(p, q), p \in Unique
               PROVE  Follows(p, q)' /\ (q \in seeding[r].new => db[q] = 0)
    OBVIOUS
  <2>1. q \in seeding[r].new <=> p \in seeding[r].new
    BY <1>1, PartsAre DEF Follows
  <2>2. db'[q] = db'[p]
    BY <1>3, <2>1 DEF Follows
  <2>3. q \in seeding[r].new => db[q] = 0
    BY <2>1 DEF Follows, SeedInv, OneWriter
  <2> QED
    BY <1>2, <2>2, <2>3, PartsAre DEF Follows
<1>6. Followed'
  BY <1>1, <1>5, PartsAre DEF SeedInv, Followed
<1>7. RowsCounted'
  <2>1. \A p \in Parts \ {"docs"} : p \in seeding[r].new => db[p] = 0
    BY <1>5, PartsAre DEF SeedInv, Followed, OneWriter
  <2>2. \A p \in Parts \ {"docs"} : db'[p] \in {0, 1}
    BY <1>3, <2>1 DEF SeedInv, RowsCounted
  <2>3. Ended' = Ended \union {r} /\ r \notin Ended
    BY <1>1, <1>2 DEF Ended
  <2>4. db'["docs"] \in Nat /\ db'["docs"] <= Cardinality(Ended) + 1
    BY <1>3, PartsAre, EndedAre DEF SeedInv, RowsCounted
  <2>5. db' \in [Parts -> Nat]
    BY <1>1, <1>3
  <2> QED
    BY <2>2, <2>3, <2>4, <2>5, EndedAre DEF RowsCounted
<1>8. OneWriter'
  <2> SUFFICES ASSUME NEW p \in Unique, NEW o \in Seeders, p \in seeding'[o].new
               PROVE  db'[p] = 0 /\ \A i \in Seeders \ {o} : p \notin seeding'[i].new
    BY DEF OneWriter
  <2>1. o # r /\ p \in seeding[o].new /\ p \in Parts
    BY <1>2, PartsAre
  <2>2. db[p] = 0 /\ p \notin seeding[r].new /\ \A i \in Seeders \ {o} : p \notin seeding[i].new
    BY <2>1 DEF SeedInv, OneWriter
  <2> QED
    BY <1>2, <1>3, <2>1, <2>2
<1>9. SeenOrAdded'
  <2> SUFFICES ASSUME NEW o \in Seeders, NEW p \in Parts, Behind(seeding'[o].at, p)
               PROVE  p \in seeding'[o].new \/ db'[p] > 0 \/ (p = "docs" /\ bare' = "emptied")
    BY DEF SeenOrAdded
  <2>1. o # r
    BY <1>2, PartsAre
  <2>2. p \in seeding[o].new \/ db[p] > 0 \/ (p = "docs" /\ bare = "emptied")
    BY <1>2, <2>1 DEF SeedInv, SeenOrAdded
  <2> QED
    BY <1>1, <1>2, <1>3, <2>1, <2>2
<1>10. \A p \in Parts : db'[p] > 0 \/ (p = "docs" /\ bare = "emptied")
  <2> TAKE p \in Parts
  <2>1. p \in seeding[r].new \/ db[p] > 0 \/ (p = "docs" /\ bare = "emptied")
    BY <1>1, PartsAre DEF SeedInv, SeenOrAdded
  <2>2. db[p] \in Nat
    BY <1>1
  <2> QED
    BY <1>3, <2>1, <2>2
<1> QED
  BY <1>4, <1>6, <1>7, <1>8, <1>9, <1>10 DEF SeedInv

LEMMA EmptyKnowledgeKeeps == SeedInv /\ EmptyKnowledge => SeedInv'
<1> SUFFICES ASSUME SeedInv, EmptyKnowledge PROVE SeedInv'
  OBVIOUS
<1>1. /\ seeding' = seeding /\ bare' = "emptied" /\ db'["docs"] = 0 /\ db' \in [Parts -> Nat]
      /\ \A p \in Parts \ {"docs"} : db'[p] = db[p]
  BY PartsAre DEF EmptyKnowledge, SeedInv, RowsCounted
<1>2. RowsCounted'
  BY <1>1, EndedAre DEF SeedInv, RowsCounted, Ended
<1>3. Followed'
  BY <1>1, PartsAre DEF SeedInv, Followed, Follows
<1> QED
  BY <1>1, <1>2, <1>3, PartsAre DEF SeedInv, RunsTyped, OneWriter, SeenOrAdded

LEMMA SeedKeeps == SeedInv /\ [SeedNext]_seedVars => SeedInv'
<1> SUFFICES ASSUME SeedInv, [SeedNext]_seedVars PROVE SeedInv'
  OBVIOUS
<1>1. CASE SeedNext
  BY <1>1, EmptyKnowledgeKeeps, OpenKeeps, LookUpKeeps, InsertKeeps, CommitKeeps DEF SeedNext, Advance
<1>2. CASE UNCHANGED seedVars
  BY <1>2 DEF seedVars, SeedInv, RunsTyped, RowsCounted, OneWriter, Followed, Follows, SeenOrAdded, Ended
<1> QED
  BY <1>1, <1>2

LEMMA RunsLeaveAll == SeedInv /\ SeedNext => SeededWhole
<1> SUFFICES ASSUME SeedInv, SeedNext, NEW r \in Seeders, seeding'[r].at = "ok", seeding[r].at # "ok"
             PROVE  \A p \in Parts : db'[p] > 0 \/ (p = "docs" /\ bare = "emptied")
  BY DEF SeededWhole
<1>1. CASE EmptyKnowledge
  BY <1>1 DEF EmptyKnowledge
<1>2. CASE \E o \in Seeders : Open(o) \/ Advance(o) \/ Raise(o)
  <2> PICK o \in Seeders : Open(o) \/ Advance(o) \/ Raise(o)
    BY <1>2
  <2>1. CASE Commit(o)
    BY <2>1, CommitKeeps
  <2>2. CASE ~ Commit(o)
    <3>1. PICK at, missing, new : Move(o, at, missing, new) /\ at # "ok"
      <4>1. CASE Open(o) \/ Raise(o)
        <5>1. Move(o, "tenant", FALSE, {}) \/ Move(o, "failed", FALSE, {})
          BY <4>1 DEF Open, Raise
        <5>2. "tenant" # "ok" /\ "failed" # "ok"
          OBVIOUS
        <5> QED
          BY <5>1, <5>2
      <4>2. CASE \E p \in Parts : LookUp(o, p) \/ Insert(o, p)
        <5> PICK p \in Parts : LookUp(o, p) \/ Insert(o, p)
          BY <4>2
        <5>1. p # "ok" /\ Order[p] # "ok"
          BY PartsAre
        <5> QED
          BY <5>1 DEF LookUp, Insert
      <4> QED
        BY <2>2, <4>1, <4>2 DEF Advance
    <3>2. seeding'[r] = seeding[r] \/ seeding'[r].at = at
      BY <3>1, RunIs
    <3> QED
      BY <3>1, <3>2
  <2> QED
    BY <2>1, <2>2
<1> QED
  BY <1>1, <1>2 DEF SeedNext

\* However many runs of the script overlap: no part of the workspace is there
\* twice but the knowledge of one that was signed up or emptied, and a run that
\* ends well leaves every part.
THEOREM SeedingIsSafe == SeedSpec => []SeedSafe /\ [][SeededWhole]_seedVars
<1> QED
  BY SeedStart, SeedKeeps, SeedInvIsSafe, RunsLeaveAll, PTL DEF SeedSpec

============================================================================
