----------------------------- MODULE CallLatency -----------------------------
(***************************************************************************)
(* agent/metrics.py: the delays measured during a call, and the median and *)
(* 95th percentile of each that the call's record keeps.                   *)
(***************************************************************************)
EXTENDS Integers, FiniteSets, Sequences

CONSTANTS
  Stages,    \* end of utterance, the model's first token, the first sound
  Delays,    \* what an event may say of a stage that it measures
  MaxEvents  \* bound: metrics events of a call

\* Delays are only compared: any unit will do.
ASSUME DelaysAssumption == Delays \subseteq Nat /\ MaxEvents \in Nat

Missing == -1   \* None, or a negative reading

VARIABLES
  bucket,  \* the delays of each stage, in the order of their events
  events   \* how many events came

latencyVars == <<bucket, events>>

LatencyInit == bucket = [s \in Stages |-> << >>] /\ events = 0

Valid(v) == v >= 0

Handle(m) ==
  /\ events < MaxEvents /\ events' = events + 1
  /\ bucket' = [s \in Stages |-> IF Valid(m[s]) THEN Append(bucket[s], m[s]) ELSE bucket[s]]

\* round(pct / 100 * (n - 1)), where a half goes to the even one
Rank_OfAll(n, pct) == (2 * pct * n + 100) \div 200
Rank(n, pct) ==
  LET twice == 2 * pct * (n - 1)
      up    == (twice + 100) \div 200
  IN  IF (twice + 100) % 200 = 0 /\ up % 2 = 1 THEN up - 1 ELSE up

\* The place of the i-th delay in sorted(values), which keeps equal ones in their order
Upto(values, i) ==
  {j \in DOMAIN values : values[j] < values[i] \/ (values[j] = values[i] /\ j <= i)}
Ordered(values, place) == values[CHOOSE i \in DOMAIN values : Cardinality(Upto(values, i)) = place]

Percentile(values, pct) ==
  LET n == Len(values)
      k == IF Rank(n, pct) < n THEN Rank(n, pct) ELSE n - 1
  IN  IF n = 0 THEN Missing ELSE Ordered(values, k + 1)

Stats(s) == [n |-> Len(bucket[s]), p50 |-> Percentile(bucket[s], 50), p95 |-> Percentile(bucket[s], 95)]

Snapshot == [s \in Stages |-> Stats(s)]

LatencyNext == \E m \in [Stages -> Delays \union {Missing}] : Handle(m)
LatencySpec == LatencyInit /\ [][LatencyNext]_latencyVars

----------------------------------------------------------------------------
(* Properties                                                              *)

LatencyTypeOK == events \in 0..MaxEvents /\ \A s \in Stages : bucket[s] \in Seq(Delays)

\* What a percentile is, without sorting anything: a delay that was measured,
\* with pct per cent of the way from the least to the greatest on either side of
\* it, up to half a place.
IsPercentile(values, x, pct) ==
  LET way  == pct * (Len(values) - 1)
      less == {i \in DOMAIN values : values[i] < x}
      upto == {i \in DOMAIN values : values[i] <= x}
  IN  /\ \E i \in DOMAIN values : values[i] = x
      /\ 200 * Cardinality(less) <= 2 * way + 100
      /\ 200 * (Cardinality(upto) - 1) >= 2 * way - 100

\* The dashboard's p50 and p95 of a call are what they are called, in whatever
\* order the delays came, and a stage that was never measured has none.
PercentilesAreRight ==
  \A s \in Stages :
    LET st == Snapshot[s] IN
    IF st.n = 0 THEN st.p50 = Missing /\ st.p95 = Missing
    ELSE IsPercentile(bucket[s], st.p50, 50) /\ IsPercentile(bucket[s], st.p95, 95) /\ st.p50 <= st.p95

LatencyKept == LatencyTypeOK /\ PercentilesAreRight

============================================================================
