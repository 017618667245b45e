--------------------------- MODULE BaselineProofs ---------------------------
(***************************************************************************)
(* The estimates of Baseline are bounded for every counter, every ALPHA    *)
(* and every sequence of samples: what a row is seeded with and learns     *)
(* keeps its estimates near the samples, so that what is far above them is *)
(* flagged, and what is not is left alone.                                 *)
(***************************************************************************)
EXTENDS Baseline, TLAPS

LEMMA SampleType == ASSUME NEW v \in Counter PROVE v * PerCount \in Nat
  BY BaselineAssumption, Z3

LEMMA ProductGrows ==
  ASSUME NEW t \in Nat \ {0}, NEW a \in Int, NEW b \in Int, a > b
  PROVE  t * a > t * b
  <1>1. t * (a - b) > 0
    BY Z3
  <1>2. t * (a - b) = t * a - t * b
    BY Z3
  <1> QED BY <1>1, <1>2

Bounded(row, lo, hi) ==
    /\ lo - 50 < row.p50 /\ row.p50 < hi + 50
    /\ lo - 95 < row.p95 /\ row.p95 < hi + 5
    /\ lo - 99 < row.p99 /\ row.p99 < hi + 1

LEMMA SeedRow ==
  ASSUME NEW x \in Nat
  PROVE  Seed(x) \in Row /\ Bounded(Seed(x), x, x)
  BY BaselineAssumption DEF Seed, Row, Bounded

LEMMA LearnRow ==
  ASSUME NEW row \in Row, NEW x \in Nat, NEW lo \in Nat, NEW hi \in Nat,
         NEW lo2 \in Nat, NEW hi2 \in Nat,
         lo2 <= x, x <= hi2, lo2 <= lo, hi <= hi2,
         Bounded(row, lo, hi)
  PROVE  Learn(row, x) \in Row /\ Bounded(Learn(row, x), lo2, hi2)
  <1> DEFINE new == Learn(row, x)
  <1>1. /\ row.p50 \in Int /\ row.p95 \in Int /\ row.p99 \in Int
        /\ row.sample_count \in 1 .. MinSamples
    BY DEF Row
  <1>2. /\ Nudge(row.p50, x, 50) \in Int
        /\ lo2 - 50 < Nudge(row.p50, x, 50) /\ Nudge(row.p50, x, 50) < hi2 + 50
    BY <1>1, SMT DEF Nudge, Bounded
  <1>3. /\ Nudge(row.p95, x, 95) \in Int
        /\ lo2 - 95 < Nudge(row.p95, x, 95) /\ Nudge(row.p95, x, 95) < hi2 + 5
    BY <1>1, SMT DEF Nudge, Bounded
  <1>4. /\ Nudge(row.p99, x, 99) \in Int
        /\ lo2 - 99 < Nudge(row.p99, x, 99) /\ Nudge(row.p99, x, 99) < hi2 + 1
    BY <1>1, SMT DEF Nudge, Bounded
  <1>5. Counted(row.sample_count) \in 1 .. MinSamples
    BY <1>1, BaselineAssumption DEF Counted, Lesser
  <1>6. new \in Row /\ Bounded(new, lo2, hi2)
    BY <1>2, <1>3, <1>4, <1>5 DEF Learn, Row, Bounded
  <1> QED BY <1>6

----------------------------------------------------------------------------
Inv == TypeOK /\ EstimatesWithinSeen /\ NormalNeverFlagged /\ LargeAlwaysFlagged

LEMMA InvInit == Init => Inv
  BY BaselineAssumption, NoneAssumption
  DEF Init, Inv, TypeOK, EstimatesWithinSeen, NormalNeverFlagged, LargeAlwaysFlagged

(* What is compared with is inside its bounds, so a verdict is about a value *)
(* outside them.                                                            *)
LEMMA CompareKeepsInv ==
  ASSUME Inv, Compare
  PROVE  Inv'
  <1> USE DEF Inv
  <1>1. TypeOK'
    <2>1. flagged' \subseteq {"anomaly", "immediate"}
      BY DEF Compare, Verdict
    <2>2. sample' \in Counter /\ compared' \in HourOfWeek /\ sample' # None
      BY NoneAssumption DEF TypeOK, Compare
    <2> QED BY <2>1, <2>2 DEF TypeOK, Compare
  <1>2. EstimatesWithinSeen'
    BY DEF Compare, EstimatesWithinSeen
  <1>3. ASSUME NEW c \in flagged'
        PROVE  rows[hour] # None /\ reading * PerCount > Threshold[c] * (low[hour] - 95)
    <2>1. /\ rows[hour] # None /\ c \in {"anomaly", "immediate"}
          /\ reading * PerCount >= Threshold[c] * rows[hour].p95
      BY <1>3 DEF Compare, Verdict, Deviates
    <2>2. /\ rows[hour].p95 \in Int /\ low[hour] \in Nat
          /\ rows[hour].p95 > low[hour] - 95
      BY <2>1 DEF TypeOK, Row, EstimatesWithinSeen
    <2>3. Threshold[c] \in Nat \ {0}
      BY <2>1, BaselineAssumption
    <2>4. Threshold[c] * rows[hour].p95 > Threshold[c] * (low[hour] - 95)
      BY <2>2, <2>3, ProductGrows
    <2>5. reading * PerCount \in Nat
      BY SampleType DEF TypeOK
    <2>6. /\ Threshold[c] * rows[hour].p95 \in Int
          /\ Threshold[c] * (low[hour] - 95) \in Int
      BY <2>2, <2>3
    <2> QED BY <2>1, <2>4, <2>5, <2>6
  <1>4. NormalNeverFlagged'
    BY <1>3 DEF NormalNeverFlagged, Compare
  <1>5. ASSUME reading > 0, rows[hour] # None, IsWarmedUp,
               NEW c \in {"anomaly", "immediate"},
               reading * PerCount >= Threshold[c] * (high[hour] + 95)
        PROVE  c \in flagged'
    <2>1. /\ rows[hour].p95 \in Int /\ high[hour] \in Nat
          /\ high[hour] + 95 > rows[hour].p95
      BY <1>5 DEF Compare, TypeOK, Row, EstimatesWithinSeen
    <2>2. Threshold[c] \in Nat \ {0}
      BY BaselineAssumption
    <2>3. Threshold[c] * (high[hour] + 95) > Threshold[c] * rows[hour].p95
      BY <2>1, <2>2, ProductGrows
    <2>4. reading * PerCount \in Nat
      BY SampleType DEF TypeOK
    <2>5. /\ Threshold[c] * rows[hour].p95 \in Int
          /\ Threshold[c] * (high[hour] + 95) \in Int
      BY <2>1, <2>2
    <2>6. reading * PerCount >= Threshold[c] * rows[hour].p95
      BY <1>5, <2>3, <2>4, <2>5
    <2>7. Deviates(reading, rows[hour].p95, Threshold[c])
      BY <2>6 DEF Deviates
    <2>8. c \in Verdict(reading, rows[hour])
      BY <1>5, <2>7 DEF Verdict
    <2> QED BY <2>8 DEF Compare
  <1>6. IsWarmedUp' <=> IsWarmedUp
    BY DEF Compare, IsWarmedUp
  <1>7. LargeAlwaysFlagged'
    BY <1>5, <1>6 DEF LargeAlwaysFlagged, Compare
  <1> QED BY <1>1, <1>2, <1>4, <1>7

LEMMA UpdateKeepsInv ==
  ASSUME Inv, Update
  PROVE  Inv'
  <1> USE DEF Inv
  <1> DEFINE x == sample * PerCount
             first == rows[hour] = None
             row == IF first THEN Seed(x) ELSE Learn(rows[hour], x)
             lo == IF first \/ x < low[hour] THEN x ELSE low[hour]
             hi == IF first \/ x > high[hour] THEN x ELSE high[hour]
  <1>1. /\ hour \in HourOfWeek /\ sample \in Counter
        /\ low[hour] \in Nat /\ high[hour] \in Nat
        /\ rows[hour] \in Row \cup {None}
    BY DEF TypeOK, Update
  <1>2. x \in Nat
    BY <1>1, SampleType
  <1>3. lo \in Nat /\ hi \in Nat
    BY <1>1, <1>2
  <1>4. row \in Row /\ Bounded(row, lo, hi)
    <2> HIDE DEF x
    <2>1. CASE first
      BY <2>1, <1>2, SeedRow
    <2>2. CASE ~first
      <3>1. rows[hour] \in Row /\ Bounded(rows[hour], low[hour], high[hour])
        BY <2>2, <1>1 DEF EstimatesWithinSeen, Bounded
      <3>2. lo <= x /\ x <= hi /\ lo <= low[hour] /\ high[hour] <= hi
        BY <2>2, <1>1, <1>2
      <3>3. Learn(rows[hour], x) \in Row /\ Bounded(Learn(rows[hour], x), lo, hi)
        BY <3>1, <3>2, <1>1, <1>2, <1>3, LearnRow
      <3> QED BY <3>3, <2>2
    <2> QED BY <2>1, <2>2
  <1>5. /\ rows' = [rows EXCEPT ![hour] = row]
        /\ low' = [low EXCEPT ![hour] = lo]
        /\ high' = [high EXCEPT ![hour] = hi]
        /\ sample' = None /\ compared' = None
        /\ UNCHANGED <<reading, hour, flagged, moves, turns, faults>>
    BY DEF Update
  <1> HIDE DEF row, lo, hi
  <1>6. TypeOK'
    BY <1>3, <1>4, <1>5 DEF TypeOK
  <1>7. ASSUME NEW h \in HourOfWeek, rows'[h] # None
        PROVE  Bounded(rows'[h], low'[h], high'[h])
    <2>1. CASE h = hour
      BY <2>1, <1>1, <1>4, <1>5 DEF TypeOK
    <2>2. CASE h # hour
      <3>1. rows'[h] = rows[h] /\ low'[h] = low[h] /\ high'[h] = high[h]
        BY <2>2, <1>5 DEF TypeOK
      <3> QED BY <3>1, <1>7 DEF EstimatesWithinSeen, Bounded
    <2> QED BY <2>1, <2>2
  <1>8. EstimatesWithinSeen'
    BY <1>7 DEF EstimatesWithinSeen, Bounded
  <1>9. NormalNeverFlagged' /\ LargeAlwaysFlagged'
    BY <1>5 DEF NormalNeverFlagged, LargeAlwaysFlagged
  <1> QED BY <1>6, <1>8, <1>9

LEMMA OthersKeepInv ==
  ASSUME Inv, UpdateFails \/ CounterMoves \/ HourTurns \/ UNCHANGED vars
  PROVE  Inv'
  <1> USE DEF Inv
  <1>1. CASE UpdateFails
    BY <1>1, BaselineAssumption, NoneAssumption DEF UpdateFails, TypeOK, EstimatesWithinSeen,
       NormalNeverFlagged, LargeAlwaysFlagged
  <1>2. CASE CounterMoves \/ HourTurns \/ UNCHANGED vars
    <2>1. TypeOK'
      <3>1. CASE CounterMoves
        BY <3>1, BaselineAssumption DEF CounterMoves, TypeOK
      <3>2. CASE HourTurns
        BY <3>2, BaselineAssumption DEF HourTurns, TypeOK
      <3>3. CASE UNCHANGED vars
        BY <3>3 DEF vars, TypeOK
      <3> QED BY <1>2, <3>1, <3>2, <3>3
    <2>2. UNCHANGED <<rows, low, high, sample, compared, flagged>>
      BY <1>2 DEF CounterMoves, HourTurns, vars
    <2>3. IsWarmedUp' <=> IsWarmedUp
      BY <2>2 DEF IsWarmedUp
    <2>4. EstimatesWithinSeen' /\ NormalNeverFlagged'
      BY <2>2 DEF EstimatesWithinSeen, NormalNeverFlagged
    <2>5. LargeAlwaysFlagged'
      BY <2>2, <2>3 DEF LargeAlwaysFlagged
    <2> QED BY <2>1, <2>4, <2>5
  <1> QED BY <1>1, <1>2

(* The estimates and the verdicts keep their bounds in every behaviour. *)
THEOREM BaselineInvariant == Spec => []Inv
  <1>1. Inv /\ [Next]_vars => Inv'
    BY CompareKeepsInv, UpdateKeepsInv, OthersKeepInv DEF Next, Check
  <1> QED BY InvInit, <1>1, PTL DEF Spec

(* The tables and the analyzer have the types of Baseline.TypeOK. *)
THEOREM BaselineTypeOK == Spec => []TypeOK
  BY BaselineInvariant, PTL DEF Inv

(* No estimate leaves what its row has seen by more than a step. *)
THEOREM EstimatesAlwaysWithinSeen == Spec => []EstimatesWithinSeen
  BY BaselineInvariant, PTL DEF Inv

(* No value below threshold times the lowest seen, less a step, is flagged. *)
THEOREM NormalNeverFlaggedEver == Spec => []NormalNeverFlagged
  BY BaselineInvariant, PTL DEF Inv

(* Every value of threshold times the highest seen, plus a step, is flagged. *)
THEOREM LargeAlwaysFlaggedEver == Spec => []LargeAlwaysFlagged
  BY BaselineInvariant, PTL DEF Inv
=============================================================================
