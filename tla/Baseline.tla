------------------------------ MODULE Baseline ------------------------------
(***************************************************************************)
(* The baseline of one error counter of one port, and the anomalies told   *)
(* from it.  There is a row of three quantile estimates for each hour of   *)
(* the week.  Estimates are counted in steps of ALPHA / 100, of which one  *)
(* error is PerCount (2000 for the code's ALPHA of 0.05), so that every    *)
(* sum of the code is a sum of integers.  The hour may turn, and the       *)
(* counter move or be cleared, at any moment.                              *)
(***************************************************************************)
EXTENDS Integers, FiniteSetsExt

CONSTANTS
    HourOfWeek,    \* the buckets: 0 .. 167
    Counter,       \* values the counter is read with
    PerCount,      \* 100 / ALPHA
    MinSamples,    \* anomaly.baseline_warmup_hours, which counts samples
    Threshold,     \* deviation_threshold and immediate_threshold
    None,          \* no row; nothing in hand
    MaxMoves,      \* bound: moves of the counter
    MaxTurns,      \* bound: turns of the hour
    MaxFaults      \* bound: updates that fail

ASSUME BaselineAssumption ==
    /\ IsFiniteSet(HourOfWeek) /\ HourOfWeek # {}
    /\ Counter \subseteq Nat
    /\ PerCount \in Nat \ {0}
    /\ MinSamples \in Nat \ {0}
    /\ Threshold \in [{"anomaly", "immediate"} -> Nat \ {0}]
    /\ {MaxMoves, MaxTurns, MaxFaults} \subseteq Nat

Row == [p50 : Int, p95 : Int, p99 : Int, sample_count : 1 .. MinSamples]

ASSUME NoneAssumption == None \notin Row \cup Counter \cup HourOfWeek

VARIABLES
    reading,     \* the counter, at the switch
    hour,        \* the hour of the week
    rows,        \* the baselines table
    low, high,   \* the least and the largest sample in each row
    sample,      \* the value the analyzer has compared and not yet stored
    compared,    \* the hour whose row it was compared with
    flagged,     \* the verdict: {}, {"anomaly"} or both
    moves, turns, faults

vars == <<reading, hour, rows, low, high, sample, compared, flagged, moves, turns, faults>>

Init ==
    /\ reading \in Counter
    /\ hour \in HourOfWeek
    /\ rows = [h \in HourOfWeek |-> None]
    /\ low = [h \in HourOfWeek |-> 0]
    /\ high = [h \in HourOfWeek |-> 0]
    /\ sample = None
    /\ compared = None
    /\ flagged = {}
    /\ moves = 0 /\ turns = 0 /\ faults = 0

CounterMoves ==
    /\ moves < MaxMoves
    /\ moves' = moves + 1
    /\ \E v \in Counter \ {reading} : reading' = v
    /\ UNCHANGED <<hour, rows, low, high, sample, compared, flagged, turns, faults>>

HourTurns ==
    /\ turns < MaxTurns
    /\ turns' = turns + 1
    /\ \E h \in HourOfWeek \ {hour} : hour' = h
    /\ UNCHANGED <<reading, rows, low, high, sample, compared, flagged, moves, faults>>

(* fault: an equal sample pushes up *)
NudgeOnEqual(current, x, quantile) ==
    IF x < current THEN current - quantile ELSE current + (100 - quantile)

(* As many steps up as the quantile leaves, or as many down as it takes. *)
Nudge(current, x, quantile) ==
    CASE x > current -> current + (100 - quantile)
      [] x < current -> current - quantile
      [] OTHER -> current

Lesser(m, n) == IF m < n THEN m ELSE n

(* Only its sum is asked for, against MinSamples, and counted no further. *)
Counted(n) == Lesser(n + 1, MinSamples)

(* fault: the seed does not count *)
SeedUncounted(x) == [p50 |-> x, p95 |-> x, p99 |-> x, sample_count |-> 0]

Seed(x) == [p50 |-> x, p95 |-> x, p99 |-> x, sample_count |-> 1]

Learn(row, x) ==
    [p50 |-> Nudge(row.p50, x, 50), p95 |-> Nudge(row.p95, x, 95),
     p99 |-> Nudge(row.p99, x, 99), sample_count |-> Counted(row.sample_count)]

(* The samples of all hours count for each. *)
EnoughSamples(table) ==
    MapThenSumSet(LAMBDA h : IF table[h] = None THEN 0 ELSE table[h].sample_count, HourOfWeek)
        >= MinSamples

IsWarmedUp == EnoughSamples(rows)

(* fault: any value above the estimate *)
DeviatesAtAll(v, p95, threshold) == v * PerCount >= p95

(* With p95 at zero or below, the factor is infinite for any error at all. *)
Deviates(v, p95, threshold) == v * PerCount >= threshold * p95

(* fault: the hour's own samples must be enough *)
VerdictOwnSamples(v, row) ==
    IF v > 0 /\ row # None /\ row.sample_count >= MinSamples
    THEN {c \in {"anomaly", "immediate"} : Deviates(v, row.p95, Threshold[c])}
    ELSE {}

Verdict(v, row) ==
    IF v > 0 /\ row # None /\ IsWarmedUp
    THEN {c \in {"anomaly", "immediate"} : Deviates(v, row.p95, Threshold[c])}
    ELSE {}

Compare ==
    /\ sample = None
    /\ sample' = reading
    /\ compared' = hour
    /\ flagged' = Verdict(reading, rows[hour])
    /\ UNCHANGED <<reading, hour, rows, low, high, moves, turns, faults>>

(* fault: an anomaly is not learned *)
UpdateUnlessFlagged ==
    /\ sample # None
    /\ LET x == sample * PerCount
           first == rows[hour] = None
       IN  IF flagged = {}
           THEN /\ rows' = [rows EXCEPT ![hour] = IF first THEN Seed(x) ELSE Learn(rows[hour], x)]
                /\ low' = [low EXCEPT ![hour] = IF first \/ x < low[hour] THEN x ELSE low[hour]]
                /\ high' = [high EXCEPT ![hour] = IF first \/ x > high[hour] THEN x ELSE high[hour]]
           ELSE UNCHANGED <<rows, low, high>>
    /\ sample' = None /\ compared' = None
    /\ UNCHANGED <<reading, hour, flagged, moves, turns, faults>>

(* The row of the hour it is now: it may not be the one compared with. *)
Update ==
    /\ sample # None
    /\ LET x == sample * PerCount
           first == rows[hour] = None
       IN  /\ rows' = [rows EXCEPT ![hour] = IF first THEN Seed(x) ELSE Learn(rows[hour], x)]
           /\ low' = [low EXCEPT ![hour] = IF first \/ x < low[hour] THEN x ELSE low[hour]]
           /\ high' = [high EXCEPT ![hour] = IF first \/ x > high[hour] THEN x ELSE high[hour]]
    /\ sample' = None /\ compared' = None
    /\ UNCHANGED <<reading, hour, flagged, moves, turns, faults>>

(* The write fails and ends the cycle: the sample is not learned. *)
UpdateFails ==
    /\ sample # None
    /\ faults < MaxFaults
    /\ faults' = faults + 1
    /\ sample' = None /\ compared' = None
    /\ flagged' = {}
    /\ UNCHANGED <<reading, hour, rows, low, high, moves, turns>>

Check == Compare \/ Update

Next == Check \/ UpdateFails \/ CounterMoves \/ HourTurns

Spec == Init /\ [][Next]_vars

(* The poll loop calls the analyzer in every cycle. *)
FairSpec == Spec /\ WF_vars(Check)

----------------------------------------------------------------------------
TypeOK ==
    /\ reading \in Counter /\ hour \in HourOfWeek
    /\ sample \in Counter \cup {None}
    /\ compared \in IF sample = None THEN {None} ELSE HourOfWeek
    /\ rows \in [HourOfWeek -> Row \cup {None}]
    /\ low \in [HourOfWeek -> Nat] /\ high \in [HourOfWeek -> Nat]
    /\ flagged \subseteq {"anomaly", "immediate"}
    /\ moves \in 0 .. MaxMoves /\ turns \in 0 .. MaxTurns /\ faults \in 0 .. MaxFaults

(* The estimates stay within one step of the values the row was given: no   *)
(* run of samples, however long, makes them drift off (baselines.py:84-95).  *)
EstimatesWithinSeen ==
    \A h \in HourOfWeek : rows[h] # None =>
        /\ low[h] - 50 < rows[h].p50 /\ rows[h].p50 < high[h] + 50
        /\ low[h] - 95 < rows[h].p95 /\ rows[h].p95 < high[h] + 5
        /\ low[h] - 99 < rows[h].p99 /\ rows[h].p99 < high[h] + 1

(* No false alarm about what is normal: a value less than the threshold times *)
(* the lowest ever seen in its hour, less one step, is not flagged            *)
(* (baseline_compare.py:92-100), though the hour may turn before it is stored. *)
NormalNeverFlagged ==
    sample # None => \A c \in flagged :
        /\ rows[compared] # None
        /\ sample * PerCount > Threshold[c] * (low[compared] - 95)

(* No alarm is missed: a value that reaches the threshold times the highest   *)
(* ever seen in its hour, plus one step, is flagged as soon as the hour has a *)
(* row and all hours together enough samples (baseline_compare.py:82-100).    *)
LargeAlwaysFlagged ==
    sample # None /\ sample > 0 /\ rows[compared] # None /\ IsWarmedUp =>
        \A c \in {"anomaly", "immediate"} :
            sample * PerCount >= Threshold[c] * (high[compared] + 95) => c \in flagged

(* A counter that stays where it is is learned: at last it is no anomaly. *)
FallsSilent ==
    <>[][UNCHANGED <<reading, hour>>]_<<reading, hour>> => <>[](flagged = {})

(* baselines.py:89 "This converges to the true quantile over time.": then the *)
(* estimate of a higher quantile is not, by more than a step of each, below   *)
(* that of a lower one.                                                       *)
EstimatesOrdered ==
    \A h \in HourOfWeek : rows[h] # None =>
        /\ rows[h].p50 <= rows[h].p95 + 55
        /\ rows[h].p95 <= rows[h].p99 + 96
=============================================================================
