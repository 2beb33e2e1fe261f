---------------------------- MODULE FlowDetectors ---------------------------
(***************************************************************************)
(* What the five detectors (pipeline/detectors/) and the regime classifier  *)
(* (pipeline/regime_monitor.py, regime_thresholds.py) compute for one asset *)
(* from the rows they read.  flows maps a day to the net flow stored for    *)
(* it, closes a day to the close of its bar; snapshots are the rows of      *)
(* regime_snapshots.  A detector returns at most one hit: the day it is     *)
(* dated and the mark its fingerprint tells it from another hit by.         *)
(*                                                                          *)
(* A flow is a whole number of some unit of dollars; a fraction of the code *)
(* is a percentage here.                                                    *)
(***************************************************************************)
EXTENDS Integers, FiniteSets, FiniteSetsExt

CONSTANTS
    FlowLookback, MinStreak,              \* flow_anomaly_*
    MagLookback, MagPercent, MinHistory,  \* magnitude_*
    AccWindow, AccPercent, MinSlope,      \* acceleration_*
    DivLookback, DivPercent, MinFlowSum,  \* divergence_*
    RegimePercent,                        \* regime_mult_magnitude_pctile_*, by regime
    FlowCap                               \* the combined flow that scores 50

ASSUME FlowParametersAssumption ==
    /\ {MinStreak, MinHistory, AccWindow, AccPercent, MinSlope, DivLookback, FlowCap} \subseteq Nat \ {0}
    /\ MinStreak < FlowLookback /\ MinHistory <= MagLookback

Regimes == {"MARKUP", "ACCUMULATION", "UNCERTAIN", "DISTRIBUTION", "MARKDOWN"}
NoRegime == "unclassified"
HalfHoursADay == 48
DayOf(moment) == moment \div HalfHoursADay

Sign(x) == IF x > 0 THEN 1 ELSE IF x < 0 THEN -1 ELSE 0
Size(x) == IF x < 0 THEN -x ELSE x
SumOn(flows, days) == SumFunctionOnSet(flows, days)

\* ORDER BY captured_at DESC LIMIT n, over the rows dated asOf or before.
Latest(flows, asOf, n) ==
    LET known == {d \in DOMAIN flows : d <= asOf}
    IN {d \in known : Cardinality({e \in known : e > d}) < n}

Hit(date, mark) == {[date |-> date, mark |-> mark]}
NoHit == {}

\* A flow against a run of at least MinStreak flows of the other sign; days with
\* no flow neither break nor lengthen the run.
FlowAnomaly(flows, asOf) ==
    LET nonzero == {d \in Latest(flows, asOf, FlowLookback) : flows[d] # 0}
        broke == Max(nonzero)
        streak == {d \in nonzero \ {broke} : \A e \in nonzero \ {broke} :
                       e >= d => Sign(flows[e]) = -Sign(flows[broke])}
    IN IF nonzero = {} \/ Cardinality(streak) < MinStreak THEN NoHit
       ELSE Hit(broke, <<Cardinality(streak), -Sign(flows[broke])>>)

\* The value at index int(p * (n - 1)) of the sorted sizes.
Percentile(flows, days, percent) ==
    LET index == (percent * (Cardinality(days) - 1)) \div 100
        Below(v) == {d \in days : Size(flows[d]) < v}
        UpTo(v) == {d \in days : Size(flows[d]) <= v}
    IN CHOOSE v \in {Size(flows[d]) : d \in days} :
           Cardinality(Below(v)) <= index /\ index < Cardinality(UpTo(v))

\* apply_magnitude_pctile_multiplier: a multiplier of one, or no regime, leaves the base
\* alone.
MagnitudePercent(regime) ==
    LET raw == (MagPercent * RegimePercent[regime]) \div 100
    IN IF regime = NoRegime \/ RegimePercent[regime] = 100 THEN MagPercent ELSE Max({1, Min({99, raw})})

Magnitude(flows, asOf, regime) ==
    LET days == Latest(flows, asOf, MagLookback)
        last == Max(days)
        large == Size(flows[last]) > Percentile(flows, days, MagnitudePercent(regime))
    IN IF Cardinality(days) < MinHistory \/ flows[last] = 0 \/ ~large THEN NoHit
       ELSE Hit(last, Sign(flows[last]))

\* The slope between the sums of three consecutive windows, and how it changed.
Acceleration(flows, asOf) ==
    LET days == Latest(flows, asOf, 3 * AccWindow)
        Window(k) == {d \in days : Cardinality({e \in days : e < d}) \div AccWindow = k}
        SlopeTo(k) == SumOn(flows, Window(k)) - SumOn(flows, Window(k - 1))
        change == SlopeTo(2) - SlopeTo(1)
    IN IF \/ Cardinality(days) < 3 * AccWindow
          \/ Size(SlopeTo(1)) < MinSlope
          \/ 100 * Size(change) < AccPercent * Size(SlopeTo(1)) THEN NoHit
       ELSE Hit(Max(days), IF change > 0 THEN 1 ELSE -1)

\* The close of the day, or of one of the five before it.
CloseOnOrBefore(closes, day) ==
    LET near == {d \in DOMAIN closes : day - 5 <= d /\ d <= day}
    IN IF near = {} THEN 0 ELSE closes[Max(near)]

\* Flows of one sign over the window, and a price that went the other way.
Divergence(flows, closes, asOf) ==
    LET days == Latest(flows, asOf, DivLookback)
        sign == Sign(flows[Max(days)])
        loaded == [d \in {e \in DOMAIN closes : Min(days) - 1 <= e /\ e <= Max(days) + 1}
                       |-> closes[d]]
        first == CloseOnOrBefore(loaded, Min(days))
        last == CloseOnOrBefore(loaded, Max(days))
    IN IF \/ Cardinality(days) < DivLookback
          \/ \E d \in days : Sign(flows[d]) # sign \/ flows[d] = 0
          \/ first <= 0 \/ last = 0
          \/ Sign(last - first) # -sign
          \/ 100 * Size(last - first) < DivPercent * first
          \/ Size(SumOn(flows, days)) < MinFlowSum THEN NoHit
       ELSE Hit(Max(days), sign)

\* ORDER BY captured_at DESC LIMIT 1: cycles are numbered in the order of their snapshots.
Newest(rows) == CHOOSE s \in rows : \A r \in rows : r.cycle <= s.cycle

\* (mutant) Without the gate on the UTC day.
RegimeShiftAnyTime(snapshots, asOf) ==
    LET known == {s \in snapshots : DayOf(s.at) <= asOf}
        latest == Newest(known)
        previous == Newest(known \ {latest})
    IN IF Cardinality(known) < 2 \/ latest.regime = previous.regime THEN NoHit
       ELSE Hit(DayOf(latest.at), latest.regime)

\* The two latest snapshots: another regime, on another UTC day.
RegimeShift(snapshots, asOf) ==
    LET known == {s \in snapshots : DayOf(s.at) <= asOf}
        latest == Newest(known)
        previous == Newest(known \ {latest})
    IN IF \/ Cardinality(known) < 2
          \/ latest.regime = previous.regime
          \/ DayOf(previous.at) >= DayOf(latest.at) THEN NoHit
       ELSE Hit(DayOf(latest.at), latest.regime)

----------------------------------------------------------------------------
\* classify_regime: the flows of the last seven days and the news of the last 24
\* hours.  int() truncates toward zero.
FlowScore(flows, today) ==
    LET combined == SumOn(flows, {d \in DOMAIN flows : d >= today - 6})
        clamped == Max({-FlowCap, Min({FlowCap, combined})})
    IN Sign(clamped) * ((Size(clamped) * 50) \div FlowCap)

NewsScore(velocity) ==
    IF velocity <= 10 THEN 0
    ELSE IF velocity >= 100 THEN -15 ELSE -(((velocity - 10) * 15) \div 90)

RegimeOf(score) ==
    CASE score >= 40 -> "MARKUP"
      [] score >= 10 /\ score < 40 -> "ACCUMULATION"
      [] score <= -40 -> "MARKDOWN"
      [] score <= -10 /\ score > -40 -> "DISTRIBUTION"
      [] OTHER -> "UNCERTAIN"

ClassifyRegime(flows, velocity, today) == RegimeOf(FlowScore(flows, today) + NewsScore(velocity))
===========================================================================
