---------------------------- MODULE OutcomeScoring --------------------------
(***************************************************************************)
(* How a signal is scored on daily bars (pipeline/track_record.py,          *)
(* composite_scoring.py), how the factors vote on it (factors.py), and how  *)
(* outcomes are counted for the pages (track_record.py, analytics.py,       *)
(* calibration.py, per_detector.py).                                        *)
(*                                                                          *)
(* Time is in half hours; bars maps a day to its high, low and close.  A    *)
(* fraction of a price is compared by cross-multiplication.                 *)
(***************************************************************************)
EXTENDS Integers, FiniteSets, FiniteSetsExt

CONSTANTS
    FactorWindow, FactorPercent,     \* factor_price_window_hours, factor_price_min_pct
    BtcPercent, EthPercent,          \* market_composite_weight_*
    CompositePerMille,               \* market_composite_hit_pct
    MinSamples                       \* calibration_min_samples, per_detector_min_samples

ASSUME WeightsAssumption == BtcPercent + EthPercent = 100 /\ MinSamples \in Nat \ {0}
ASSUME FactorAssumption == FactorWindow \in Nat /\ FactorPercent \in Nat \ {0}

Hours(n) == 2 * n
OpenOf(day) == day * Hours(24)
MinScorable == Hours(24)
NoPrice == 0
Nothing == [none |-> TRUE]

\* get_daily_klines_from_source: the bars that open between two moments.
Fetched(bars, from, to) ==
    [d \in {e \in DOMAIN bars : from <= OpenOf(e) /\ OpenOf(e) <= to} |-> bars[d]]

PickCloseAt(bars, moment) ==
    LET opened == {d \in DOMAIN bars : OpenOf(d) <= moment}
    IN IF opened = {} THEN NoPrice ELSE bars[Max(opened)].close

DirectionOf(action) == CASE action = "consider long" -> 1
                         [] action = "consider short" -> -1
                         [] OTHER -> 0

\* _window_hours_for rounds to whole hours.
WindowOf(created, expires) == Hours((expires - created + 1) \div 2)

\* Whether a level was reached by the best (or worst) price of the window.
Flag(level, reached) == IF level = NoPrice THEN "none" ELSE IF reached THEN "hit" ELSE "miss"

\* _compute_metrics.  favorable and adverse are in units of price, to be divided by
\* the entry.
Metrics(direction, entry, stop, target, t0, window, bars) ==
    LET inside == Fetched(bars, t0, t0 + window)
        highest == Max({inside[d].high : d \in DOMAIN inside})
        lowest == Min({inside[d].low : d \in DOMAIN inside})
        Checkpoint(h) == IF h <= window THEN PickCloseAt(inside, t0 + h) ELSE NoPrice
        best == IF direction = 1 THEN highest - entry ELSE entry - lowest
        worst == IF direction = 1 THEN entry - lowest ELSE highest - entry
    IN IF DOMAIN inside = {} THEN Nothing
       ELSE [none |-> FALSE, after24 |-> Checkpoint(Hours(24)), after72 |-> Checkpoint(Hours(72)),
             atEnd |-> PickCloseAt(inside, t0 + window),
             favorable |-> Max({best, 0}), adverse |-> Max({worst, 0}),
             hitTarget |-> Flag(target, IF direction = 1 THEN highest >= target ELSE lowest <= target),
             hitStop |-> Flag(stop, IF direction = 1 THEN lowest <= stop ELSE highest >= stop)]

\* _composite_endpoints
Endpoints(bars, t0, window) == <<PickCloseAt(bars, t0), PickCloseAt(bars, t0 + window)>>

\* weighted_composite_return and classify_composite_outcome on the endpoints of the
\* two assets' windows; Nothing when one of the four closes is missing.
CompositeFlag(direction, btc, eth, t0, window) ==
    LET b == Endpoints(btc, t0, window)
        e == Endpoints(eth, t0, window)
        progress == direction * ((b[2] - b[1]) * e[1] * BtcPercent + (e[2] - e[1]) * b[1] * EthPercent)
    IN IF b[1] <= 0 \/ e[1] <= 0 THEN "none"
       ELSE Flag(b[1], progress * 10 >= CompositePerMille * b[1] * e[1])

----------------------------------------------------------------------------
\* compute_confirmation: the votes of the price and the regime.  News never votes.
PriceVote(bars, reference) ==
    LET near == Fetched(bars, reference - FactorWindow - Hours(24), reference + Hours(24))
        start == PickCloseAt(near, reference - FactorWindow)
        change == PickCloseAt(near, reference) - start
        size == IF change < 0 THEN -change ELSE change
    IN IF start <= 0 \/ 100 * size < FactorPercent * start THEN 0
       ELSE IF change > 0 THEN 1 ELSE -1

RegimeVote(type, regime) ==
    CASE type # "regime_shift" /\ regime \in {"MARKUP", "ACCUMULATION"} -> 1
      [] type # "regime_shift" /\ regime \in {"MARKDOWN", "DISTRIBUTION"} -> -1
      [] OTHER -> 0

Confirmation(action, type, bars, reference, regime) ==
    LET price == PriceVote(bars, reference)
        votes == <<price, RegimeVote(type, regime)>>
    IN IF DirectionOf(action) = 0 THEN Nothing
       ELSE [none |-> FALSE, price |-> price,
             score |-> Cardinality({v \in 1..2 : votes[v] * DirectionOf(action) > 0})]

----------------------------------------------------------------------------
\* The pages.  rows maps a signal to its outcome.
Horizons == {"scalp", "swing", "position", "legacy"}
HorizonOf(window) ==
    IF window < Hours(24) THEN "scalp" ELSE IF window < Hours(96) THEN "swing" ELSE "position"

Targeted(rows, S) == {s \in S : rows[s].hitTarget # "none"}
Hits(rows, S) == {s \in S : rows[s].hitTarget = "hit"}
Count(rows, S) ==
    [total |-> Cardinality(S), targeted |-> Cardinality(Targeted(rows, S)),
     hits |-> Cardinality(Hits(rows, S))]

\* (mutant) The floor itself is left out.
ByFloorExclusive(rows) ==
    [c \in 1..10 |-> Count(rows, {s \in DOMAIN rows : rows[s].confidence > c})]

\* get_stats_by_confidence_floor and its cut by horizon.
ByFloor(rows) ==
    [c \in 1..10 |-> Count(rows, {s \in DOMAIN rows : rows[s].confidence >= c})]
ByFloorAndHorizon(rows) ==
    [cut \in (1..10) \X Horizons |->
        Count(rows, {s \in DOMAIN rows : rows[s].confidence >= cut[1] /\ HorizonOf(rows[s].window) = cut[2]})]

\* The breakdowns of the analytics page, each of one SELECT.
ConfidenceBucket(c) == IF c <= 3 THEN "low" ELSE IF c <= 6 THEN "mid" ELSE IF c <= 8 THEN "high" ELSE "very high"
BreakdownBy(rows, Category(_)) ==
    [k \in {Category(rows[s]) : s \in DOMAIN rows} |->
        Count(rows, {s \in DOMAIN rows : Category(rows[s]) = k})]
BySignalType(rows) == BreakdownBy(rows, LAMBDA o : o.type)
ByAsset(rows) == BreakdownBy(rows, LAMBDA o : o.asset)
ByConfidence(rows) == BreakdownBy(rows, LAMBDA o : ConfidenceBucket(o.confidence))
ByDirection(rows) == BreakdownBy(rows, LAMBDA o : o.direction)

\* The first bucket whose upper edge the fraction is below; edges in per mille.
Edges == <<5, 10, 20, 50, 100>>
HistogramBucket(part, entry) ==
    Min({i \in 1..5 : part * 1000 < Edges[i] * entry} \cup {6})
Histogram(rows) ==
    [i \in 1..6 |-> Cardinality({s \in DOMAIN rows :
        rows[s].version = "v2" /\ HistogramBucket(rows[s].favorable, rows[s].entry) = i})]

\* compute_calibration and compute_per_detector: wins and losses per cell, and a
\* rate only for cells with enough samples.
Cell(rows, S) ==
    LET wins == Cardinality(Hits(rows, S))
        n == Cardinality(Targeted(rows, S))
    IN [n |-> n, wins |-> wins, losses |-> n - wins, rated |-> n >= MinSamples /\ n > 0]
Calibration(rows, bucketSize) ==
    [cell \in {c \in 1..10 : (c - 1) % bucketSize = 0} \X Horizons |->
        Cell(rows, {s \in DOMAIN rows : /\ rows[s].confidence \in cell[1]..(cell[1] + bucketSize - 1)
                                        /\ HorizonOf(rows[s].window) = cell[2]})]
PerDetector(rows, types) ==
    [cell \in types \X Horizons |->
        Cell(rows, {s \in DOMAIN rows : rows[s].type = cell[1] /\ HorizonOf(rows[s].window) = cell[2]})]
===========================================================================
