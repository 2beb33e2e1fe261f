----------------------------- MODULE Evaluation ----------------------------
(***************************************************************************)
(* From the flows and the price of an asset to the track record: the cycle  *)
(* that detects on stored data (pipeline/signal_builder.py, ingestor.py,    *)
(* detectors/), the analysis and the backfills that complete a signal       *)
(* (ai_backfill.py, price_backfill.py, confirmation_backfill.py), the       *)
(* evaluator (track_record.py), the analytics page (analytics.py) and the   *)
(* backtest that replays history (backtest.py).                             *)
(*                                                                          *)
(*  - Time advances from one moment to the next at which a job may run: the *)
(*    daily cycle's 04:30 UTC and a quarter past an afternoon's 15:00.      *)
(*    The price moves between them.                                         *)
(*  - A source serves the daily bars as they are when it is asked: the bar  *)
(*    of the current day is still open.                                     *)
(*  - Of each behaviour one detector is followed, and one asset; the other  *)
(*    asset of a MARKET signal has prices tied to those of the first.       *)
(*  - A cycle is a transaction that lasts: cycles overlap within a moment,  *)
(*    and none sees what another has not committed (READ COMMITTED).        *)
(*    The other jobs are atomic here but for the page's SELECTs:            *)
(*    SignalLifecycle has their transactions and the batch limits.          *)
(***************************************************************************)
EXTENDS FlowDetectors, OutcomeScoring, Sequences

CONSTANTS
    History,         \* the flows stored before the first live day
    FirstRegime,     \* regimes the snapshot of the day before may have
    Followed,        \* the detectors that may be followed; by detector,
    FlowValues,      \* what the net flow of a live day may be
    Velocities,      \* how many news items may be in the last 24 hours, Uncounted if the
                     \* regime cannot be classified
    Analyses,        \* what the AI may answer, Undecided if it may fail to
    UpSets,          \* which of the sources may answer
    MaxMoves,        \* bound: moments at which the price moves
    MaxOpen,         \* bound: cycles that overlap
    Failing,         \* bound: the detectors that may fail, and whose cycles may
    Paged,           \* bound: the detectors whose outcomes the analytics page is read for
    LastWorkDay,     \* bound: the last day of cycles and backfills
    Prices,          \* what the primary source may quote
    StartPrice,      \* its price before the first live day
    Premium,         \* what each source quotes above the primary one
    EthOf,           \* the ETH price for each price of BTC
    FirstDay, LastDay,
    Afternoons,      \* bound: the days whose afternoon is told apart from the morning
    MaxCycles        \* bound: cycles that begin

Sources == {"sosovalue", "binance"}
ASSUME PricesAssumption ==
    /\ StartPrice \in Prices /\ Prices \subseteq Nat \ {0}
    /\ Premium["sosovalue"] = 0 /\ Premium["binance"] \in Nat
ASSUME DaysAssumption ==
    /\ FirstDay \in Nat \ {0} /\ LastDay \in Nat /\ FirstDay <= LastDay
    /\ Afternoons \subseteq FirstDay..LastDay
    /\ DOMAIN History \subseteq 1..(FirstDay - 1) /\ History \in [DOMAIN History -> Int]

CronTime == 9          \* scheduler_cron_hour 4, scheduler_cron_minute 30
Afternoon == 30
Moments == {OpenOf(d) + CronTime : d \in FirstDay..LastDay} \cup {OpenOf(d) + Afternoon : d \in Afternoons}
Detectors == {"flow_anomaly", "magnitude", "acceleration", "divergence", "regime_shift"}
HorizonLength == [scalp |-> Hours(6), swing |-> Hours(72), position |-> Hours(168)]
NoSource == "none"
Undecided == [action |-> "unanswered"]
Unscored == [none |-> TRUE]
Uncounted == -1

\* AISignalAnalysis, once validated: a "wait" has no prices.
Answers ==
    {a \in [action : {"consider long", "consider short", "wait"}, horizon : DOMAIN HorizonLength,
            confidence : 1..10, entry : Nat, stop : Nat, target : Nat] :
        a.action = "wait" => a.entry = NoPrice /\ a.stop = NoPrice /\ a.target = NoPrice}

ASSUME ChoicesAssumption ==
    /\ Followed \subseteq Detectors /\ FirstRegime \subseteq Regimes
    /\ \A f \in Followed : /\ FlowValues[f] \subseteq Int
                          /\ Velocities[f] \subseteq Nat \cup {Uncounted}
                          /\ Analyses[f] \subseteq Answers \cup {Undecided}
                          /\ UpSets[f] \subseteq SUBSET Sources

VARIABLES
    followed,   \* the detector whose hits are followed
    now,
    price,      \* the price at each moment so far
    cycles,     \* the moment each cycle began at: a cycle is known by its number
    running,    \* the transactions of the cycles that have not ended, by cycle
    beside,     \* history: the pairs of cycles whose transactions were open together
    flows,      \* etf_flows: the net flow stored for each day
    arrived,    \* the cycle that inserted its row
    snapshots,  \* regime_snapshots
    signals,    \* signals, in the order of their ids
    outcomes,   \* signal_outcomes, by signal
    page        \* what the analytics page has read so far

cycleVars == <<cycles, running, beside>>
dataVars == <<cycleVars, flows, arrived, snapshots>>
evaluationVars == <<followed, now, price, dataVars, signals, outcomes, page>>

Ids == DOMAIN signals
Asset == IF followed = "regime_shift" THEN "MARKET" ELSE "BTC"
CronOf(day) == OpenOf(day) + CronTime
AtWork == DayOf(now) <= LastWorkDay[followed]

\* What a table holds after rows are inserted: those there are, and the new ones.
With(f, g) == [x \in DOMAIN f \cup DOMAIN g |-> IF x \in DOMAIN f THEN f[x] ELSE g[x]]

----------------------------------------------------------------------------
(* The sources.                                                              *)

InForceAt(moment) ==
    LET past == {t \in DOMAIN price : t < moment}
    IN IF past = {} THEN StartPrice ELSE price[Max(past)]

Bar(day, up) ==
    LET moments == {t \in DOMAIN price : DayOf(t) = day}
        touched == {price[t] : t \in moments} \cup {InForceAt(OpenOf(day))}
    IN [high |-> Max(touched) + up, low |-> Min(touched) + up,
        close |-> InForceAt(OpenOf(day + 1)) + up]

BarsOf(source) == [d \in 1..DayOf(now) |-> Bar(d, Premium[source])]
EthBars == [d \in 1..DayOf(now) |-> LET b == Bar(d, 0) IN
               [high |-> EthOf[b.high], low |-> EthOf[b.low], close |-> EthOf[b.close]]]
Closes(bars) == [d \in DOMAIN bars |-> bars[d].close]

\* get_spot_price_with_source, get_daily_klines_with_source: the primary source, and
\* the other one when it fails.
FirstUp(up) == IF "sosovalue" \in up THEN "sosovalue"
               ELSE IF "binance" \in up THEN "binance" ELSE NoSource
SpotOf(source) ==
    IF source = NoSource THEN NoPrice ELSE InForceAt(now + 1) + Premium[source]

\* (mutant) The pinned source falls back to the other one.
ServedByAny(source, up, from, to) ==
    IF up = {} THEN [d \in {} |-> NoPrice]
    ELSE Fetched(BarsOf(IF source \in up THEN source ELSE FirstUp(up)), from, to)

\* get_daily_klines_from_source: no bars when the source is down.
Served(source, up, from, to) ==
    IF source \in up THEN Fetched(BarsOf(source), from, to) ELSE [d \in {} |-> NoPrice]

----------------------------------------------------------------------------
(* The cycle.                                                                *)

\* A row of regime_snapshots.
Snapshot(cycle, at, regime) == [cycle |-> cycle, at |-> at, regime |-> regime]

Detect(detector, rows, snaps, regime, source, asOf) ==
    CASE detector = "flow_anomaly" -> FlowAnomaly(rows, asOf)
      [] detector = "magnitude" -> Magnitude(rows, asOf, regime)
      [] detector = "acceleration" -> Acceleration(rows, asOf)
      [] detector = "divergence" ->
            IF source = NoSource THEN NoHit ELSE Divergence(rows, Closes(BarsOf(source)), asOf)
      [] detector = "regime_shift" -> RegimeShift(snaps, asOf)

\* apply_analysis_to_signal: a "wait" has no prices, and the validity counts from the
\* moment of the analysis.
WithAnalysis(s, analysis) ==
    [s EXCEPT !.analysis = analysis, !.expires = now + HorizonLength[analysis.horizon]]

\* apply_confirmation_to_signal: needs a price source and an asset with prices.
WithConfirmation(s, up) ==
    IF s.source = NoSource \/ s.asset = "MARKET" THEN s
    ELSE [s EXCEPT !.confirmed = Confirmation(s.analysis.action, followed,
              Served(s.source, up, 0, now), s.created, s.regime)]

Analysed(s, analysis, up) ==
    IF analysis = Undecided THEN s ELSE WithConfirmation(WithAnalysis(s, analysis), up)

NewSignal(k, hit) ==
    LET source == FirstUp(running[k].up)
    IN [cycle |-> k, asset |-> Asset, date |-> hit.date, mark |-> hit.mark, created |-> now,
        price |-> IF Asset = "MARKET" THEN NoPrice ELSE SpotOf(source),
        source |-> IF Asset = "MARKET" THEN NoSource ELSE source,
        regime |-> running[k].regime, analysis |-> Undecided, expires |-> 0, confirmed |-> Unscored]

\* build_signal: INSERT ... ON CONFLICT (fingerprint, signal_date) DO NOTHING.
Unseen(hits) == {h \in hits : \A i \in Ids : <<signals[i].date, signals[i].mark>> # <<h.date, h.mark>>}

\* What the transaction of cycle k sees of the flows, the snapshot it has flushed, and
\* what the detector finds in what it sees.
Visible(k) == With(flows, running[k].rows)
Taken(k) == IF running[k].regime = NoRegime THEN {} ELSE {Snapshot(k, cycles[k], running[k].regime)}
Found(k) == Detect(followed, Visible(k), snapshots \cup Taken(k), running[k].regime,
                   FirstUp(running[k].up), DayOf(now))
Closed(k) == [j \in DOMAIN running \ {k} |-> running[j]]

\* run_daily_cycle up to the flush of the snapshot: ingest_etf_flows leaves a row that
\* is stored already as it is, and waits for the cycle that is inserting the same row;
\* a classification that fails leaves no snapshot.
CycleOpens(rows, velocity, up) ==
    LET k == Len(cycles) + 1
        stored == With(flows, rows)
        regime == IF velocity = Uncounted THEN NoRegime ELSE ClassifyRegime(stored, velocity, DayOf(now))
    IN /\ k <= MaxCycles[followed] /\ Cardinality(DOMAIN running) < MaxOpen[followed] /\ AtWork
       /\ \A j \in DOMAIN running : DOMAIN rows \cap DOMAIN running[j].rows = {}
       /\ cycles' = Append(cycles, now)
       /\ running' = With(running, [j \in {k} |->
             [up |-> up, rows |-> [d \in DOMAIN rows \ DOMAIN flows |-> rows[d]],
              regime |-> regime, detected |-> FALSE, hits |-> NoHit]])
       /\ beside' = beside \cup {{j, k} : j \in DOMAIN running}
       /\ UNCHANGED <<followed, now, price, flows, arrived, snapshots, signals, outcomes, page>>

\* The detector reads what is committed by then and what its own transaction wrote; one
\* that raises is passed over.
CycleDetects(k) ==
    /\ ~running[k].detected
    /\ \E hits \in {Found(k)} \cup (IF followed \in Failing THEN {NoHit} ELSE {}) :
          running' = [running EXCEPT ![k].detected = TRUE, ![k].hits = hits]
    /\ UNCHANGED <<followed, now, price, cycles, beside, flows, arrived, snapshots, signals, outcomes, page>>

\* build_signal for the hit, with its analysis, and the commit.
CycleCommits(k, analysis) ==
    /\ running[k].detected
    /\ flows' = Visible(k)
    /\ arrived' = With(arrived, [d \in DOMAIN running[k].rows |-> k])
    /\ snapshots' = snapshots \cup Taken(k)
    /\ running' = Closed(k)
    /\ \/ Unseen(running[k].hits) = {} /\ UNCHANGED signals
       \/ \E h \in Unseen(running[k].hits) :
             signals' = Append(signals, Analysed(NewSignal(k, h), analysis, running[k].up))
    /\ UNCHANGED <<followed, now, price, cycles, beside, outcomes, page>>

\* The cycle is rolled back, or the process ends.
CycleFails(k) ==
    /\ followed \in Failing
    /\ running' = Closed(k)
    /\ UNCHANGED <<followed, now, price, cycles, beside, flows, arrived, snapshots, signals, outcomes, page>>

\* The rows a source may send: some of those not stored yet, or yesterday's again.
Sendable ==
    LET yesterday == DayOf(now) - 1
    IN UNION {[days -> FlowValues[followed]] :
                 days \in {{yesterday}} \cup (SUBSET ((1..yesterday) \ DOMAIN flows))}

----------------------------------------------------------------------------
(* The backfills.                                                            *)

\* backfill_null_ai.
BackfillAnalysis(i, analysis, up) ==
    /\ signals[i].analysis = Undecided /\ analysis # Undecided /\ AtWork
    /\ signals' = [signals EXCEPT ![i] = Analysed(@, analysis, up)]
    /\ UNCHANGED <<followed, now, price, outcomes, page, dataVars>>

\* backfill_null_prices: the close of the signal's date or of up to five days before.
BackfillPrices(up) ==
    LET lacking == {i \in Ids : signals[i].price = NoPrice /\ signals[i].asset # "MARKET"}
        dates == {signals[i].date : i \in lacking}
        closes == Closes(Fetched(BarsOf(FirstUp(up)), OpenOf(Min(dates) - 1), OpenOf(Max(dates) + 1)))
    IN /\ lacking # {} /\ up # {} /\ AtWork
       /\ signals' = [i \in Ids |->
             IF i \notin lacking \/ CloseOnOrBefore(closes, signals[i].date) = 0 THEN signals[i]
             ELSE [signals[i] EXCEPT !.price = CloseOnOrBefore(closes, signals[i].date),
                                     !.source = FirstUp(up)]]
       /\ UNCHANGED <<followed, now, price, outcomes, page, dataVars>>

\* backfill_null_confirmation: a missing source is taken to be the fallback.
BackfillConfirmations(up) ==
    LET lacking == {i \in Ids : /\ signals[i].confirmed.none /\ signals[i].analysis # Undecided
                                /\ DirectionOf(signals[i].analysis.action) # 0
                                /\ signals[i].asset # "MARKET"}
        SourceOf(s) == IF s.source = NoSource THEN "binance" ELSE s.source
    IN /\ lacking # {} /\ AtWork
       /\ signals' = [i \in Ids |-> LET s == signals[i] IN
             IF i \notin lacking THEN s
             ELSE [s EXCEPT !.confirmed = Confirmation(s.analysis.action, followed,
                       Served(SourceOf(s), up, 0, now), s.created, s.regime)]]
       /\ UNCHANGED <<followed, now, price, outcomes, page, dataVars>>

----------------------------------------------------------------------------
(* The evaluator.                                                            *)

FetchPad == Hours(12)   \* _KLINE_FETCH_PAD_HOURS

\* A row of signal_outcomes.
Outcome(s, window, fields) ==
    With([asset |-> s.asset, type |-> followed, confidence |-> s.analysis.confidence, window |-> window,
          direction |-> DirectionOf(s.analysis.action), at |-> now], fields)

\* _evaluate_one: Nothing when the signal is skipped.
Evaluated(s, up) ==
    LET direction == DirectionOf(s.analysis.action)
        window == WindowOf(s.created, s.expires)
        bars == Served(s.source, up, s.created - FetchPad, s.created + window + FetchPad)
        entry == IF s.analysis.entry # NoPrice THEN s.analysis.entry ELSE s.price
        metrics == Metrics(direction, entry, s.analysis.stop, s.analysis.target, s.created, window, bars)
    IN IF direction = 0 \/ window < MinScorable \/ metrics.none THEN Nothing
       ELSE Outcome(s, window, With(metrics, [version |-> "v2", entry |-> entry]))

\* The row of a MARKET signal has a flag for the composite and no prices.
MarketOutcome(s, window, flag) ==
    Outcome(s, window, [none |-> FALSE, version |-> "market-v1", hitTarget |-> flag, hitStop |-> "none"])

\* _evaluate_market_one.
EvaluatedMarket(s, up) ==
    LET direction == DirectionOf(s.analysis.action)
        window == WindowOf(s.created, s.expires)
        Window(bars) == Fetched(bars, s.created - FetchPad, s.created + window + FetchPad)
        flag == CompositeFlag(direction, Window(BarsOf("sosovalue")), Window(EthBars), s.created, window)
    IN IF direction = 0 \/ window < MinScorable \/ "sosovalue" \notin up \/ flag = "none" THEN Nothing
       ELSE MarketOutcome(s, window, flag)

Score(s, up) == IF s.asset = "MARKET" THEN EvaluatedMarket(s, up) ELSE Evaluated(s, up)

\* evaluate_pending_outcomes.
Eligible == {i \in Ids \ DOMAIN outcomes : /\ signals[i].asset = "MARKET" \/ signals[i].price # NoPrice
                                           /\ signals[i].expires # 0 /\ signals[i].expires <= now}
Evaluate(up) ==
    LET scored == {i \in Eligible : ~Score(signals[i], up).none}
    IN /\ scored # {}
       /\ outcomes' = With(outcomes, [i \in scored |-> Score(signals[i], up)])
       /\ UNCHANGED <<followed, now, price, signals, page, dataVars>>

----------------------------------------------------------------------------
(* The analytics page: one SELECT after another, in one READ COMMITTED       *)
(* transaction.                                                              *)

PageQueries ==
    <<BySignalType(outcomes), ByAsset(outcomes), ByConfidence(outcomes), ByDirection(outcomes),
      Histogram(outcomes)>>

ReadPage ==
    /\ Len(page) < Len(PageQueries) /\ outcomes # <<>>
    /\ followed \in Paged /\ DayOf(now) = LastDay     \* bound: the page is read on the last day
    /\ page' = Append(page, PageQueries[Len(page) + 1])
    /\ UNCHANGED <<followed, now, price, signals, outcomes, dataVars>>

----------------------------------------------------------------------------
(* The backtest: reads only, so a function of the state.                     *)

BacktestPad == Hours(4)   \* _KLINE_FETCH_PAD_MS

RegimeAsOf(day) ==
    LET known == {s \in snapshots : s.at < OpenOf(day + 1)}
    IN IF known = {} THEN "UNCERTAIN" ELSE Newest(known).regime

HitsOn(day) == Detect(followed, flows, snapshots, RegimeAsOf(day), "sosovalue", day)

\* make_resolver: the analysis of the signal with the hit's fingerprint.
Resolved(hit) ==
    LET known == {i \in Ids : <<signals[i].date, signals[i].mark>> = <<hit.date, hit.mark>>
                              /\ signals[i].analysis # Undecided}
    IN IF known = {} THEN Undecided ELSE signals[Min(known)].analysis

\* (mutant) The replay starts at midnight.
BacktestStartMidnight(hit) == OpenOf(hit.date + 1)

\* _score_hit: the time of the daily cycle on the day after the hit's date.
BacktestStart(hit) == CronOf(hit.date + 1)

\* _score_single_asset
ScoreSingle(analysis, t0, window) ==
    LET bars == Fetched(BarsOf("sosovalue"), t0 - BacktestPad, t0 + window + BacktestPad)
        entry == IF analysis.entry # NoPrice THEN analysis.entry ELSE PickCloseAt(bars, t0)
    IN IF bars = <<>> \/ entry = NoPrice THEN Nothing
       ELSE Metrics(DirectionOf(analysis.action), entry, analysis.stop, analysis.target, t0, window, bars)

\* _score_hit: Nothing when the hit is skipped.
Replay(hit) ==
    LET analysis == Resolved(hit)
        window == HorizonLength[analysis.horizon]
    IN IF analysis = Undecided \/ DirectionOf(analysis.action) = 0 \/ window < MinScorable THEN Nothing
       ELSE ScoreSingle(analysis, BacktestStart(hit), window)

----------------------------------------------------------------------------
EvaluationInit ==
    /\ followed \in Followed
    /\ now = CronOf(FirstDay)
    /\ \E p \in Prices : price = [t \in {now} |-> p]
    /\ cycles = <<>> /\ running = <<>> /\ beside = {}
    /\ flows = History /\ arrived = [d \in DOMAIN History |-> 0]
    /\ \E regime \in FirstRegime : snapshots = {Snapshot(0, CronOf(FirstDay - 1), regime)}
    /\ signals = <<>> /\ outcomes = <<>> /\ page = <<>>

Moves == {t \in DOMAIN price : price[t] # InForceAt(t)}

\* A cycle takes minutes: none lasts from one moment to the next.
Tick(p) ==
    LET next == Min({t \in Moments : t > now})
    IN /\ \E t \in Moments : t > now
       /\ DOMAIN running = {}
       /\ p # price[now] => Cardinality(Moves) < MaxMoves[followed]
       /\ now' = next
       /\ price' = With(price, [t \in {next} |-> p])
       /\ UNCHANGED <<followed, signals, outcomes, page, dataVars>>

EvaluationNext ==
    \/ \E p \in Prices : Tick(p)
    \/ \E rows \in Sendable, velocity \in Velocities[followed], up \in UpSets[followed] :
          CycleOpens(rows, velocity, up)
    \/ \E k \in DOMAIN running : CycleDetects(k)
    \/ \E k \in DOMAIN running, a \in Analyses[followed] : CycleCommits(k, a)
    \/ \E k \in DOMAIN running : CycleFails(k)
    \/ \E i \in Ids, a \in Analyses[followed], up \in UpSets[followed] : BackfillAnalysis(i, a, up)
    \/ \E up \in UpSets[followed] : BackfillPrices(up)
    \/ \E up \in UpSets[followed] : BackfillConfirmations(up)
    \/ \E up \in UpSets[followed] : Evaluate(up)
    \/ ReadPage

EvaluationSpec == EvaluationInit /\ [][EvaluationNext]_evaluationVars
----------------------------------------------------------------------------
\* What the variables hold.
Marks == CASE followed = "flow_anomaly" -> Nat \X {-1, 0, 1}
           [] followed = "regime_shift" -> Regimes
           [] OTHER -> {-1, 0, 1}
Votes == {Unscored} \cup [none : {FALSE}, price : {-1, 0, 1}, score : Nat]
SignalRecords ==
    [cycle : Nat, asset : {"BTC", "MARKET"}, date : Nat, mark : Marks, created : Nat, price : Nat,
     source : Sources \cup {NoSource}, regime : Regimes \cup {NoRegime},
     analysis : Answers \cup {Undecided}, expires : Nat, confirmed : Votes]
HitRecords == [date : Nat, mark : Marks]
Transactions(days) ==
    [up : SUBSET Sources, rows : [days -> Int], regime : Regimes \cup {NoRegime},
     detected : BOOLEAN, hits : SUBSET HitRecords]

EvaluationTypeOK ==
    /\ followed \in Followed
    /\ now \in DOMAIN price /\ \A t \in DOMAIN price : t \in Moments /\ t <= now
    /\ price \in [DOMAIN price -> Prices]
    /\ cycles \in Seq(DOMAIN price) /\ beside \subseteq SUBSET (DOMAIN cycles)
    /\ DOMAIN running \subseteq DOMAIN cycles
    /\ \A k \in DOMAIN running : /\ running[k] \in Transactions(DOMAIN running[k].rows)
                              /\ DOMAIN running[k].rows \subseteq 0..(DayOf(now) - 1)
                              /\ cycles[k] = now
    /\ DOMAIN flows \subseteq 0..(DayOf(now) - 1) /\ flows \in [DOMAIN flows -> Int]
    /\ arrived \in [DOMAIN flows -> 0..Len(cycles)]
    /\ IsFiniteSet(snapshots) /\ snapshots \subseteq [cycle : 0..Len(cycles), at : 0..now, regime : Regimes]
    /\ signals \in Seq(SignalRecords)
    /\ \A i \in Ids : /\ signals[i].asset = Asset /\ signals[i].cycle \in DOMAIN cycles
                      /\ signals[i].created = cycles[signals[i].cycle]
    /\ DOMAIN outcomes \subseteq Ids
    /\ Len(page) \in 0..5

\* A flag of a scored signal tells what the signal's own source quoted: a level is
\* flagged as hit only if it was reached after the signal was created and before its
\* last day ended, and a level reached from the next UTC day on until the signal
\* expired is flagged (track_record.py _evaluate_one, _compute_metrics).
Reached(level, above, p) == IF above THEN p >= level ELSE p <= level
FlagIsReal(i, flag, level, above) ==
    LET s == signals[i]
        Quoted(from, to) == {price[t] + Premium[s.source] : t \in {u \in DOMAIN price : from <= u /\ u <= to}}
    IN /\ flag = "hit" =>
            \E p \in Quoted(s.created, Min({outcomes[i].at, OpenOf(DayOf(s.expires) + 1)})) : Reached(level, above, p)
       /\ flag = "miss" =>
            \A p \in Quoted(OpenOf(DayOf(s.created) + 1), s.expires) : ~Reached(level, above, p)
HitsAreReal ==
    \A i \in DOMAIN outcomes : signals[i].asset # "MARKET" =>
        LET long == outcomes[i].direction = 1
        IN /\ FlagIsReal(i, outcomes[i].hitTarget, signals[i].analysis.target, long)
           /\ FlagIsReal(i, outcomes[i].hitStop, signals[i].analysis.stop, ~long)

\* The backtest walks onto every hit the cron cycle raised on flows alone, and when it
\* scores it the flags are those of the live outcome, unless a row came late, another
\* cycle ran beside the signal's, the analysis came late, the signal has another
\* source, or the evaluator ran before the last bar had closed (backtest.py 533-548:
\* "agree with what the live evaluator would have written").
OnTime(i) ==
    LET s == signals[i]
    IN /\ followed \in {"flow_anomaly", "acceleration"}
       /\ s.created = CronOf(s.date + 1)
       /\ \A d \in DOMAIN flows : d <= s.date => arrived[d] <= s.cycle
       /\ \A pair \in beside : s.cycle \notin pair
BacktestReplaysLive ==
    \A i \in Ids : OnTime(i) =>
        LET s == signals[i]
            hit == [date |-> s.date, mark |-> s.mark]
            live == outcomes[i]
            Comparable == /\ i \in DOMAIN outcomes /\ s.source = "sosovalue"
                          /\ s.expires = s.created + HorizonLength[s.analysis.horizon]
                          /\ DayOf(live.at) > DayOf(s.expires)
        IN /\ hit \in HitsOn(s.date)
           /\ Comparable /\ s.analysis.entry # NoPrice => ~Replay(hit).none
           /\ Comparable /\ ~Replay(hit).none =>
                 /\ <<live.hitTarget, live.hitStop>> = <<Replay(hit).hitTarget, Replay(hit).hitStop>>
                 /\ live.atEnd = Replay(hit).atEnd

\* backtest.py 84-89 says of its pad that bars "whose open straddles the t0 boundary
\* still get included": then a hit whose analysis sets no entry is scored from the
\* close of the bar t0 falls in.  The code does not keep this: that bar opens at
\* midnight, more than four hours before the default 04:30.
EntrylessHitsReplayed ==
    \A i \in DOMAIN outcomes :
        signals[i].asset # "MARKET" /\ signals[i].analysis.entry = NoPrice /\ OnTime(i) =>
            ~Replay([date |-> signals[i].date, mark |-> signals[i].mark]).none

\* Two regime shifts are dated the same day only if their cycles overlapped: then
\* neither saw the other's snapshot, and each compared its own with the day before's.
\* Whatever cycles do one after another, one whose classification failed among them,
\* the gate on the UTC day and the fingerprint leave one signal (regime_shift.py 71-80).
SameDay(i, j) == i # j /\ signals[i].date = signals[j].date
ShiftsOfOneDayOverlapped ==
    followed = "regime_shift" =>
        \A i, j \in Ids : SameDay(i, j) => {signals[i].cycle, signals[j].cycle} \in beside

\* regime_shift.py 26-27: "The day-gate makes regime_shift a once-per-UTC-day event".
\* The code does not keep this when cycles overlap.
ShiftOncePerDay ==
    followed = "regime_shift" => \A i, j \in Ids : ~SameDay(i, j)

\* The pages agree with each other: the cumulative stats, their cut by horizon, the
\* calibration cells and the per-detector cells count the same targeted outcomes; and
\* the parts of the analytics page, read one after another, never lose an outcome
\* from one part to the next (analytics.py 403-435).
Total(f, Part(_)) == SumFunction([k \in DOMAIN f |-> Part(f[k])])
StatsReconcile ==
    LET floors == ByFloor(outcomes)
        cuts == ByFloorAndHorizon(outcomes)
        cells == Calibration(outcomes, 1)
        Cut(c) == [h \in Horizons |-> cuts[<<c, h>>]]
        Above(c) == [k \in {b \in DOMAIN cells : b[1] >= c} |-> cells[k]]
    IN /\ \A c \in 1..10 :
            /\ floors[c].targeted = Total(Cut(c), LAMBDA x : x.targeted)
            /\ floors[c].hits = Total(Cut(c), LAMBDA x : x.hits)
            /\ floors[c].targeted = Total(Above(c), LAMBDA x : x.n)
            /\ floors[c].hits = Total(Above(c), LAMBDA x : x.wins)
       /\ floors[1].targeted = Total(PerDetector(outcomes, Detectors), LAMBDA x : x.wins + x.losses)
PageTotal(k) == IF k = 5 THEN Total(page[5], LAMBDA n : n) ELSE Total(page[k], LAMBDA x : x.total)
ReportsReconcile ==
    /\ outcomes # <<>> /\ page = <<>> => StatsReconcile   \* reading the page is optional
    /\ \A j, k \in DOMAIN page : j < k /\ (k = 5 => Asset # "MARKET") => PageTotal(j) <= PageTotal(k)
    /\ \A k \in DOMAIN page : PageTotal(k) <= Cardinality(DOMAIN outcomes)

\* A price vote is backed by the price of the signal's own source, or of the fallback if
\* the signal had none yet: on the day of the signal it had moved that way, by the
\* configured percentage, from its close of the day the window starts in (factors.py
\* score_price_factor, confirmation_backfill.py 92-123).
ConfirmedOnEvidence ==
    \A i \in Ids : LET s == signals[i] IN
        ~s.confirmed.none /\ s.confirmed.price # 0 =>
            \E source \in {s.source, "binance"} \ {NoSource} :
                LET start == InForceAt(OpenOf(DayOf(s.created - FactorWindow) + 1)) + Premium[source]
                    during == {InForceAt(t + 1) + Premium[source] :
                                  t \in {s.created} \cup {u \in DOMAIN price : DayOf(u) = DayOf(s.created)}}
                IN \E p \in during : /\ Sign(p - start) = s.confirmed.price
                                     /\ 100 * Size(p - start) >= FactorPercent * start
===========================================================================
