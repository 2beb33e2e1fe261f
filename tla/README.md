# ETFPulse: a verification project

TLA+ modules about the backend of ETFPulse (`src/backend/etfpulse`): how a signal
is detected, analysed, announced over Telegram, expired and scored; how a user
signs in and binds a wallet; how an order passes the risk gate, reaches the venue
and becomes a position; and the bot that ties users and groups to all of it.
TLC checks the modules on small instances; the TLA+ proof system proves the
results that matter most for every instance.

Source paths below are relative to `src/backend/etfpulse/`.

## The system

One FastAPI process serves the HTTP API and the Telegram webhook, runs APScheduler
jobs, and keeps everything in PostgreSQL.  Four facts shape every hard behaviour:

* **The caller commits (rule D14).**  A pipeline function never commits; the
  route (`api/deps.py`, `api/routes/`) or the scheduler's wrapper commits once at
  the end, and rolls everything back when an exception escapes.
* **READ COMMITTED and stale copies.**  A function loads rows, computes, awaits
  HTTP answers, and then the unit of work writes `UPDATE ... WHERE id`, naming
  the columns that differ from the loaded copy.
* **`SELECT ... FOR UPDATE` returns the old object.**  A row loaded earlier in the
  session keeps its attributes when it is selected again with the lock
  (`expire_on_commit=False`, no `populate_existing`).
* **Jobs are serial, but only with themselves** (`max_instances=1` per job id).
  The sweep, the reapers, the send worker, the cycles, the bot and all HTTP
  requests overlap.

| Component | State | Operations | Talks to | What makes it correct |
|---|---|---|---|---|
| Order pipeline (`pipeline/execution/pipeline.py`, `api/routes/execution.py`) | `orders` | prepare, submit, prepare cancel, submit cancel | venue, nonces, positions (paper) | an order is placed at most once; a fill is recorded once |
| Risk gate, close endpoint, breakers (`execution/risk.py`, `circuit_breaker.py`, `api/routes/execution.py`, `admin.py`) | `circuit_breakers`, counts and sums over `orders` | check, close, halt, resume | users row lock, price oracle | caps hold at commit; a halt stops trading; a close sells once |
| Nonces (`execution/nonce.py`) | `orders.nonce`, the clock | draw | users row lock | distinct, increasing |
| Reconcile sweep, order reaper (`pipeline/reconcile.py`, `reapers.py`) | `orders`, `positions` | list open orders, fold fills, close absent positions, expire | venue (GET) | each fill is recorded once, and in the end; only dead orders expire |
| Positions (`execution/positions_*.py`, `paper.py`) | `positions` | apply fill, reconcile | called by submit (paper) and sweep (real) | one exact OPEN row per book; reduce-only never grows |
| Wallet and SIWE, sessions (`api/routes/wallet.py`, `auth_siwe.py`, `identity.py`) | nonce cache, `users`, `notification_channels` | nonce, verify, bind, API key, unbind | - | a challenge works once; one wallet, one user; a wallet is there because it was proved |
| Ingestion and backfills (`ingestor.py`, `*_backfill.py`, `prices.py`) | flows, prices, `signals` columns | fetch, fill in | SoSoValue, Binance, OpenRouter | what was missing is filled in with what it should have been |
| Detectors, regimes, factors (`detectors/`, `regime_monitor.py`, `factors.py`) | snapshots | detect, classify, vote | stored rows | one signal per trigger; votes on evidence |
| Signal lifecycle (`signal_builder.py`, `scheduler.py`, `reapers.py`) | `signals` | cycle, build, dedupe, analyse, expire | AI client | ingested data are looked at; announced once; expired in the end |
| Delivery and its reaper (`delivery.py`, `reapers.py`) | `signals.status`, `signal_deliveries`, `is_active`, `chat_id` | fan out, send, fail stuck rows | Telegram | no duplicate but for lost answers, nothing PENDING for ever |
| Track record, analytics, backtest (`track_record.py`, `analytics.py`, `backtest.py`, ...) | `signal_outcomes` | score, aggregate, replay | price sources | flags are what the market did; the reports agree |
| Bot and webhook (`bot/`, `api/routes/telegram.py`, `api/deps.py`, `admin.py`) | `users`, `telegram_groups`, accepted secrets | commands, taps, membership, rotate | Telegram | no update is lost; preferences mean what the keyboard says |
| Scheduler, boot and shutdown (`scheduler.py`, `boot_recovery.py`) | job set | tick, catch up, stop | all jobs | fairness |
| Frontend, migrations, scripts | - | - | API | - |

`PROJECT.json` lists every component with what is modelled of it, and every hazard
at its line with the properties that watch it.

## The modules

| Module | Models |
|---|---|
| `OrderLifecycle` | real orders of one user, venue and asset: HTTP requests, sweep, reaper, venue, database |
| `OrderStatusMachine` | abstract: the status diagram at the head of `pipeline.py`, seen from commit to commit; `OrderLifecycle` holds the refinement mapping |
| `NonceAllocation` | `next_nonce_for_user` under the users row lock |
| `PositionLedger` | position rows against one signed exposure per book |
| `TradingGate` | `/prepare` and `/close-position` down to the insert, gate by gate; halts and resumes |
| `AccountBinding` | SIWE nonces, `/verify`, Telegram sign-in, API keys, unbind |
| `SignalLifecycle` | cycles, AI backfills, fan-out, expiry and outcome batches as overlapping transactions |
| `FlowDetectors` | the five detectors and the regime classifier as operators |
| `OutcomeScoring` | scoring of an outcome, the votes, the report pages as operators |
| `Evaluation` | composes the two: the market, overlapping cycles, backfills, evaluator, page and backtest over days |
| `SignalDelivery` | fan-out, send worker, delivery reaper, and the bot where it touches deliveries |
| `BotUpdates` | webhook, secret and rotation, handlers and preferences, fan-out filters and the delivery trace |
| `MC...` | instances for TLC |
| `...Proofs` | theorems about the module they are named after; `OrderLifecycleProofs` has those of `NonceAllocation` too, `SignalProofs` those of `SignalDelivery` and `Evaluation` |
| `FiniteSums` | what the proofs need to know of sums over finite sets |

The modules meet at named assumptions.  `OrderLifecycle` draws its nonces from one
increasing sequence; for the nonces of orders `NonceAllocation` justifies that
(`OrderNoncesIncrease`), for cancels it is an assumption, because a cancel's nonce
is stored in a column that the next draw does not look at.  `TradingGate` lets an
order be filled, ended or reopened at any time: what `OrderLifecycle` does to it.
`SignalDelivery` lets any subset of recipients match: what `BotUpdates` decides.
`SignalLifecycle` treats a datum and the hit on it as one: `Evaluation` says when
there is a hit.  Cycles overlap in both; the other jobs are atomic in `Evaluation`, and
transactions in `SignalLifecycle`.

### State and code

**OrderLifecycle.**  `row` is `orders` as committed; `rowLock` and `userLock` are
PostgreSQL's row locks.  `tx[r]` is the transaction of a submit or cancel request:
`base` is the copy as loaded, `view` the copy as changed, and `Merge(row, base,
view)` what a commit leaves.  A step ends where the code awaits something others can
observe or overtake: the load, the UPDATE that takes the row lock, the HTTP call, its
answer with the commit.  `tick` is the sweep's transaction in the same form, over all
orders.  `venue`, `used` and `execs` are the venue's book, the nonces it has accepted,
and how often it placed each order.  `ReportOf` says what the HTTP client may report
of a POST: acknowledged, odd, lost, or refused (a retry the venue answered with a
nonce error).  `prepare_new` holds the user's lock to its commit and is one step.

**NonceAllocation.**  Lock, draw, commit or rollback are separate steps; the clock
moves in both directions.

**PositionLedger.**  `pos` is the table in the order of its ids.  A paper submission is
load, row lock with SELECT of the OPEN row, commit.  A real fill is one step: nothing
else writes real rows while a sweep runs.  `ideal` is the reference: one signed number
per book, moved by each order's fill once.

**TradingGate.**  A call goes through `received`, `locked`, `deduped`, `globalClear`,
`clear`, `judged`, `done`: one place per statement that reads something another
transaction may change.  `copy` is the User object as it was loaded, on which the
identity gate is judged; the lock is held from `LockUser` to commit or refusal.
`Settle`, `Age`, `Reopen`, `ChangeRow` and the halts happen in between.  `reopened`
marks orders that came back from a terminal status (the disagreement
`TerminalNeverReopened` below): the caps are about all others, and `slipped` counts
the notional a reopened order brings back.

**AccountBinding.**  `users` with their wallet and API keys, `channel` (Telegram identity
to user), the nonce cache and what was evicted or used (`spent`).  `req[r]` holds what
a request loaded; `BindWallet`, `CreateByWallet`, `CreateByTelegram` end in one of two
ways, the commit or what the unique index makes of it.

**SignalLifecycle.**  `job[j]` is a cycle's or backfill's transaction (what it ingested,
inserted, loaded and was answered); `fan` the fan-out tick; `ingested`, `rows`,
`analysis`, `status`, `told`, `past`, `outcomes` the committed state.

**FlowDetectors, OutcomeScoring, Evaluation.**  The operators are the functions of
the code on whole numbers, with all their gates (windows, minimum history, strict or
weak comparisons, the side a bar on a boundary falls on).  `Evaluation` holds the market
(`price` at the moments it moved), the stored rows, `signals`, `outcomes` and what a
reader of the page has seen so far.  Time goes from one moment at which a job may run
to the next.  Of each behaviour one detector is followed (`followed`).

A cycle is a READ COMMITTED transaction in three steps.  `CycleOpens` ingests, classifies
and flushes the snapshot, `CycleDetects` reads what is committed by then and what its
own transaction wrote (`Visible`, `Taken`), `CycleCommits` inserts the hit with its
analysis and makes all of it visible at once; `CycleFails` leaves nothing.  `running[k]`
is the transaction of cycle `k`, `cycles[k]` the moment it began; a classification that
fails (`Uncounted`) leaves no snapshot, and the detector still runs.  A cycle that would
insert a row another one is inserting waits for it, as the unique index makes it.
`arrived` tells which cycle stored a flow, and `beside`, a history variable, which
cycles were open together.

**SignalDelivery.**  `send` is the send worker's transaction: rows loaded once, sent one
after another, flushed and committed at the end.  The query of the migration branch
flushes earlier rows on the way and thereby locks them (`flushed`); the reaper and the
bot wait for those and for nothing else.  `reached` and `excused` remember what really
arrived at Telegram, and which of it the program had no way to record.

**BotUpdates.**  An update is `held` by Telegram, `posted` (signed with the secret of that
moment), checked, and handled in the steps a handler awaits: asking who is an admin,
loading, inserting, committing.  `accepted` is `app.state.telegram_webhook_secrets`,
`rotation` the admin's call in progress, `estranged` that a call to Telegram has failed in
a way that leaves its secret unknown.  `alert` keeps a fan-out with the settings it saw,
which `Trace` is compared with.

## The runs

| Run | Instance | Shows |
|---|---|---|
| `OrderOverlap` | 1 order of 2 lots, 2 requests, sweep and reaper, all overlapping, 2 nonces, 1 crash | at most one placement; fills are real, folded once, never taken back; stale copies agree on what matters |
| `OrderSerial` | 2 orders of 2 lots, transactions one at a time, 3 nonces | the rows implement `OrderStatusMachine`; a cancel's signature fits its payload |
| `OrderLiveness` | 1 order, 1 request, overlap, 1 crash, fairness | requests end, overdue orders leave flight, fills get recorded |
| `NonceOrders` | 3 prepares, 1 cancel, clock 1..3 | nonces distinct and increasing; no deadlock |
| `PositionFills` | 3 orders of up to 2 lots, 2 submissions, spot and perps, paper and real | books are exact, reduce-only never grows |
| `Delivery` | 1 signal, 1 user, 2 groups, a chat that migrates, 2 attempts, 1 crash | delivered means sent, duplicates are excused, DELIVERED is final, PENDING ends |
| `TradingGate` | 2 calls (spot order, perps order, close), 1 admin, caps 1 order, 3 and 2 units, 1 change of the user | caps and halts hold, closes are not doubled, calls end |
| `AccountBinding` | 4 requests, 3 users, 2 wallets, 2 Telegram identities, 3 nonces, 1 unbind | wallets distinct, nonces one-shot, no unreachable user, wallets only by proof |
| `SignalLifecycle` | 2 data, 2 jobs, batches of 1, failing detectors and AI | no datum lost, announced once, expired in the end |
| `Evaluation` | each detector over days 4 to 8, 3 prices, rows late or repeated, 2 sources, AI that may fail, 2 cycles that overlap for three of the detectors, roll back or fail to classify | flags real, backtest as live, two regime shifts a day only of cycles that overlapped, reports add up, votes on evidence |
| `BotUpdates` | 1 user, 1 group, 2 assets, 2 updates at a time; in three scenarios all inputs, a fan-out, or 2 rotations and a crash | no empty list, the trace agrees with the fan-out, Telegram's secret is accepted, updates are answered |
| `XStartReachesUser` | 1 user, 1 group | refutes `start.py:23`: /start "flips them back on" |

### Bounds

*Orders.*  Two requests beside the sweep and the reaper give every pairwise overlap,
and three transactions in a row a stale commit over a stale commit.  Two lots
distinguish none, part and all of an order; two nonces give an order and one cancel.
`MaxOpen` is the number of transactions open at once: 4 lets everything overlap, 1 is
the sequential program, which is what the status diagram describes.  One crash may
fall at any step.  Three orders are a position opened, extended or reduced, and
closed past its size.

*Gate.*  The second call is what the first races with; a cap of one order is at its limit
after one, the notional caps (3 for the user, 2 for an asset) are at theirs with one and
a half orders of 2 units, so both sums matter.  The close asks for more leverage than
the cap to show that it is exempt.

*Accounts.*  Four requests are two sign-ins that race for one wallet, a third that binds,
and an API key across an unbind; three nonces allow a replay after an eviction.

*Signals.*  Two data and two jobs are a cycle that overlaps a cycle, a backfill, or both
phases of one; a batch limit of one makes every queue as short as it can be.

*Evaluation.*  A day of history and the live days 4 and 5 (`LastWorkDay`) are enough to
raise a hit, the rest lets its two-day window end and be scored early, on time or late.
What a detector does not read is fixed for it (`FlowValues`, `Velocities`, `Analyses`,
`UpSets`, `MaxMoves` are by detector).  Target and stop are prices only one source, or
only a move, reaches.  `Afternoons` are the days with a second moment; `MaxCycles` two
cycles, one of which may be an intraday one.  `MaxOpen` lets them overlap for magnitude,
acceleration and regime shifts; no cycle lasts from one moment to the next, so those of one
moment are the ones that overlap.  Regime shifts are the detector that reads what cycles
write besides the flows: there the velocity of news moves the regime back and forth or the
classification fails, and cycles fail freely (`Failing`).  `FactorPercent` is 10 because a
vote must not follow from the difference between the sources alone.  A page is read on the
last day, when there are outcomes to lose (`Paged`: what it counts is the same for all
detectors, two are enough).

*Delivery and bot.*  Two groups are needed for a chat id collision, and two attempts for
a first, a retried and a last one.  Two updates overlap; two assets are the last two, of
which each of two taps removes one.  Two rotations are one whose answer is lost and one
that repairs it.

Every bound is a CONSTANT named in its module.  Runs other than `NonceOrders` do not
check for deadlock: users, the market and Telegram may stop acting, and counters run
out.  That nothing begun waits for ever is `RequestsEnd`, `CallsEnd`, `UpdatesAnswered`.

### Fairness

`OrderLifecycle`: APScheduler fires the sweep and the reaper for ever (interval
triggers); a begun request goes on, because the HTTP client has a timeout and lock
queues are served in order (strong fairness, as others take the lock in between); the
sweep's GETs do not fail for ever; the clock passes the nonce window; PostgreSQL breaks
lock cycles.  `SignalDelivery`: the worker's tick goes on and commits, and a PENDING row
whose backoff elapses again and again is loaded by some tick; `PendingSettles` does not
rest on the reaper.  `TradingGate`: a call goes on.  `SignalLifecycle`: a fan-out tick
ends and the expiry reaper runs for ever.  `BotUpdates`: Telegram posts again what was
not answered, handlers and calls end, a dead process is started again.  Users, admins,
the market, crashes and failures are under no fairness.

## The proofs

All of them are of the module's specification (`Spec`, `NonceSpec`, `EvaluationSpec`), for
every value of the constants under the modules' named assumptions.  Where an invariant is
not inductive the text says what was missing.

*FiniteSums.*  Several invariants are about totals: of fills, of notional, of counts.  The
library's sum over a set is recursive and its induction theorems take the formula to prove
as an operator, which the installed provers cannot instantiate.  Here a formula is the
*set* of the numbers, or of the subsets of a finite set, it is true of (`SetInduction`,
`SubsetInduction`); from those follow that the recursion has one solution
(`SummationExists`, `SummationsAgree`), that an element may be taken out of a sum in any
order (`SumAddElement`), and what the proofs cite: monotonicity, one changed term, terms
left out, and that the parts of a set by a key add up to it (`SumOfParts`).

*OrderLifecycleProofs.*  `AtMostOneExecution` rests on the venue's record of nonces, which
protects an order only if its stored nonce never changes, while the commits merge stale
copies.  `CopiesAgree` says what every open transaction's copy still shares with the
committed row: no request changes `nonce` or `filled`, only the sweep raises `filled`,
and never past the venue.  Theorems: `TypeCorrect`, `CopiesAlwaysAgree`,
`PlacedAtMostOnce`, `FilledIsReal`, `FillsNeverTakenBack`.  For `FillsAlwaysFoldedOnce`, a
sum over the orders, a sweep that has begun must add up as well: what it has in hand for the
positions is the total of `filled` in its copies of the rows (`SweepAddsUp`), so its commit
moves both sides of the sum and its rollback neither.  A second part assumes
`MaxOpen <= 1`, transactions one at a time.  An open transaction's copy is then the row as
committed (`Alone`), and where a request or the sweep is tells what it has changed in it
(`Fits`, `TickFits`); a lemma per kind of step carries that on and maps the step to one of
`OrderStatusMachine` or a stutter.  Theorems: `ImplementsStatusMachine` (the refinement),
`CancelSignaturesFit`.

*NonceAllocation, in OrderLifecycleProofs.*  The lock's holder is the only call between lock
and commit and its drawn nonce exceeds every committed one.  For `NoncesStayNearClock` a
drawn nonce is at most one beyond what the committed ones are bounded by, and its commit
is one more of them (`NearClock`).  Theorems: `OrderNoncesAlwaysDistinct`,
`OrderNoncesAlwaysIncrease`, `NoncesStayNearClock` (for finitely many prepares).

*PositionLedgerProofs.*  By a submission's commit another may have changed or closed the
row it copied: `TxAgrees` says it still is a paper row of the same side and that the copy
was OPEN with a size; `OrdersHaveSize` and `SpotIsLong` complete the invariant.  While no two submissions have
overlapped, a submission's copy is the paper book's one OPEN row (`Serial`), so the step
that folds a real fill and the one that folds a paper order share their lemmas.
Theorems: `TypeCorrect`, `OpenRowsHaveSize`, `RealBookAlwaysExact`,
`PaperBookExactInTurn`, `ReduceOnlyReduces`.

*TradingGateProofs.*  Every step is first reduced to one of six kinds (`StepKinds`).  The
row lock makes dedupe, gate and insert a critical section (`Section`), in which what a
call has read about its own user can only have improved when it inserts: `Room` for the
cap, `CloseAlone` and `OneInFlight` for the closes.  The breakers are not behind the
lock; a halt holds because a call received under it has yet to read them (`Held`).
`NotionalAlwaysCapped` counts in sums what `Room` counts in orders: a call about to insert
has room under the daily and its asset's cap (`NotionalRoom`), and each sum exceeds its cap
by no more than reopened or repriced rows have added (`Afforded`).
Theorems: `TypeCorrect`, `HaltAlwaysStops`, `ClosesNeverDoubled`, `OpenOrdersAlwaysCapped`,
`NotionalAlwaysCapped`.

*AccountBindingProofs.*  A lemma per kind of step says which rows it moves and how, and each
invariant is carried over the kinds.  `NoncesLeave` (a spent nonce is not in the cache)
is what `NoncesOneShot` needs.  Theorems: `TypeCorrect`, `WalletsAlwaysDistinct`,
`NoncesAlwaysOneShot`, `UsersAlwaysReachable`, `WalletsBoundByProof`.

*SignalLifecycleProofs.*  `Covered`: what a transaction ingests is still to be built, failed,
or has a row.  For the announcements, what has been announced is never pending again
(`ToldNotPending`) and a tick judges only what is not (`JudgedUntold`).  Theorems:
`TypeCorrect`, `IngestedAlwaysDetected`, `AlwaysAnnouncedOnce`.

*SignalDelivery, in SignalProofs.*  The worker's copies are committed without a look at the rows.
`SendAgrees`: a loaded row stays as it was loaded, except that the reaper may fail it, and
a copy marked DELIVERED has reached Telegram.  `Accounted`: a message that arrived, with
nothing to excuse another, is DELIVERED on its row or in the tick that will commit it.
Theorems: `TypeCorrect`, `DeliveredIsReal`, `RetriesHaveAttempts`, `DeliveredStays`,
`ResendsAlwaysExcused`.

*Evaluation, in SignalProofs.*  All results rest on `Base`: the types, votes only on signals
that have an analysis, and the order of the cycles (`Timed`: what began while a cycle was
open began beside it).  A step completes the signals there are (`Completes`), raises one
(`Raises`), or leaves them alone; a lemma per step of a cycle says what it does to the
transactions (`OpensFacts`, `DetectsFacts`, ...).
`ShiftsAlwaysOverlapped`: a shift is found on the newest snapshot the cycle sees, and only
if every other one is of an earlier day.  A committed shift has left a snapshot of its day,
so a cycle that detects after it finds the gate shut, or the same shift again if it failed to
classify and took no snapshot, which the fingerprint drops (`ShiftIsFirstOfDay`); what is
committed between its detection and its own commit is of a cycle beside it (`ShiftsApart`).
Cycles may be any number, overlap, fail, or fail to classify: the docstring's
"once-per-UTC-day" would need them not to overlap.
`ConfirmedAlwaysOnEvidence`: the vote's two closes are what the source quoted (`PickedClose`,
the bar in force at a moment), the source being the signal's own, or the fallback of a
signal that had none yet, and since prices of the past stay, so does the evidence
(`VotesBacked`).  `HitsAlwaysReal`: the best and the worst price of the bars in the window are
ones its source quoted while the flag's window was open (`TouchIsQuoted`), a scored
signal is never completed again (`Settled`), and a signal's expiry is one of three lengths after a
moment at which a job ran (`SignalsExpire`).  `ReportsAlwaysReconcile`: every page counts the rows
of a part of the table by a key, so by `SumOfParts` its counts add up to the part
(`FloorAddsUp`, `BreakdownAddsUp`, `HistogramAddsUp`); between two SELECTs rows are only added
(`PagesCount`).  `BacktestAlwaysReplays`: rows arrive after their day has ended, no two
signals are of one hit, and a cycle that overlaps no other sees nothing but what cycles before
it left (`Detected`), so what a signal on time was raised on is what the walk over
its date reads (`HitIsReplayed`, by `FlowAnomalySame` and `AccelerationSame`); a bar of a day that
has ended stays (`BarsStay`), so a row written after that has the flags of the primary source's
bars whenever they are read (`LiveScored`), and neither the padding of the fetch nor the entry
changes them (`PaddedBars`, `MetricsSame`).  Also `EvaluationTypeCorrect`.

*BotUpdatesProofs.*  Three parts are followed apart: the rows with the copies updates hold of
them (`Chatting`: every list in either is non-empty, because a commit writes a list some
handler computed whole), the secret (`Signing`: where a rotation is tells what Telegram
may sign with), and the fan-out (`AlertTold`).  `TraceAgrees` compares the trace's gates
with the fan-out's filters one by one.  Theorems: `TypeCorrect`, `AssetsNeverEmptied`,
`TelegramHeard`, `TraceAlwaysExplains`.

Each module's type invariant, and `OpenHasSize` and `PendingHasAttempts`, are proved
and are therefore not among the properties of the runs.

Every other property of a passing run has a theorem; only model-checked is liveness (fairness and
ENABLED are out of the prover's reach): `RequestsEnd`, `CallsEnd`, `UpdatesAnswered`,
`PendingSettles` and the other temporal properties of the runs, and the disagreements below.

## Known disagreements

What the code does, against what a comment, a docstring or a log line says.  One is a
run (`XStartReachesUser`, under "findings" in `PROJECT.json`).  The others are stated as
properties in the modules, each refuted by TLC when it is made the property of a run:

| Property | Module | Sentence, and what happens |
|---|---|---|
| `TerminalNeverReopened` | `OrderLifecycle` | `models/order.py:42`, terminal states are never re-opened: a stale copy that commits last writes its own status |
| `ExpiredNeverLive` | `OrderLifecycle` | `reapers.py:167`, orders never accepted by the venue: an order whose acknowledgement was lost is expired while it rests there |
| `MissingEventuallyTerminal` | `OrderLifecycle` | `reconcile.py:462`, nonce expiry will terminalise: an acknowledged order is not among those the reaper expires |
| `OneOpenRow` | `PositionLedger` | `positions_perps.py:4`: two paper fills both insert |
| `PaperFillsOnce` | `PositionLedger` | `pipeline.py:324`, double clicks: the replay guard reads without a lock |
| `NoOrderWhileUnbound` | `TradingGate` | the identity gate judges the User object loaded before the lock (`risk.py:290`) |
| `NoSilentSwap` | `AccountBinding` | `wallet.py:679`: two bindings of one user both see no wallet, the later one wins |
| `BacklogDrains` | `SignalLifecycle` | `scheduler.py:268`, the backlog is drained: signals that can never be scored are selected first on every tick (`track_record.py:645`) |
| `ShiftOncePerDay` | `Evaluation` | `regime_shift.py:26`, once per UTC day: the snapshot the day-gate looks for is committed only after the AI calls (`signal_builder.py:368`, `scheduler.py:165`); of two overlapping cycles (cron, catch-up, intraday, admin) neither sees the other's, and in different regimes both insert a signal |
| `EntrylessHitsReplayed` | `Evaluation` | `backtest.py:84`: a pad of four hours does not reach back from 04:30 to the bar of 00:00, so hits without an entry, and MARKET hits, are skipped; the live evaluator pads twelve |
| `FailedRotationKeepsBot` | `BotUpdates` | `admin.py:631`, the bot keeps working: a call that timed out may have landed |
| `TraceExplainsGate` | `BotUpdates` | `admin.py:117`, who matched and why not: a signal the confirmation gate holds back shows matched recipients and no reason |

Met while modelling and not stated as properties:

* a MARKET signal created after 12:00 UTC never gets a baseline bar;
* the backtest classifies the regime as of the signal's date, the live cycle a day later
  (`backtest.py:444`);
* a regime that changes within a day is never signalled (`regime_shift.py:78`);
* hit flags include prices after expiry on the last UTC day, and so depend on when the
  evaluation runs; the confirmation backfill votes on the closed day's price and takes a
  missing source for Binance; a signal analysed by a backfill gets a later window; a flow
  row that comes late changes what the backtest replays;
* a preference tap that is redelivered after a crash is applied twice, overlapping taps
  may lose one, and a database error in a handler is answered 200, so the update is gone.

## Not modelled

* Prices, values and PnL of positions; liquidation; payload bytes, EIP-712 encoding and
  signature cryptography (a signature is the nonce of the payload it signs, or the fact
  that it proves): pure functions of one request, pinned by golden files in the tests.
* Rate limits, response parsing, the AI prompt and its parsing, message texts, the page
  and AI caches, mean figures of reports.
* The MARKET branch of the backtest, `/trackrecord` and the execute deep link of the bot.
* The boot scan, which only logs, and graceful shutdown, which waits for running jobs; a
  process death at any step is modelled instead.
* Frontend, migrations, scripts: no state of their own, or schema history.
* `SKIPPED` deliveries do not occur: foreign keys cascade and `ck_delivery_target` wants
  exactly one target.  `pref_paused` is set by no code.
* Overlapping transactions in `CancelSignatureFitsPayload`: with overlap the merge can pair
  a signature with another payload; the next prepare_cancel repairs the row.
