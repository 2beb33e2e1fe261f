--------------------------- MODULE SignalLifecycle -------------------------
(***************************************************************************)
(* A signal from the data it is detected in to its scored outcome:          *)
(*                                                                          *)
(*  run_daily_cycle, build_signal          pipeline/signal_builder.py       *)
(*  backfill_null_ai                       pipeline/ai_backfill.py          *)
(*  fan_out_signal                         pipeline/delivery.py             *)
(*  expire_overdue_signals                 pipeline/reapers.py              *)
(*  evaluate_pending_outcomes              pipeline/track_record.py         *)
(*  and the transactions around them       pipeline/scheduler.py            *)
(*                                                                          *)
(*  - A cycle ingests, detects, inserts and analyses in one transaction.    *)
(*    The daily, catch-up and intraday jobs and the admin's trigger have    *)
(*    ids of their own, so their transactions overlap; each is a job here.  *)
(*  - INSERT ... ON CONFLICT waits for the transaction that holds the key.  *)
(*  - A flush writes the columns the transaction has changed, by id.        *)
(*  - A datum and the signal a detector raises on it share a name, and the  *)
(*    names are numbered by created_at.                                     *)
(***************************************************************************)
EXTENDS Integers, FiniteSets

CONSTANTS
    Signals,       \* a range of numbers
    Analyses,      \* what an analysis may say
    Jobs,          \* transactions that run cycles and AI backfills
    RetryLimit,    \* ai_backfill_limit_per_tick
    EvalLimit      \* outcome_eval_batch_limit

None == "none"
\* What an analysis says: no direction; a direction over a window too short or
\* long enough to be scored on daily bars; a direction the factors contradict.
ASSUME AnalysesAssumption == Analyses \subseteq {"wait", "scalp", "swing", "contradicted"}

ASSUME SignalsAssumption == Signals \subseteq Nat /\ IsFiniteSet(Signals)
ASSUME LimitsAssumption == RetryLimit \in Nat \ {0} /\ EvalLimit \in Nat \ {0}

VARIABLES
    ingested,  \* data in the database
    missed,    \* of those, the ones a detector failed on in the cycle that ingested them
    rows,      \* signals in the database
    analysis,  \* ai_analysis (and with it confidence, expires_at, score)
    status,
    past,      \* signals whose expires_at has passed
    told,      \* signals whose deliveries have been inserted
    outcomes,  \* signals that have an outcome row
    job,       \* the open transaction of each job
    fan        \* the open fan-out tick

vars == <<ingested, missed, rows, analysis, status, past, told, outcomes, job, fan>>
dataVars == <<ingested, missed>>
signalVars == <<rows, analysis, status, past, told>>

NoJob == [step |-> "idle", retries |-> FALSE, new |-> {}, todo |-> {}, failed |-> {},
          inserted |-> {}, found |-> [s \in Signals |-> None], loaded |-> {}]
NoFan == [open |-> FALSE, listed |-> {}, judged |-> {}, written |-> {}]

TypeOK ==
    /\ ingested \subseteq Signals /\ missed \subseteq ingested
    /\ rows \subseteq ingested
    /\ analysis \in [Signals -> Analyses \cup {None}]
    /\ status \in [Signals -> {"pending", "alerted", "expired"}]
    /\ past \subseteq {s \in rows : analysis[s] # None}
    /\ told \subseteq rows /\ outcomes \subseteq past
    /\ job \in [Jobs -> [step: {"idle", "building", "retrying"}, retries: BOOLEAN,
                         new: SUBSET Signals, todo: SUBSET Signals, failed: SUBSET Signals,
                         inserted: SUBSET Signals, found: [Signals -> Analyses \cup {None}],
                         loaded: SUBSET Signals]]
    /\ fan \in [open: BOOLEAN, listed: SUBSET Signals, judged: SUBSET Signals,
                written: SUBSET Signals]

Init ==
    /\ ingested = {} /\ missed = {} /\ rows = {} /\ past = {} /\ told = {} /\ outcomes = {}
    /\ analysis = [s \in Signals |-> None]
    /\ status = [s \in Signals |-> "pending"]
    /\ job = [j \in Jobs |-> NoJob]
    /\ fan = NoFan

\* The n oldest of a set.
Oldest(n, set) == {s \in set : Cardinality({t \in set : t < s}) < n}

---------------------------------------------------------------------------
(* A cycle. *)

\* What another transaction has inserted and not committed.
HeldBy(others, field(_)) == UNION {field(job[k]) : k \in others}

\* (mutant) The ingested rows are committed by themselves, before the detectors run.
DetectIngestCommitted(j, intraday, new) ==
    /\ job[j].step = "idle"
    /\ new \cap (ingested \cup HeldBy(Jobs \ {j}, LAMBDA t : t.new)) = {}
    /\ job' = [job EXCEPT ![j] = [NoJob EXCEPT !.step = "building", !.retries = intraday,
                                               !.new = new, !.todo = new]]
    /\ ingested' = ingested \cup new
    /\ UNCHANGED <<missed, signalVars, outcomes, fan>>

\* ingest_etf_flows, ingest_news: whatever the sources yield; a source that fails
\* is left for the next cycle.  An intraday cycle without new data is skipped.
\* Otherwise the detectors run: they hit on the new data, save those that raise an
\* error, and on data of the day they failed on before.  (A hit on a signal that is
\* in the database already changes nothing and is left out.)
Detect(j, intraday, new) ==
    /\ job[j].step = "idle"
    /\ new \cap (ingested \cup HeldBy(Jobs \ {j}, LAMBDA t : t.new)) = {}
    /\ \E failed \in SUBSET new, again \in SUBSET missed :
          /\ intraday /\ new = {} => again = {}
          /\ job' = [job EXCEPT ![j] = [NoJob EXCEPT !.step = "building", !.retries = intraday,
                          !.new = new, !.failed = failed, !.todo = (new \ failed) \cup again]]
    /\ UNCHANGED <<dataVars, signalVars, outcomes, fan>>

\* build_signal: a fingerprint that is in the database already is a duplicate and
\* costs no AI call; a new row is analysed at once, or left without analysis
\* when the call fails.
Build(j, s) ==
    LET t == job[j] IN
    /\ t.step = "building" /\ s \in t.todo
    /\ s \notin HeldBy(Jobs \ {j}, LAMBDA u : u.inserted)
    /\ IF s \in rows
       THEN job' = [job EXCEPT ![j].todo = @ \ {s}]
       ELSE \E a \in Analyses \cup {None} :
                job' = [job EXCEPT ![j] = [t EXCEPT !.todo = t.todo \ {s}, !.found[s] = a,
                                                    !.inserted = t.inserted \cup {s}]]
    /\ UNCHANGED <<dataVars, signalVars, outcomes, fan>>

\* backfill_null_ai, in the intraday cycle's transaction or in the admin's: the
\* oldest rows without analysis, none older than the cutoff; a call that fails
\* leaves its row as it was.
RetryLoad(j) ==
    LET t == job[j]
        stranded == {s \in rows \cup t.inserted :
                        IF s \in t.inserted THEN t.found[s] = None ELSE analysis[s] = None}
    IN
    /\ \/ t.step = "idle"
       \/ t.step = "building" /\ t.retries /\ t.todo = {}
    /\ \E cutoff \in Signals :
          LET loaded == Oldest(RetryLimit, {s \in stranded : s >= cutoff}) IN
          \E answer \in [loaded -> Analyses \cup {None}] :
             job' = [job EXCEPT ![j] =
                    [t EXCEPT !.step = "retrying", !.retries = FALSE, !.loaded = loaded,
                              !.found = [s \in Signals |->
                                   IF s \in loaded THEN answer[s] ELSE t.found[s]]]]
    /\ UNCHANGED <<dataVars, signalVars, outcomes, fan>>

\* A row the cycle inserts or the backfill analyses.
Analysed(t) == {s \in t.inserted \cup t.loaded : t.found[s] # None}

\* (mutant) The backfill writes back every column it has loaded.
CommitWholeRow(j) ==
    LET t == job[j] IN
    /\ t.step \in {"building", "retrying"} /\ t.todo = {}
    /\ t.loaded \cap fan.written = {}
    /\ ingested' = ingested \cup t.new
    /\ missed' = missed \cup t.failed
    /\ rows' = rows \cup t.inserted
    /\ analysis' = [s \in Signals |-> IF s \in Analysed(t) THEN t.found[s] ELSE analysis[s]]
    /\ status' = [s \in Signals |-> IF s \in t.loaded THEN "pending" ELSE status[s]]
    /\ job' = [job EXCEPT ![j] = NoJob]
    /\ UNCHANGED <<past, told, outcomes, fan>>

\* The wrapper's commit.  It waits for the row locks of a fan-out tick.
Commit(j) ==
    LET t == job[j] IN
    /\ t.step \in {"building", "retrying"} /\ t.todo = {}
    /\ t.loaded \cap fan.written = {}
    /\ ingested' = ingested \cup t.new
    /\ missed' = missed \cup t.failed
    /\ rows' = rows \cup t.inserted
    /\ analysis' = [s \in Signals |-> IF s \in Analysed(t) THEN t.found[s] ELSE analysis[s]]
    /\ job' = [job EXCEPT ![j] = NoJob]
    /\ UNCHANGED <<status, past, told, outcomes, fan>>

\* An error outside the per-source and per-detector handlers, or the end of the
\* process: everything the transaction did is undone.
Abort(j) ==
    /\ job[j].step # "idle"
    /\ job' = [job EXCEPT ![j] = NoJob]
    /\ UNCHANGED <<dataVars, signalVars, outcomes, fan>>

---------------------------------------------------------------------------
(* The fan-out tick: max_instances=1, so there is one at a time. *)

FanList ==
    /\ ~fan.open
    /\ fan' = [NoFan EXCEPT !.open = TRUE,
                            !.listed = {s \in rows \ past : status[s] = "pending"}]
    /\ UNCHANGED <<dataVars, signalVars, outcomes, job>>

\* fan_out_signal loads the signal and judges it: still pending, not expired,
\* analysed, not contradicted.
Announceable(s) ==
    /\ status[s] = "pending" /\ s \notin past
    /\ analysis[s] \notin {None, "contradicted"}

FanLoad(s) ==
    /\ s \in fan.listed /\ fan.judged = {}
    /\ fan' = [fan EXCEPT !.listed = @ \ {s},
                          !.judged = IF Announceable(s) THEN {s} ELSE {}]
    /\ UNCHANGED <<dataVars, signalVars, outcomes, job>>

\* The deliveries are inserted and the status is flushed; or an error undoes
\* this signal's savepoint.
FanFlush ==
    /\ fan.judged # {}
    /\ \E written \in {fan.judged, {}} :
          fan' = [fan EXCEPT !.judged = {}, !.written = @ \cup written]
    /\ UNCHANGED <<dataVars, signalVars, outcomes, job>>

FanCommit ==
    /\ fan.open /\ fan.listed = {} /\ fan.judged = {}
    /\ told' = told \cup fan.written
    /\ status' = [s \in Signals |-> IF s \in fan.written THEN "alerted" ELSE status[s]]
    /\ fan' = NoFan
    /\ UNCHANGED <<dataVars, rows, analysis, past, outcomes, job>>

FanAbort ==
    /\ fan.open
    /\ fan' = NoFan
    /\ UNCHANGED <<dataVars, signalVars, outcomes, job>>

---------------------------------------------------------------------------
(* Expiry. *)

\* The clock passes expires_at.  The shortest horizon is six hours and no
\* transaction is open that long: none that loaded the row before it had an
\* analysis is still open.
Expire(s) ==
    /\ s \in rows \ past /\ analysis[s] # None
    /\ \A j \in Jobs : s \notin job[j].loaded
    /\ past' = past \cup {s}
    /\ UNCHANGED <<dataVars, rows, analysis, status, told, outcomes, job, fan>>

\* What the reaper's UPDATE selects.
Overdue == {s \in past : status[s] # "expired"}

\* (mutant) The reaper takes signals that were announced for finished.
ReapPending ==
    /\ Overdue # {} /\ Overdue \cap fan.written = {}
    /\ status' = [s \in Signals |->
                    IF s \in Overdue /\ status[s] = "pending" THEN "expired" ELSE status[s]]
    /\ status' # status
    /\ UNCHANGED <<dataVars, rows, analysis, past, told, outcomes, job, fan>>

\* expire_overdue_signals: one UPDATE, which waits for rows a fan-out tick has
\* flushed.
Reap ==
    /\ Overdue # {} /\ Overdue \cap fan.written = {}
    /\ status' = [s \in Signals |-> IF s \in Overdue THEN "expired" ELSE status[s]]
    /\ UNCHANGED <<dataVars, rows, analysis, past, told, outcomes, job, fan>>

---------------------------------------------------------------------------
(* Outcomes. *)

Candidates == past \ outcomes
\* A signal without direction or with a window below a day is skipped, each time.
Scorable(s) == analysis[s] \in {"swing", "contradicted"}

\* The oldest candidates, one outcome for each that can be scored and whose bars
\* could be had.  Of two batches that overlap in a signal the unique index lets
\* one commit; the other is undone as a whole and changes nothing.
Evaluate(scored) ==
    /\ scored \subseteq {s \in Oldest(EvalLimit, Candidates) : Scorable(s)}
    /\ outcomes' = outcomes \cup scored
    /\ UNCHANGED <<dataVars, signalVars, job, fan>>

---------------------------------------------------------------------------
FanStep == (\E s \in Signals : FanLoad(s)) \/ FanFlush \/ FanCommit

Next ==
    \/ \E j \in Jobs :
          \/ \E intraday \in BOOLEAN, new \in SUBSET Signals : Detect(j, intraday, new)
          \/ RetryLoad(j) \/ Commit(j) \/ Abort(j)
          \/ \E s \in Signals : Build(j, s)
    \/ FanList \/ FanStep \/ FanAbort
    \/ (\E s \in Signals : Expire(s)) \/ Reap
    \/ \E scored \in SUBSET Signals : Evaluate(scored)

Spec == Init /\ [][Next]_vars

\* A fan-out tick ends and the scheduler runs the reaper for ever.
FairSpec == Spec /\ WF_vars(FanStep) /\ WF_vars(Reap)

\* The outcome job runs for ever, and the bars it asks for can be had at last.
EvalFairSpec ==
    Spec /\ WF_vars(Evaluate({s \in Oldest(EvalLimit, Candidates) : Scorable(s)}))

---------------------------------------------------------------------------
\* No datum is lost between a cycle that fails and the next one that skips: what
\* is in the database has been turned into a signal, unless a detector failed on
\* it.
IngestedWasDetected == ingested \subseteq rows \cup missed

\* A signal is announced once: no tick writes deliveries for a signal that has
\* them, although backfills and reapers commit around it.
AnnouncedOnce == fan.written \cap told = {}

\* Whatever a stale fan-out writes over EXPIRED, a signal whose time has passed ends
\* expired and stays so.
OverdueSettles == \A s \in Signals : s \in past ~> [](status[s] = "expired")

\* "Backlog larger than the cap gets drained over subsequent ticks"
\* (scheduler.py:268): a signal that can be scored is scored at last.
BacklogDrains ==
    \A s \in Signals : s \in past /\ Scorable(s) ~> s \in outcomes
===========================================================================
