------------------------ MODULE SignalLifecycleProofs ----------------------
(***************************************************************************)
(* SignalLifecycle for any number of signals and overlapping jobs, and any  *)
(* batch limits.                                                            *)
(***************************************************************************)
EXTENDS SignalLifecycle, TLAPS

Answer == Analyses \cup {None}
Transaction ==
    [step: {"idle", "building", "retrying"}, retries: BOOLEAN,
     new: SUBSET Signals, todo: SUBSET Signals, failed: SUBSET Signals,
     inserted: SUBSET Signals, found: [Signals -> Answer], loaded: SUBSET Signals]
FanTick ==
    [open: BOOLEAN, listed: SUBSET Signals, judged: SUBSET Signals, written: SUBSET Signals]

\* What a transaction t works on is in the database or in the data it ingests, of
\* which nothing is forgotten: it is still to be built, a detector failed on it,
\* or it has a row.
Covered(t) ==
    /\ t.todo \cup t.inserted \subseteq t.new \cup ingested
    /\ t.failed \subseteq t.new
    /\ t.new \subseteq t.todo \cup t.failed \cup t.inserted \cup rows

JobsCovered == \A j \in Jobs : Covered(job[j])
FanFromRows == fan.listed \cup fan.judged \cup fan.written \subseteq rows
\* A tick judges only what is pending, and what has been announced never is again.
ToldNotPending == \A s \in told : status[s] # "pending"
JudgedUntold == fan.judged \cap told = {}

IInv ==
    /\ TypeOK /\ JobsCovered /\ FanFromRows /\ ToldNotPending /\ JudgedUntold
    /\ IngestedWasDetected /\ AnnouncedOnce

DataTyped ==
    /\ ingested \subseteq Signals /\ missed \subseteq ingested /\ rows \subseteq ingested
    /\ analysis \in [Signals -> Answer]
    /\ status \in [Signals -> {"pending", "alerted", "expired"}]
    /\ past \subseteq {s \in rows : analysis[s] # None}
    /\ told \subseteq rows /\ outcomes \subseteq past

LEMMA TypeParts ==
    TypeOK <=> DataTyped /\ job \in [Jobs -> Transaction] /\ fan \in FanTick
BY DEF TypeOK, DataTyped, Transaction, FanTick, Answer

LEMMA NoJobCovered == NoJob \in Transaction /\ Covered(NoJob) /\ Covered(NoJob)'
BY DEF NoJob, Transaction, Answer, Covered

LEMMA NoFanTyped ==
    NoFan \in FanTick /\ NoFan.listed = {} /\ NoFan.judged = {} /\ NoFan.written = {}
BY DEF NoFan, FanTick

LEMMA InitIInv == Init => IInv
<1>1. SUFFICES ASSUME Init PROVE IInv
    OBVIOUS
<1>2. DataTyped
    BY <1>1 DEF Init, DataTyped, Answer
<1>3. job \in [Jobs -> Transaction] /\ JobsCovered
    BY <1>1, NoJobCovered DEF Init, JobsCovered
<1>4. fan \in FanTick /\ FanFromRows /\ JudgedUntold /\ AnnouncedOnce
    BY <1>1, NoFanTyped DEF Init, FanFromRows, JudgedUntold, AnnouncedOnce
<1>5. ToldNotPending /\ IngestedWasDetected
    BY <1>1 DEF Init, ToldNotPending, IngestedWasDetected
<1>6. QED BY <1>2, <1>3, <1>4, <1>5, TypeParts DEF IInv

----------------------------------------------------------------------------
(* Several fields of a transaction at once.                                  *)

Built(t, todo, found, inserted) ==
    [t EXCEPT !.todo = todo, !.found = found, !.inserted = inserted]
Retried(t, loaded, found) ==
    [t EXCEPT !.step = "retrying", !.retries = FALSE, !.loaded = loaded, !.found = found]

LEMMA WithBuilt ==
    ASSUME NEW t \in Transaction, NEW todo \in SUBSET Signals, NEW found \in [Signals -> Answer],
           NEW inserted \in SUBSET Signals, NEW p, p = Built(t, todo, found, inserted)
    PROVE  /\ p \in Transaction /\ p.todo = todo /\ p.inserted = inserted
           /\ p.new = t.new /\ p.failed = t.failed
<1>1. PICK a \in Transaction : a = [t EXCEPT !.todo = todo]
    BY DEF Transaction
<1>2. a.todo = todo /\ a.new = t.new /\ a.failed = t.failed
    BY <1>1 DEF Transaction
<1>3. PICK b \in Transaction : b = [a EXCEPT !.found = found]
    BY DEF Transaction
<1>4. b.todo = a.todo /\ b.new = a.new /\ b.failed = a.failed
    BY <1>3 DEF Transaction
<1>5. PICK c \in Transaction : c = [b EXCEPT !.inserted = inserted]
    BY DEF Transaction
<1>6. c.todo = b.todo /\ c.new = b.new /\ c.failed = b.failed /\ c.inserted = inserted
    BY <1>5 DEF Transaction
<1>7. p = c
    BY <1>1, <1>3, <1>5 DEF Built
<1>8. QED BY <1>2, <1>4, <1>6, <1>7

LEMMA WithRetried ==
    ASSUME NEW t \in Transaction, NEW loaded \in SUBSET Signals, NEW found \in [Signals -> Answer],
           NEW p, p = Retried(t, loaded, found)
    PROVE  /\ p \in Transaction /\ p.todo = t.todo /\ p.inserted = t.inserted
           /\ p.new = t.new /\ p.failed = t.failed
<1> DEFINE Same(u, v) ==
        u.todo = v.todo /\ u.inserted = v.inserted /\ u.new = v.new /\ u.failed = v.failed
<1>1. PICK a \in Transaction : a = [t EXCEPT !.step = "retrying"]
    BY DEF Transaction
<1>2. Same(a, t)
    BY <1>1 DEF Transaction
<1>3. PICK b \in Transaction : b = [a EXCEPT !.retries = FALSE]
    BY DEF Transaction
<1>4. Same(b, a)
    BY <1>3 DEF Transaction
<1>5. PICK c \in Transaction : c = [b EXCEPT !.loaded = loaded]
    BY DEF Transaction
<1>6. Same(c, b)
    BY <1>5 DEF Transaction
<1>7. PICK d \in Transaction : d = [c EXCEPT !.found = found]
    BY DEF Transaction
<1>8. Same(d, c)
    BY <1>7 DEF Transaction
<1>9. p = d
    BY <1>1, <1>3, <1>5, <1>7 DEF Retried
<1>10. QED BY <1>2, <1>4, <1>6, <1>8, <1>9

----------------------------------------------------------------------------
(* The steps of an open transaction.                                         *)

\* Transaction j goes on and the database stays as it is.
JobGoes(j) ==
    /\ job' \in [Jobs -> Transaction]
    /\ \A k \in Jobs \ {j} : job'[k] = job[k]
    /\ Covered(job'[j])
    /\ UNCHANGED <<dataVars, signalVars, outcomes, fan>>

LEMMA DetectGoes ==
    ASSUME IInv, NEW j \in Jobs, NEW intraday \in BOOLEAN, NEW new \in SUBSET Signals,
           Detect(j, intraday, new)
    PROVE  JobGoes(j)
<1>1. job \in [Jobs -> Transaction] /\ DataTyped
    BY TypeParts DEF IInv
<1>2. PICK failed \in SUBSET new, again \in SUBSET missed :
          job' = [job EXCEPT ![j] = [NoJob EXCEPT !.step = "building", !.retries = intraday,
                    !.new = new, !.failed = failed, !.todo = (new \ failed) \cup again]]
    BY DEF Detect
<1>3. job'[j] = [step |-> "building", retries |-> intraday, new |-> new,
                 todo |-> (new \ failed) \cup again, failed |-> failed, inserted |-> {},
                 found |-> [s \in Signals |-> None], loaded |-> {}]
    BY <1>1, <1>2 DEF NoJob
<1>4. job'[j] \in Transaction
    BY <1>1, <1>3 DEF Transaction, DataTyped, Answer
<1>5. Covered(job'[j])
    BY <1>1, <1>3 DEF Covered, DataTyped
<1>6. QED BY <1>1, <1>2, <1>4, <1>5 DEF Detect, JobGoes

LEMMA BuildGoes ==
    ASSUME IInv, NEW j \in Jobs, NEW s \in Signals, Build(j, s)
    PROVE  JobGoes(j)
<1> DEFINE t == job[j]
<1>1. job \in [Jobs -> Transaction] /\ DataTyped /\ Covered(t) /\ t \in Transaction
    BY TypeParts DEF IInv, JobsCovered
<1>2. s \in t.todo /\ UNCHANGED <<dataVars, signalVars, outcomes, fan>>
    BY DEF Build
<1>3. CASE s \in rows /\ job' = [job EXCEPT ![j].todo = @ \ {s}]
    <2>1. job'[j] = [t EXCEPT !.todo = t.todo \ {s}]
        BY <1>1, <1>3
    <2>2. /\ job'[j] \in Transaction /\ job'[j].todo = t.todo \ {s}
          /\ job'[j].new = t.new /\ job'[j].failed = t.failed /\ job'[j].inserted = t.inserted
        BY <1>1, <2>1 DEF Transaction
    <2>3. Covered(job'[j])
        BY <1>1, <1>3, <2>2 DEF Covered
    <2>4. QED BY <1>1, <1>2, <1>3, <2>2, <2>3 DEF JobGoes
<1>4. CASE \E a \in Analyses \cup {None} :
               job' = [job EXCEPT ![j] = [t EXCEPT !.todo = t.todo \ {s}, !.found[s] = a,
                                                   !.inserted = t.inserted \cup {s}]]
    <2>1. PICK a \in Answer :
               job' = [job EXCEPT ![j] = [t EXCEPT !.todo = t.todo \ {s}, !.found[s] = a,
                                                   !.inserted = t.inserted \cup {s}]]
        BY <1>4 DEF Answer
    <2>2. PICK found : found = [t.found EXCEPT ![s] = a]
        OBVIOUS
    <2>3. job'[j] = Built(t, t.todo \ {s}, found, t.inserted \cup {s})
        BY <1>1, <2>1, <2>2 DEF Built
    <2>4. found \in [Signals -> Answer] /\ t.todo \ {s} \in SUBSET Signals
          /\ t.inserted \cup {s} \in SUBSET Signals
        BY <1>1, <2>2 DEF Transaction
    <2>5. /\ job'[j] \in Transaction /\ job'[j].todo = t.todo \ {s}
          /\ job'[j].inserted = t.inserted \cup {s}
          /\ job'[j].new = t.new /\ job'[j].failed = t.failed
        BY <1>1, <2>3, <2>4, WithBuilt
    <2>6. Covered(job'[j])
        BY <1>1, <1>2, <2>5 DEF Covered
    <2>7. QED BY <1>1, <1>2, <2>1, <2>5, <2>6 DEF JobGoes
<1>5. QED BY <1>3, <1>4 DEF Build

LEMMA RetryGoes ==
    ASSUME IInv, NEW j \in Jobs, RetryLoad(j)
    PROVE  JobGoes(j)
<1> DEFINE t == job[j]
<1>1. job \in [Jobs -> Transaction] /\ DataTyped /\ Covered(t) /\ t \in Transaction
    BY TypeParts DEF IInv, JobsCovered
<1>2. PICK loaded \in SUBSET Signals :
          \E answer \in [loaded -> Answer] :
              job' = [job EXCEPT ![j] =
                        [t EXCEPT !.step = "retrying", !.retries = FALSE, !.loaded = loaded,
                                  !.found = [s \in Signals |->
                                       IF s \in loaded THEN answer[s] ELSE t.found[s]]]]
    <2> DEFINE stranded == {s \in rows \cup t.inserted :
                        IF s \in t.inserted THEN t.found[s] = None ELSE analysis[s] = None}
               Batch(cutoff) == Oldest(RetryLimit, {s \in stranded : s >= cutoff})
               Writes(loaded) ==
                  \E answer \in [loaded -> Answer] :
                     job' = [job EXCEPT ![j] =
                        [t EXCEPT !.step = "retrying", !.retries = FALSE, !.loaded = loaded,
                                  !.found = [s \in Signals |->
                                       IF s \in loaded THEN answer[s] ELSE t.found[s]]]]
    <2>1. stranded \subseteq Signals
        BY <1>1 DEF DataTyped, Transaction
    <2>2. \A cutoff \in Signals : Batch(cutoff) \in SUBSET Signals
        BY <2>1 DEF Oldest
    <2>3. \E cutoff \in Signals : Writes(Batch(cutoff))
        BY DEF RetryLoad, Answer
    <2> HIDE DEF Batch, Writes
    <2>4. \E loaded \in SUBSET Signals : Writes(loaded)
        BY <2>2, <2>3
    <2>5. QED BY <2>4 DEF Writes
<1>3. PICK answer \in [loaded -> Answer] :
          job' = [job EXCEPT ![j] =
                    [t EXCEPT !.step = "retrying", !.retries = FALSE, !.loaded = loaded,
                              !.found = [s \in Signals |->
                                   IF s \in loaded THEN answer[s] ELSE t.found[s]]]]
    BY <1>2
<1>4. PICK found : found = [s \in Signals |-> IF s \in loaded THEN answer[s] ELSE t.found[s]]
    OBVIOUS
<1>5. found \in [Signals -> Answer]
    BY <1>1, <1>4 DEF Transaction
<1>6. job'[j] = Retried(t, loaded, found)
    BY <1>1, <1>3, <1>4 DEF Retried
<1>7. /\ job'[j] \in Transaction /\ job'[j].todo = t.todo /\ job'[j].inserted = t.inserted
      /\ job'[j].new = t.new /\ job'[j].failed = t.failed
    BY <1>1, <1>4, <1>5, <1>6, WithRetried
<1>8. Covered(job'[j])
    BY <1>1, <1>7 DEF Covered
<1>9. QED BY <1>1, <1>2, <1>7, <1>8 DEF RetryLoad, JobGoes

LEMMA AbortGoes ==
    ASSUME IInv, NEW j \in Jobs, Abort(j)
    PROVE  JobGoes(j)
<1>1. job \in [Jobs -> Transaction]
    BY TypeParts DEF IInv
<1>2. QED BY <1>1, NoJobCovered DEF Abort, JobGoes

\* A transaction that goes on leaves the invariant as it is.
LEMMA JobKeeps ==
    ASSUME IInv, NEW j \in Jobs, JobGoes(j)
    PROVE  IInv'
<1>1. UNCHANGED <<ingested, missed, rows, analysis, status, past, told, outcomes, fan>>
    BY DEF JobGoes, dataVars, signalVars
<1>2. DataTyped' /\ (fan \in FanTick)' /\ FanFromRows' /\ ToldNotPending' /\ JudgedUntold'
      /\ IngestedWasDetected' /\ AnnouncedOnce'
    BY <1>1, TypeParts
    DEF IInv, DataTyped, FanFromRows, ToldNotPending, JudgedUntold, IngestedWasDetected,
        AnnouncedOnce
<1>3. JobsCovered' /\ (job \in [Jobs -> Transaction])'
    BY <1>1 DEF IInv, JobGoes, JobsCovered, Covered
<1>4. TypeOK'
    BY <1>2, <1>3 DEF TypeOK, DataTyped, Transaction, FanTick, Answer
<1>5. QED BY <1>2, <1>3, <1>4 DEF IInv

LEMMA CommitKeeps ==
    ASSUME IInv, NEW j \in Jobs, Commit(j)
    PROVE  IInv'
<1> DEFINE t == job[j]
<1>1. /\ job \in [Jobs -> Transaction] /\ fan \in FanTick /\ DataTyped
      /\ Covered(t) /\ t \in Transaction
    BY TypeParts DEF IInv, JobsCovered
<1>2. /\ ingested' = ingested \cup t.new /\ missed' = missed \cup t.failed
      /\ rows' = rows \cup t.inserted /\ t.todo = {}
      /\ job' = [job EXCEPT ![j] = NoJob]
      /\ UNCHANGED <<status, past, told, outcomes, fan>>
    BY DEF Commit
<1>3. /\ analysis' \in [Signals -> Answer]
      /\ \A s \in Signals : analysis[s] # None => analysis'[s] # None
    <2>1. analysis' = [s \in Signals |-> IF s \in Analysed(t) THEN t.found[s] ELSE analysis[s]]
        BY DEF Commit
    <2>2. \A s \in Analysed(t) : t.found[s] # None
        BY DEF Analysed
    <2>3. t.found \in [Signals -> Answer]
        BY <1>1 DEF Transaction
    <2>4. QED BY <1>1, <2>1, <2>2, <2>3 DEF DataTyped
<1>4. ingested' \subseteq Signals /\ missed' \subseteq ingested' /\ rows' \subseteq ingested'
    BY <1>1, <1>2 DEF DataTyped, Covered, Transaction
<1>5. DataTyped'
    BY <1>1, <1>2, <1>3, <1>4 DEF DataTyped
<1>6. (job \in [Jobs -> Transaction])' /\ (fan \in FanTick)'
    BY <1>1, <1>2, NoJobCovered
<1>7. TypeOK'
    BY <1>5, <1>6 DEF TypeOK, DataTyped, Transaction, FanTick, Answer
<1>8. JobsCovered'
    <2>1. \A k \in Jobs : Covered(job[k])
        BY DEF IInv, JobsCovered
    <2>2. ASSUME NEW k \in Jobs PROVE Covered(job[k])'
        <3>1. CASE k = j
            BY <1>1, <1>2, <3>1, NoJobCovered
        <3>2. CASE k # j
            BY <1>1, <1>2, <2>1, <3>2 DEF Covered
        <3>3. QED BY <3>1, <3>2
    <2>3. QED BY <2>2 DEF JobsCovered
<1>9. FanFromRows' /\ ToldNotPending' /\ JudgedUntold' /\ AnnouncedOnce'
    BY <1>2 DEF IInv, FanFromRows, ToldNotPending, JudgedUntold, AnnouncedOnce
<1>10. IngestedWasDetected'
    BY <1>1, <1>2 DEF IInv, IngestedWasDetected, Covered
<1>11. QED BY <1>7, <1>8, <1>9, <1>10 DEF IInv

----------------------------------------------------------------------------
(* The fan-out tick.                                                         *)

LEMMA FanKeeps ==
    ASSUME IInv, FanList \/ FanAbort \/ FanFlush \/ \E s \in Signals : FanLoad(s)
    PROVE  IInv'
<1>1. UNCHANGED <<ingested, missed, rows, analysis, status, past, told, outcomes, job>>
    BY DEF FanList, FanAbort, FanFlush, FanLoad, dataVars, signalVars
<1>2. /\ DataTyped' /\ (job \in [Jobs -> Transaction])' /\ JobsCovered' /\ ToldNotPending'
      /\ IngestedWasDetected'
    BY <1>1, TypeParts
    DEF IInv, DataTyped, JobsCovered, Covered, ToldNotPending, IngestedWasDetected
<1>3. fan \in FanTick /\ DataTyped /\ FanFromRows /\ ToldNotPending /\ JudgedUntold /\ AnnouncedOnce
    BY TypeParts DEF IInv
<1> DEFINE Good == fan' \in FanTick /\ FanFromRows' /\ JudgedUntold' /\ AnnouncedOnce'
<1>a. SUFFICES Good
    <2>1. ASSUME Good PROVE TypeOK'
        BY <1>2, <2>1 DEF TypeOK, DataTyped, Transaction, FanTick, Answer
    <2>2. QED BY <1>2, <2>1 DEF IInv
<1>4. CASE FanList
    <2>1. fan' = [open |-> TRUE, listed |-> {s \in rows \ past : status[s] = "pending"},
                  judged |-> {}, written |-> {}]
        BY <1>4 DEF FanList, NoFan
    <2>2. QED BY <1>1, <1>3, <2>1
              DEF FanTick, DataTyped, FanFromRows, JudgedUntold, AnnouncedOnce
<1>5. CASE FanAbort
    BY <1>1, <1>5, NoFanTyped DEF FanAbort, FanFromRows, JudgedUntold, AnnouncedOnce
<1>6. ASSUME NEW s \in Signals, FanLoad(s) PROVE Good
    <2>1. PICK judged \in SUBSET {s} :
              /\ fan' = [fan EXCEPT !.listed = @ \ {s}, !.judged = judged]
              /\ judged # {} => status[s] = "pending"
        BY <1>6 DEF FanLoad, Announceable
    <2>2. s \in fan.listed
        BY <1>6 DEF FanLoad
    <2>3. fan' = [open |-> fan.open, listed |-> fan.listed \ {s}, judged |-> judged,
                  written |-> fan.written]
        BY <1>3, <2>1 DEF FanTick
    <2>4. judged \cap told = {}
        BY <1>3, <2>1 DEF ToldNotPending
    <2>5. fan' \in FanTick
        BY <1>3, <2>3 DEF FanTick
    <2>6. QED BY <1>1, <1>3, <2>2, <2>3, <2>4, <2>5
              DEF FanFromRows, JudgedUntold, AnnouncedOnce
<1>7. CASE FanFlush
    <2>1. PICK written \in {fan.judged, {}} :
              fan' = [fan EXCEPT !.judged = {}, !.written = @ \cup written]
        BY <1>7 DEF FanFlush
    <2>2. fan' = [open |-> fan.open, listed |-> fan.listed, judged |-> {},
                  written |-> fan.written \cup written]
        BY <1>3, <2>1 DEF FanTick
    <2>3. fan' \in FanTick
        BY <1>3, <2>2 DEF FanTick
    <2>4. QED BY <1>1, <1>3, <2>2, <2>3 DEF FanFromRows, JudgedUntold, AnnouncedOnce
<1>8. QED BY <1>4, <1>5, <1>6, <1>7

\* Statuses and sets of signals move; the data and the transactions do not.
LEMMA StatusKeeps ==
    ASSUME IInv, FanCommit \/ Reap \/ (\E s \in Signals : Expire(s))
                 \/ \E scored \in SUBSET Signals : Evaluate(scored)
    PROVE  IInv'
<1>1. UNCHANGED <<ingested, missed, rows, analysis, job>>
    BY DEF FanCommit, Reap, Expire, Evaluate, dataVars, signalVars
<1>2. /\ fan \in FanTick /\ DataTyped /\ FanFromRows /\ ToldNotPending /\ JudgedUntold
      /\ AnnouncedOnce
    BY TypeParts DEF IInv
<1>3. (job \in [Jobs -> Transaction])' /\ JobsCovered' /\ IngestedWasDetected'
    BY <1>1, TypeParts DEF IInv, JobsCovered, Covered, IngestedWasDetected
<1> DEFINE Good == /\ DataTyped' /\ fan' \in FanTick /\ FanFromRows' /\ ToldNotPending'
                   /\ JudgedUntold' /\ AnnouncedOnce'
<1>a. SUFFICES Good
    <2>1. ASSUME Good PROVE TypeOK'
        BY <1>3, <2>1 DEF TypeOK, DataTyped, Transaction, FanTick, Answer
    <2>2. QED BY <1>3, <2>1 DEF IInv
<1>4. CASE FanCommit
    <2>1. /\ told' = told \cup fan.written /\ fan' = NoFan /\ UNCHANGED <<past, outcomes>>
          /\ status' = [s \in Signals |-> IF s \in fan.written THEN "alerted" ELSE status[s]]
        BY <1>4 DEF FanCommit
    <2>2. DataTyped'
        BY <1>1, <1>2, <2>1 DEF DataTyped, FanFromRows
    <2>3. ToldNotPending'
        BY <1>2, <2>1 DEF ToldNotPending, DataTyped, FanFromRows
    <2>4. QED BY <1>1, <2>1, <2>2, <2>3, NoFanTyped DEF FanFromRows, JudgedUntold, AnnouncedOnce
<1>5. CASE Reap
    <2>1. /\ status' = [s \in Signals |-> IF s \in Overdue THEN "expired" ELSE status[s]]
          /\ UNCHANGED <<past, told, outcomes, fan>>
        BY <1>5 DEF Reap
    <2>2. DataTyped'
        BY <1>1, <1>2, <2>1 DEF DataTyped
    <2>3. ToldNotPending'
        BY <1>2, <2>1 DEF ToldNotPending, DataTyped
    <2>4. QED BY <1>1, <1>2, <2>1, <2>2, <2>3 DEF FanFromRows, JudgedUntold, AnnouncedOnce
<1>6. CASE \E s \in Signals : Expire(s)
    BY <1>1, <1>2, <1>6
    DEF Expire, dataVars, DataTyped, FanFromRows, ToldNotPending, JudgedUntold, AnnouncedOnce
<1>7. CASE \E scored \in SUBSET Signals : Evaluate(scored)
    <2>1. PICK scored \in SUBSET past :
              outcomes' = outcomes \cup scored /\ UNCHANGED <<status, past, told, fan>>
        BY <1>7 DEF Evaluate, Oldest, Candidates, signalVars
    <2>2. QED BY <1>1, <1>2, <2>1
              DEF DataTyped, FanFromRows, ToldNotPending, JudgedUntold, AnnouncedOnce
<1>8. QED BY <1>4, <1>5, <1>6, <1>7

LEMMA StepIInv ==
    ASSUME IInv, [Next]_vars
    PROVE  IInv'
<1>1. CASE UNCHANGED vars
    BY <1>1
    DEF vars, IInv, TypeOK, JobsCovered, Covered, FanFromRows, ToldNotPending, JudgedUntold,
        IngestedWasDetected, AnnouncedOnce
<1>2. CASE \E j \in Jobs :
               \/ \E intraday \in BOOLEAN, new \in SUBSET Signals : Detect(j, intraday, new)
               \/ RetryLoad(j) \/ Abort(j) \/ \E s \in Signals : Build(j, s)
    BY <1>2, DetectGoes, RetryGoes, AbortGoes, BuildGoes, JobKeeps
<1>3. CASE \E j \in Jobs : Commit(j)
    BY <1>3, CommitKeeps
<1>4. CASE FanList \/ FanStep \/ FanAbort
    BY <1>4, FanKeeps, StatusKeeps DEF FanStep
<1>5. CASE (\E s \in Signals : Expire(s)) \/ Reap
           \/ \E scored \in SUBSET Signals : Evaluate(scored)
    BY <1>5, StatusKeeps
<1>6. QED BY <1>1, <1>2, <1>3, <1>4, <1>5 DEF Next

THEOREM Invariance == Spec => []IInv
<1>1. IInv /\ [Next]_vars => IInv'
    BY StepIInv
<1>2. QED BY <1>1, InitIInv, PTL DEF Spec

\* TypeOK: every row comes from ingested data, only analysed rows expire, only rows
\* are announced and only expired ones scored, whatever transactions overlap.
THEOREM TypeCorrect == Spec => []TypeOK
<1>1. IInv => TypeOK
    BY DEF IInv
<1>2. QED BY <1>1, Invariance, PTL

\* No datum is in the database that no cycle has turned into a signal, unless a
\* detector failed on it: a cycle that fails takes its data with it.
THEOREM IngestedAlwaysDetected == Spec => []IngestedWasDetected
<1>1. IInv => IngestedWasDetected
    BY DEF IInv
<1>2. QED BY <1>1, Invariance, PTL

\* No fan-out tick writes deliveries for a signal that has them, whatever backfills
\* and reapers commit around it.
THEOREM AlwaysAnnouncedOnce == Spec => []AnnouncedOnce
<1>1. IInv => AnnouncedOnce
    BY DEF IInv
<1>2. QED BY <1>1, Invariance, PTL
===========================================================================
