---------------------------- MODULE SignalProofs ---------------------------
(***************************************************************************)
(* What becomes of signals, whatever the constants: their deliveries        *)
(* (SignalDelivery), for any number of signals, recipients and crashes, and *)
(* how they are detected, analysed and scored (Evaluation), for any flows,  *)
(* prices and answers of the AI and the sources.  The two share no state.   *)
(***************************************************************************)
EXTENDS SignalDelivery, Evaluation, FiniteSums, SequenceTheorems

---------------------------------------------------------------------------
(* SignalDelivery.  What makes the commit of a tick harmless is that the     *)
(* rows it has loaded stay as they were, except that the reaper may fail     *)
(* them: SendAgrees.                                                         *)

\* The worker's copy of row d, before its send and after it.
ToSendAgrees(d) ==
    /\ row[d].status \in {"pending", "failed"}
    /\ send.view[d].status = "pending"
    /\ send.view[d].attempts = row[d].attempts
    /\ send.view[d].attempts < MaxAttempts

SentAgrees(d) ==
    /\ row[d].status \in {"pending", "failed"}
    /\ send.view[d].status \in {"pending", "delivered", "failed"}
    /\ send.view[d].status = "pending" => send.view[d].attempts < MaxAttempts
    /\ send.view[d].status = "delivered" => d \in reached

SendAgrees ==
    /\ send.todo \cap send.done = {}
    /\ \A d \in send.todo : ToSendAgrees(d)
    /\ \A d \in send.done : SentAgrees(d)

Inductive == TypeOK /\ SendAgrees /\ DeliveredWasSent /\ PendingHasAttempts

---------------------------------------------------------------------------
LEMMA IdleSendType ==
    /\ IdleSend \in [at : {"idle", "sending"}, todo : SUBSET Deliveries,
                     done : SUBSET Deliveries, flushed : SUBSET Deliveries,
                     view : [Deliveries -> Row], active : SUBSET Recipients,
                     off : SUBSET Recipients, follow : SUBSET Groups]
    /\ IdleSend.todo = {} /\ IdleSend.done = {}
BY BoundAssumption DEF IdleSend, NoRow, Row, DeliveryStatus

LEMMA InitInductive == Init => Inductive
<1> SUFFICES ASSUME Init PROVE Inductive
    OBVIOUS
<1>1. TypeOK
    BY IdleSendType, BoundAssumption
    DEF Init, TypeOK, NoRow, Row, DeliveryStatus, Recipients
<1>2. SendAgrees
    BY IdleSendType DEF Init, SendAgrees
<1>3. DeliveredWasSent /\ PendingHasAttempts
    BY DEF Init, DeliveredWasSent, PendingHasAttempts, NoRow
<1>4. QED BY <1>1, <1>2, <1>3 DEF Inductive

\* An attempt counted: the row's copy keeps its type.
LEMMA AttemptType ==
    ASSUME NEW v \in [Deliveries -> Row], NEW d \in Deliveries, NEW st \in DeliveryStatus,
           v[d].attempts < MaxAttempts
    PROVE  /\ [v EXCEPT ![d] = [status |-> st, attempts |-> v[d].attempts + 1]]
                 \in [Deliveries -> Row]
           /\ [v EXCEPT ![d] = [status |-> st, attempts |-> v[d].attempts + 1]][d]
                 = [status |-> st, attempts |-> v[d].attempts + 1]
           /\ \A e \in Deliveries \ {d} :
                 [v EXCEPT ![d] = [status |-> st, attempts |-> v[d].attempts + 1]][e] = v[e]
BY BoundAssumption DEF Row

\* What every outcome of a send does to the tick.
SendOutcome(d, st) ==
    /\ send.at = "sending" /\ d \in send.todo
    /\ send'.at = "sending"
    /\ send'.todo = send.todo \ {d} /\ send'.done = send.done \cup {d}
    /\ send'.view = [send.view EXCEPT ![d] = [status |-> st,
                                              attempts |-> send.view[d].attempts + 1]]
    /\ send'.flushed \in SUBSET Deliveries /\ send'.active \in SUBSET Recipients
    /\ send'.off \in SUBSET Recipients /\ send'.follow \in SUBSET Groups
    /\ send' = [at |-> send'.at, todo |-> send'.todo, done |-> send'.done,
                flushed |-> send'.flushed, view |-> send'.view, active |-> send'.active,
                off |-> send'.off, follow |-> send'.follow]
    /\ UNCHANGED <<alerted, targetVars, row, crashes>>
    /\ reached \subseteq reached' /\ reached' \subseteq Deliveries
    /\ excused' \subseteq Deliveries

LEMMA OutcomePreserves ==
    ASSUME Inductive, NEW d \in Deliveries, NEW st \in DeliveryStatus, SendOutcome(d, st),
           st \in {"pending", "delivered", "failed"},
           st = "pending" => send.view[d].attempts + 1 < MaxAttempts,
           st = "delivered" => d \in reached'
    PROVE  Inductive'
<1> DEFINE view == send.view
           counted == [status |-> st, attempts |-> view[d].attempts + 1]
<1>1. /\ view \in [Deliveries -> Row] /\ view[d].attempts \in Nat
      /\ view[d].attempts < MaxAttempts
      /\ send.todo \subseteq Deliveries /\ send.done \subseteq Deliveries
    BY BoundAssumption DEF Inductive, TypeOK, SendAgrees, ToSendAgrees, SendOutcome, Row
<1>2. /\ send'.view \in [Deliveries -> Row] /\ send'.view[d] = counted
      /\ \A e \in Deliveries \ {d} : send'.view[e] = view[e]
    BY <1>1, AttemptType DEF SendOutcome
<1>3. TypeOK'
    BY <1>1, <1>2 DEF Inductive, TypeOK, SendOutcome, targetVars
<1>4. SendAgrees'
  <2>1. send'.todo \cap send'.done = {}
      BY DEF SendOutcome, Inductive, SendAgrees
  <2>2. ASSUME NEW e \in send'.todo PROVE ToSendAgrees(e)'
      BY <1>1, <1>2, <2>2 DEF SendOutcome, Inductive, SendAgrees, ToSendAgrees
  <2>3. ASSUME NEW e \in send'.done PROVE SentAgrees(e)'
    <3>1. CASE e = d
        BY <1>1, <1>2, <3>1 DEF SendOutcome, Inductive, SendAgrees, ToSendAgrees, SentAgrees
    <3>2. CASE e # d
        BY <1>1, <1>2, <2>3, <3>2 DEF SendOutcome, Inductive, SendAgrees, SentAgrees
    <3>3. QED BY <3>1, <3>2
  <2>4. QED BY <2>1, <2>2, <2>3 DEF SendAgrees
<1>5. DeliveredWasSent' /\ PendingHasAttempts'
    BY DEF SendOutcome, Inductive, DeliveredWasSent, PendingHasAttempts
<1>6. QED BY <1>3, <1>4, <1>5 DEF Inductive

\* Each way a send may end is such an outcome.
LEMMA SendRowPreserves ==
    ASSUME Inductive, NEW d \in Deliveries, SendRow(d)
    PROVE  Inductive'
<1>1. /\ reached \subseteq Deliveries /\ excused \subseteq Deliveries
      /\ \A st \in DeliveryStatus :
            [send.view EXCEPT ![d] = [status |-> st, attempts |-> @.attempts + 1]]
            = [send.view EXCEPT ![d] = [status |-> st, attempts |-> send.view[d].attempts + 1]]
    BY DEF Inductive, TypeOK
<1>2. /\ "pending" \in DeliveryStatus /\ "delivered" \in DeliveryStatus
      /\ "failed" \in DeliveryStatus
    BY DEF DeliveryStatus
<1>3. CASE SendSucceeds(d)
  <2>1. SendOutcome(d, "delivered") /\ d \in reached'
      BY <1>1, <1>2, <1>3
      DEF SendSucceeds, Attempt, Reaches, SendOutcome, Inductive, TypeOK, targetVars
  <2>2. QED BY <1>2, <2>1, OutcomePreserves
<1>4. CASE SendErrs(d)
  <2>1. /\ AfterError(d) \in {"pending", "failed"}
        /\ AfterError(d) = "pending" => send.view[d].attempts + 1 < MaxAttempts
    <3>1. send.view[d].attempts \in Nat
        BY BoundAssumption DEF Inductive, TypeOK, Row
    <3>2. QED BY <3>1, BoundAssumption DEF AfterError
  <2>2. SendOutcome(d, AfterError(d))
      BY <1>1, <1>2, <1>4, <2>1
      DEF SendErrs, Attempt, Reaches, SendOutcome, Inductive, TypeOK, targetVars
  <2>3. QED BY <1>2, <2>1, <2>2, OutcomePreserves
<1>5. CASE SendRefused(d)
  <2>1. {d[2]} \cap send.active \subseteq Recipients
      BY DEF Inductive, TypeOK
  <2>2. SendOutcome(d, "failed")
      BY <1>1, <1>2, <1>5, <2>1
      DEF SendRefused, SendOutcome, Inductive, TypeOK, targetVars, ghosts
  <2>3. QED BY <1>2, <2>2, OutcomePreserves
<1>6. CASE SendMigrated(d)
  <2>1. PICK offNow \in SUBSET Recipients, followNow \in SUBSET Groups :
            Migrate(d, offNow, followNow)
    <3>1. {d[2]} \cap send.active \subseteq Recipients
        BY DEF Inductive, TypeOK
    <3>2. d[2] \in Groups
        BY <1>6 DEF SendMigrated, Migrate, IsMigrated
    <3>3. QED BY <1>6, <3>1, <3>2 DEF SendMigrated
  <2>2. SendOutcome(d, "failed")
      BY <1>1, <1>2, <2>1
      DEF Migrate, SendOutcome, Inductive, TypeOK, targetVars, ghosts
  <2>3. QED BY <1>2, <2>2, OutcomePreserves
<1>7. QED BY <1>3, <1>4, <1>5, <1>6 DEF SendRow

---------------------------------------------------------------------------
\* The other steps of the program.
LEMMA FanOutPreserves ==
    ASSUME Inductive, NEW s \in Signals, FanOut(s)
    PROVE  Inductive'
<1>1. PICK matched \in SUBSET Matchable :
          row' = [d \in Deliveries |->
                     IF d[1] = s /\ d[2] \in matched /\ row[d].status = "absent"
                     THEN [status |-> "pending", attempts |-> 0] ELSE row[d]]
    BY DEF FanOut
<1>2. row' \in [Deliveries -> Row]
    BY <1>1, BoundAssumption DEF Inductive, TypeOK, Row, DeliveryStatus
<1>3. \A d \in Deliveries :
          \/ row'[d] = row[d]
          \/ /\ row[d].status = "absent"
             /\ row'[d].status = "pending" /\ row'[d].attempts = 0
    BY <1>1
<1>4. TypeOK'
    BY <1>2 DEF Inductive, TypeOK, FanOut, targetVars, ghosts
<1>5. SendAgrees'
    BY <1>3 DEF Inductive, TypeOK, SendAgrees, ToSendAgrees, SentAgrees, FanOut, ghosts
<1>6. DeliveredWasSent' /\ PendingHasAttempts'
    BY <1>3, BoundAssumption
    DEF Inductive, DeliveredWasSent, PendingHasAttempts, FanOut, ghosts
<1>7. QED BY <1>4, <1>5, <1>6 DEF Inductive

LEMMA SendLoadPreserves ==
    ASSUME Inductive, SendLoad
    PROVE  Inductive'
<1>1. PICK retries \in SUBSET Due(TRUE) :
          send' = [IdleSend EXCEPT !.at = "sending", !.todo = Due(FALSE) \cup retries,
                      !.view = [d \in Deliveries |-> IF d \in Due(FALSE) \cup retries
                                                     THEN row[d] ELSE NoRow],
                      !.active = {d[2] : d \in {e \in Due(FALSE) \cup retries :
                                     IF e[2] \in Channels THEN open[e[2]] ELSE on[e[2]]}}]
    BY DEF SendLoad
<1> DEFINE due == Due(FALSE) \cup retries
<1>2. due \subseteq Deliveries /\ \A d \in due : row[d].status = "pending"
    BY DEF Due
<1>3. /\ send'.at = "sending" /\ send'.todo = due /\ send'.done = {}
      /\ send'.view = [d \in Deliveries |-> IF d \in due THEN row[d] ELSE NoRow]
    BY <1>1 DEF IdleSend
<1>4. NoRow \in Row
    BY BoundAssumption DEF NoRow, Row, DeliveryStatus
<1>5. TypeOK'
  <2>1. \A d \in Deliveries : d[2] \in Recipients
      BY DEF Deliveries
  <2>2. send'.active \subseteq Recipients
      BY <1>1, <1>2, <2>1 DEF IdleSend
  <2>3. send'.view \in [Deliveries -> Row]
      BY <1>3, <1>4 DEF Inductive, TypeOK
  <2>4. QED
      BY <1>1, <1>2, <2>2, <2>3, IdleSendType
      DEF Inductive, TypeOK, SendLoad, targetVars, ghosts, IdleSend
<1>6. SendAgrees'
  <2>1. ASSUME NEW d \in due PROVE ToSendAgrees(d)'
      BY <1>2, <1>3, <2>1 DEF ToSendAgrees, SendLoad, Inductive, PendingHasAttempts
  <2>2. QED BY <1>3, <2>1 DEF SendAgrees
<1>7. DeliveredWasSent' /\ PendingHasAttempts'
    BY DEF Inductive, SendLoad, DeliveredWasSent, PendingHasAttempts, ghosts
<1>8. QED BY <1>5, <1>6, <1>7 DEF Inductive

LEMMA SendCommitPreserves ==
    ASSUME Inductive, SendCommit
    PROVE  Inductive'
<1>1. send' = IdleSend /\ reached' = reached
    BY DEF SendCommit, ghosts
<1>2. \A d \in Deliveries :
          /\ d \notin send.done => row'[d] = row[d]
          /\ d \in send.done =>
                /\ row'[d].status = IF send.view[d].status = "pending" THEN row[d].status
                                    ELSE send.view[d].status
                /\ row'[d].attempts = send.view[d].attempts
    BY DEF SendCommit
<1>3. TypeOK'
  <2>1. row' \in [Deliveries -> Row]
      BY DEF SendCommit, Inductive, TypeOK, Row
  <2>2. /\ on' \in [Recipients -> BOOLEAN] /\ open' \in [Channels -> BOOLEAN]
        /\ chat' \in [Groups -> GroupChats \cup {NoChat}]
      BY DEF SendCommit, Inductive, TypeOK, GroupChats
  <2>3. QED BY <1>1, <2>1, <2>2, IdleSendType
               DEF SendCommit, Inductive, TypeOK, ghosts
<1>4. SendAgrees'
    BY <1>1, IdleSendType DEF SendAgrees
<1>5. DeliveredWasSent'
    BY <1>1, <1>2 DEF Inductive, DeliveredWasSent, SendAgrees, SentAgrees
<1>6. PendingHasAttempts'
    BY <1>2 DEF Inductive, PendingHasAttempts, SendAgrees, SentAgrees
<1>7. QED BY <1>3, <1>4, <1>5, <1>6 DEF Inductive

LEMMA ForgetsPreserves ==
    ASSUME Inductive, Forgets, crashes' \in 0 .. MaxCrashes
    PROVE  Inductive'
BY IdleSendType
DEF Inductive, TypeOK, Forgets, targetVars, SendAgrees, DeliveredWasSent, PendingHasAttempts

LEMMA FailStuckPreserves ==
    ASSUME Inductive, FailStuck
    PROVE  Inductive'
<1>1. PICK stuck \in SUBSET Due(FALSE) : Fail(stuck)
    BY DEF FailStuck
<1>2. \A d \in Deliveries :
          \/ row'[d] = row[d]
          \/ /\ row[d].status = "pending"
             /\ row'[d].status = "failed" /\ row'[d].attempts = row[d].attempts
    BY <1>1 DEF Fail, Due, Inductive, TypeOK, Row
<1>3. TypeOK'
    BY <1>1 DEF Fail, Inductive, TypeOK, Row, DeliveryStatus, targetVars, ghosts
<1>4. SendAgrees'
    BY <1>1, <1>2
    DEF Fail, Inductive, TypeOK, SendAgrees, ToSendAgrees, SentAgrees, ghosts
<1>5. DeliveredWasSent' /\ PendingHasAttempts'
    BY <1>1, <1>2 DEF Fail, Inductive, DeliveredWasSent, PendingHasAttempts, ghosts
<1>6. QED BY <1>3, <1>4, <1>5 DEF Inductive

\* The bot and Telegram change the recipients alone.
LEMMA TargetsPreserve ==
    ASSUME Inductive, TypeOK', UNCHANGED <<row, send, reached>>
    PROVE  Inductive'
BY DEF Inductive, SendAgrees, ToSendAgrees, SentAgrees, DeliveredWasSent, PendingHasAttempts

LEMMA StepPreserves == Inductive /\ [Next]_vars => Inductive'
<1> SUFFICES ASSUME Inductive, [Next]_vars PROVE Inductive'
    OBVIOUS
<1>1. ASSUME NEW s \in Signals, FanOut(s) PROVE Inductive'
    BY <1>1, FanOutPreserves
<1>2. CASE SendLoad
    BY <1>2, SendLoadPreserves
<1>3. CASE SendCommit
    BY <1>3, SendCommitPreserves
<1>4. CASE SendCollides
    BY <1>4, ForgetsPreserves DEF SendCollides, Inductive, TypeOK
<1>5. CASE Crash
    BY <1>5, ForgetsPreserves, BoundAssumption DEF Crash, Inductive, TypeOK
<1>6. ASSUME NEW d \in Deliveries, SendRow(d) PROVE Inductive'
    BY <1>6, SendRowPreserves
<1>7. CASE FailStuck
    BY <1>7, FailStuckPreserves
<1>8. ASSUME NEW u \in Channels, Start(u) PROVE Inductive'
    BY <1>8, TargetsPreserve DEF Start, Inductive, TypeOK, ghosts
<1>9. ASSUME NEW g \in Groups, NEW c \in GroupChats, GroupAdded(g, c) PROVE Inductive'
    BY <1>9, TargetsPreserve DEF GroupAdded, Inductive, TypeOK, ghosts
<1>10. ASSUME NEW r \in Recipients, SwitchedOff(r) PROVE Inductive'
    BY <1>10, TargetsPreserve DEF SwitchedOff, Inductive, TypeOK, ghosts
<1>11. ASSUME NEW c \in BasicChats, GroupMigrates(c) PROVE Inductive'
    BY <1>11, TargetsPreserve DEF GroupMigrates, Inductive, TypeOK, ghosts
<1>12. CASE UNCHANGED vars
    BY <1>12, TargetsPreserve DEF vars, targetVars, ghosts, Inductive, TypeOK
<1>13. QED
    BY <1>1, <1>2, <1>3, <1>4, <1>5, <1>6, <1>7, <1>8, <1>9, <1>10, <1>11, <1>12 DEF Next

---------------------------------------------------------------------------
LEMMA InductiveInvariant == Spec => []Inductive
<1>1. QED BY InitInductive, StepPreserves, PTL DEF Spec

\* The rows, the recipients and the worker's copies keep their types; a row is
\* never tried more than MaxAttempts times (send_pending_deliveries).
THEOREM TypeCorrect == Spec => []TypeOK
<1>1. Inductive => TypeOK
    BY DEF Inductive
<1>2. QED BY <1>1, InductiveInvariant, PTL

\* A row says DELIVERED only if its message reached the recipient, whatever the
\* reaper, the bot and crashes do between the send and its commit.
THEOREM DeliveredIsReal == Spec => []DeliveredWasSent
<1>1. Inductive => DeliveredWasSent
    BY DEF Inductive
<1>2. QED BY <1>1, InductiveInvariant, PTL

\* A row that waits for a retry has an attempt left (the attempt cap of
\* send_pending_deliveries).
THEOREM RetriesHaveAttempts == Spec => []PendingHasAttempts
<1>1. Inductive => PendingHasAttempts
    BY DEF Inductive
<1>2. QED BY <1>1, InductiveInvariant, PTL

LEMMA FinalStep ==
    Inductive /\ [Next]_vars =>
        [\A d \in Deliveries : row[d].status = "delivered" => row'[d].status = "delivered"]_vars
<1> SUFFICES ASSUME Inductive, [Next]_vars, NEW d \in Deliveries, row[d].status = "delivered"
             PROVE  row'[d].status = "delivered"
    OBVIOUS
<1>1. d \notin send.done
    BY DEF Inductive, SendAgrees, SentAgrees
<1>2. ASSUME NEW s \in Signals, FanOut(s) PROVE row'[d] = row[d]
    BY <1>2 DEF FanOut
<1>3. CASE SendCommit
    BY <1>1, <1>3 DEF SendCommit
<1>4. CASE FailStuck
    BY <1>4 DEF FailStuck, Fail, Due
<1>5. ASSUME NEW e \in Deliveries, SendRow(e) PROVE row' = row
    BY <1>5 DEF SendRow, SendSucceeds, SendErrs, SendRefused, SendMigrated, Migrate
<1>6. CASE SendLoad \/ SendCollides \/ Crash
    BY <1>6 DEF SendLoad, SendCollides, Crash, Forgets
<1>7. ASSUME NEW u \in Channels, Start(u) PROVE row' = row
    BY <1>7 DEF Start
<1>8. ASSUME NEW g \in Groups, NEW c \in GroupChats, GroupAdded(g, c) PROVE row' = row
    BY <1>8 DEF GroupAdded
<1>9. ASSUME NEW r \in Recipients, SwitchedOff(r) PROVE row' = row
    BY <1>9 DEF SwitchedOff
<1>10. ASSUME NEW c \in BasicChats, GroupMigrates(c) PROVE row' = row
    BY <1>10 DEF GroupMigrates
<1>11. CASE UNCHANGED vars
    BY <1>11 DEF vars
<1>12. QED
    BY <1>2, <1>3, <1>4, <1>5, <1>6, <1>7, <1>8, <1>9, <1>10, <1>11 DEF Next

\* DELIVERED is final: neither the reaper's UPDATE nor a stale tick's commit
\* takes it back.
THEOREM DeliveredStays == Spec => DeliveredIsFinal
<1>1. QED BY InductiveInvariant, FinalStep, PTL DEF Spec, DeliveredIsFinal

---------------------------------------------------------------------------
\* A message that reached its recipient, with nothing to excuse another one, is
\* recorded: on the row, or in the tick that is going to commit it.
Recorded(d) ==
    \/ row[d].status = "delivered"
    \/ d \in send.done /\ send.view[d].status = "delivered"

Accounted ==
    /\ send.at = "idle" => send.done = {}
    /\ \A d \in reached \ excused : Recorded(d)

\* Outcomes of a send, as far as Accounted goes.
LEMMA SendRowAccounted ==
    ASSUME Inductive, Accounted, NEW d \in Deliveries, SendRow(d)
    PROVE  Accounted'
<1>a. send.view \in [Deliveries -> Row] /\ reached \subseteq Deliveries
    BY DEF Inductive, TypeOK
<1>b. ASSUME NEW st, Attempt(d, st)
      PROVE  /\ d \in send.todo /\ send'.done = send.done \cup {d} /\ send'.at = "sending"
             /\ \A e \in Deliveries \ {d} : send'.view[e] = send.view[e]
    BY <1>a, <1>b DEF Attempt, Inductive, TypeOK
<1>c. ASSUME NEW offNow, NEW followNow, Migrate(d, offNow, followNow)
      PROVE  /\ d \in send.todo /\ send'.done = send.done \cup {d} /\ send'.at = "sending"
             /\ \A e \in Deliveries \ {d} : send'.view[e] = send.view[e]
    BY <1>a, <1>c DEF Migrate, Inductive, TypeOK
<1>d. ASSUME SendRefused(d)
      PROVE  /\ d \in send.todo /\ send'.done = send.done \cup {d} /\ send'.at = "sending"
             /\ \A e \in Deliveries \ {d} : send'.view[e] = send.view[e]
    BY <1>a, <1>d DEF SendRefused, Inductive, TypeOK
<1>1. /\ row' = row /\ d \in send.todo /\ send'.done = send.done \cup {d}
      /\ send'.at = "sending"
      /\ \A e \in Deliveries \ {d} : send'.view[e] = send.view[e]
  <2>1. row' = row
      BY DEF SendRow, SendSucceeds, SendErrs, SendRefused, SendMigrated, Migrate
  <2>2. QED BY <1>b, <1>c, <1>d, <2>1 DEF SendRow, SendSucceeds, SendErrs, SendMigrated
<1>2. d \notin send.done /\ row[d].status # "delivered"
    BY <1>1 DEF Inductive, SendAgrees, ToSendAgrees
<1>3. \A e \in Deliveries \ {d} : Recorded(e) => Recorded(e)'
    BY <1>1 DEF Recorded
<1>4. d \in reached => d \in excused
    BY <1>2 DEF Accounted, Recorded
<1>5. CASE SendSucceeds(d)
  <2>1. reached' = reached \cup {d} /\ excused' = excused
      BY <1>5 DEF SendSucceeds, Reaches
  <2>2. send'.view[d].status = "delivered"
      BY <1>a, <1>5 DEF SendSucceeds, Attempt
  <2>3. Recorded(d)'
      BY <1>1, <2>2 DEF Recorded
  <2>4. QED BY <1>a, <1>1, <1>3, <2>1, <2>3 DEF Accounted
<1>6. CASE SendErrs(d)
  <2>1. \/ reached' = reached /\ excused' = excused
        \/ reached' = reached \cup {d} /\ excused' = excused \cup {d}
      BY <1>6 DEF SendErrs, Reaches
  <2>2. QED BY <1>a, <1>1, <1>3, <1>4, <2>1 DEF Accounted
<1>7. CASE SendRefused(d) \/ SendMigrated(d)
  <2>1. reached' = reached /\ excused' = excused
      BY <1>7 DEF SendRefused, SendMigrated, Migrate, ghosts
  <2>2. QED BY <1>a, <1>1, <1>3, <1>4, <2>1 DEF Accounted
<1>8. QED BY <1>5, <1>6, <1>7 DEF SendRow

LEMMA AccountedStep == Inductive /\ Accounted /\ [Next]_vars => Accounted'
<1> SUFFICES ASSUME Inductive, Accounted, [Next]_vars PROVE Accounted'
    OBVIOUS
<1>1. reached \subseteq Deliveries
    BY DEF Inductive, TypeOK
<1>2. ASSUME NEW d \in Deliveries, row[d].status = "delivered"
      PROVE  row'[d].status = "delivered"
  <2>1. CASE vars' = vars
      BY <1>2, <2>1 DEF vars
  <2>2. CASE vars' # vars
      BY <1>2, <2>2, FinalStep
  <2>3. QED BY <2>1, <2>2
<1>3. ASSUME UNCHANGED <<send, reached, excused>> PROVE Accounted'
    BY <1>1, <1>2, <1>3 DEF Accounted, Recorded
<1>4. CASE SendLoad
  <2>1. UNCHANGED <<row, reached, excused>> /\ send.at = "idle" /\ send'.done = {}
      BY <1>4 DEF SendLoad, IdleSend, ghosts
  <2>2. send.done = {}
      BY <2>1 DEF Accounted
  <2>3. QED BY <2>1, <2>2 DEF Accounted, Recorded
<1>5. CASE SendCommit
  <2>1. /\ UNCHANGED <<reached, excused>> /\ send'.done = {}
        /\ \A d \in send.done \cap Deliveries : send.view[d].status = "delivered" =>
                                                    row'[d].status = "delivered"
      BY <1>5, IdleSendType DEF SendCommit, ghosts
  <2>2. QED BY <1>1, <1>2, <2>1 DEF Accounted, Recorded
<1>6. CASE SendCollides \/ Crash
  <2>1. /\ UNCHANGED <<row, reached>> /\ excused' = excused \cup (send.done \cap reached)
        /\ send'.done = {}
      BY <1>6, IdleSendType DEF SendCollides, Crash, Forgets
  <2>2. QED BY <1>1, <2>1 DEF Accounted, Recorded
<1>7. ASSUME NEW d \in Deliveries, SendRow(d) PROVE Accounted'
    BY <1>7, SendRowAccounted
<1>8. ASSUME NEW s \in Signals, FanOut(s) PROVE Accounted'
    BY <1>3, <1>8 DEF FanOut, ghosts
<1>9. CASE FailStuck
    BY <1>3, <1>9 DEF FailStuck, Fail, ghosts
<1>10. ASSUME NEW u \in Channels, Start(u) PROVE Accounted'
    BY <1>3, <1>10 DEF Start, ghosts
<1>11. ASSUME NEW g \in Groups, NEW c \in GroupChats, GroupAdded(g, c) PROVE Accounted'
    BY <1>3, <1>11 DEF GroupAdded, ghosts
<1>12. ASSUME NEW r \in Recipients, SwitchedOff(r) PROVE Accounted'
    BY <1>3, <1>12 DEF SwitchedOff, ghosts
<1>13. ASSUME NEW c \in BasicChats, GroupMigrates(c) PROVE Accounted'
    BY <1>3, <1>13 DEF GroupMigrates, ghosts
<1>14. CASE UNCHANGED vars
    BY <1>3, <1>14 DEF vars, ghosts
<1>15. QED
    BY <1>4, <1>5, <1>6, <1>7, <1>8, <1>9, <1>10, <1>11, <1>12, <1>13, <1>14 DEF Next

LEMMA AccountedInvariant == Spec => [](Inductive /\ Accounted)
<1>1. Init => Accounted
    BY IdleSendType DEF Init, Accounted
<1>2. QED BY <1>1, InitInductive, StepPreserves, AccountedStep, PTL DEF Spec

LEMMA ResendStep ==
    ASSUME Inductive, Accounted, [Next]_vars, NEW d \in Deliveries,
           d \in send'.done \ send.done, d \in reached
    PROVE  d \in excused
<1>1. ASSUME NEW e \in Deliveries, SendRow(e) PROVE d \in excused
  <2>1. e \in send.todo /\ send'.done = send.done \cup {e}
      BY <1>1 DEF SendRow, SendSucceeds, SendErrs, SendRefused, SendMigrated, Migrate, Attempt,
                  Inductive, TypeOK
  <2>2. d \in send.todo
      BY <2>1
  <2>3. row[d].status # "delivered" /\ d \notin send.done
      BY <2>2 DEF Inductive, SendAgrees, ToSendAgrees
  <2>4. QED BY <2>3 DEF Accounted, Recorded
<1>2. send' = send \/ send'.done = {} \/ \E e \in Deliveries : SendRow(e)
    BY IdleSendType
    DEF Next, vars, ghosts, targetVars, FanOut, SendLoad, SendCommit, SendCollides, Crash, Forgets,
        FailStuck, Fail, Start, GroupAdded, SwitchedOff, GroupMigrates, IdleSend
<1>3. QED BY <1>1, <1>2

\* A message that reached its recipient is sent again only after Telegram's answer
\* was lost or the tick that sent it was rolled back: not because the reaper, a
\* fan-out or the bot came between a send and its commit, for any number of them.
THEOREM ResendsAlwaysExcused == Spec => DuplicatesExcused
<1>1. Inductive /\ Accounted /\ [Next]_vars =>
          [\A d \in Deliveries :
              (d \in send'.done \ send.done /\ d \in reached) => d \in excused]_vars
    BY ResendStep
<1>2. QED BY <1>1, AccountedInvariant, PTL DEF Spec, DuplicatesExcused

---------------------------------------------------------------------------
(* Evaluation.                                                               *)

LEMMA MaxOfSet ==
    ASSUME NEW S \in SUBSET Int, IsFiniteSet(S), S # {}
    PROVE  Max(S) \in S /\ \A y \in S : y <= Max(S)
<1> DEFINE f == [x \in S |-> x]
<1>1. \A x \in S : f[x] = x /\ f[x] \in Int
    OBVIOUS
<1> HIDE DEF f
<1>2. \E x \in S : \A y \in S : f[y] <= f[x]
    BY <1>1, LargestBy
<1>3. \E x \in S : \A y \in S : x >= y
    BY <1>1, <1>2
<1>4. QED BY <1>3 DEF Max

LEMMA MinOfSet ==
    ASSUME NEW S \in SUBSET Nat, S # {}
    PROVE  Min(S) \in S /\ \A y \in S : Min(S) <= y
<1> DEFINE I == {n \in Nat : \A y \in S : n <= y}
<1>1. \E x \in S : \A y \in S : x <= y
    <2> SUFFICES ASSUME \A x \in S : \E y \in S : ~(x <= y) PROVE FALSE
        OBVIOUS
    <2>1. 0 \in I
        OBVIOUS
    <2>2. ASSUME NEW n \in I PROVE n + 1 \in I
        <3>1. n \in Nat /\ \A y \in S : y \in Nat /\ n <= y
            OBVIOUS
        <3>2. n \notin S
            <4> SUFFICES ASSUME n \in S PROVE FALSE
                OBVIOUS
            <4> HIDE DEF I
            <4>1. PICK y \in S : ~(n <= y)
                OBVIOUS
            <4>2. QED BY <3>1, <4>1
        <3>3. ASSUME NEW y \in S PROVE n + 1 <= y
            <4>1. y # n /\ n <= y /\ n \in Nat /\ y \in Nat
                BY <3>1, <3>2
            <4>2. QED BY <4>1
        <3>4. QED BY <3>1, <3>3
    <2> HIDE DEF I
    <2>3. I = Nat
        <3>1. I \in SUBSET Nat
            BY DEF I
        <3>2. QED BY <2>1, <2>2, <3>1, SetInduction
    <2>4. PICK y \in S : TRUE
        OBVIOUS
    <2>5. y \in Nat /\ y + 1 \in I
        BY <2>3, <2>4
    <2>6. QED BY <2>5 DEF I
<1>2. QED BY <1>1 DEF Min

---------------------------------------------------------------------------
\* Time.
LEMMA DayArithmetic ==
    ASSUME NEW m \in Nat
    PROVE  /\ DayOf(m) \in Nat /\ OpenOf(DayOf(m)) <= m /\ m < OpenOf(DayOf(m) + 1)
           /\ \A d \in Int : OpenOf(d) <= m <=> d <= DayOf(m)
BY DEF DayOf, OpenOf, Hours, HalfHoursADay

LEMMA DayMonotone ==
    ASSUME NEW m \in Nat, NEW n \in Nat, m <= n
    PROVE  DayOf(m) <= DayOf(n)
BY DEF DayOf, HalfHoursADay

LEMMA MomentsFacts ==
    \A t \in Moments : /\ t \in Nat /\ DayOf(t) \in FirstDay..LastDay
                       /\ t = OpenOf(DayOf(t)) + CronTime \/ t = OpenOf(DayOf(t)) + Afternoon
<1>1. \A d \in Nat : /\ DayOf(OpenOf(d) + CronTime) = d /\ OpenOf(d) + CronTime \in Nat
                     /\ DayOf(OpenOf(d) + Afternoon) = d /\ OpenOf(d) + Afternoon \in Nat
    BY DEF DayOf, OpenOf, Hours, HalfHoursADay, CronTime, Afternoon
<1>2. \A d \in (FirstDay..LastDay) \cup Afternoons : d \in Nat /\ d \in FirstDay..LastDay
    BY DaysAssumption
<1>3. QED BY <1>1, <1>2 DEF Moments
---------------------------------------------------------------------------
\* The detectors.
LEMMA LatestIsFinite ==
    ASSUME NEW n \in Nat, NEW rows, DOMAIN rows \subseteq 0..n, NEW asOf, NEW k
    PROVE  /\ Latest(rows, asOf, k) \subseteq DOMAIN rows
           /\ \A S \in SUBSET (DOMAIN rows) :
                 /\ IsFiniteSet(S) /\ Cardinality(S) \in Nat /\ (Cardinality(S) = 0 <=> S = {})
                 /\ S # {} => Max(S) \in S /\ \A d \in S : d <= Max(S)
<1>1. IsFiniteSet(0..n) /\ IsFiniteSet(DOMAIN rows)
    <2>1. IsFiniteSet(0..n)
        BY FS_Interval
    <2>2. QED BY <2>1, FS_Subset
<1>2. \A S \in SUBSET (DOMAIN rows) :
          IsFiniteSet(S) /\ Cardinality(S) \in Nat /\ (Cardinality(S) = 0 <=> S = {})
    BY <1>1, FS_Subset, FS_CardinalityType, FS_EmptySet
<1>3. ASSUME NEW S \in SUBSET (DOMAIN rows), S # {}
      PROVE  Max(S) \in S /\ \A d \in S : d <= Max(S)
    <2>1. S \in SUBSET Int
        OBVIOUS
    <2>2. QED BY <1>2, <1>3, <2>1, MaxOfSet
<1>4. QED BY <1>2, <1>3 DEF Latest

LEMMA SignType == \A x : Sign(x) \in {-1, 0, 1} /\ -Sign(x) \in {-1, 0, 1}
<1> SUFFICES ASSUME NEW x PROVE Sign(x) \in {-1, 0, 1} /\ -Sign(x) \in {-1, 0, 1}
    OBVIOUS
<1>1. Sign(x) = 1 \/ Sign(x) = -1 \/ Sign(x) = 0
    BY Zenon DEF Sign
<1>2. QED BY <1>1

\* A set of snapshots taken by c cycles or fewer, up to a moment.
SnapshotsTo(c, m) == {S \in SUBSET [cycle : 0..c, at : 0..m, regime : Regimes] : IsFiniteSet(S)}

LEMMA NewestFacts ==
    ASSUME NEW c \in Nat, NEW m \in Nat, NEW rows \in SnapshotsTo(c, m), rows # {}
    PROVE  Newest(rows) \in rows /\ \A r \in rows : r.cycle <= Newest(rows).cycle
<1> DEFINE f == [s \in rows |-> s.cycle]
<1>0. IsFiniteSet(rows) /\ rows \subseteq [cycle : 0..c, at : 0..m, regime : Regimes]
    BY DEF SnapshotsTo
<1>1. \A s \in rows : f[s] = s.cycle /\ f[s] \in Int
    BY <1>0
<1> HIDE DEF f
<1>2. \E s \in rows : \A r \in rows : f[r] <= f[s]
    BY <1>0, <1>1, LargestBy
<1>3. \E s \in rows : \A r \in rows : r.cycle <= s.cycle
    BY <1>1, <1>2
<1>4. QED BY <1>3 DEF Newest

\* The two latest snapshots, when they raise a hit: if the order of the cycles is that
\* of their moments, every other snapshot is of an earlier day.
InOrder(rows) == \A r, s \in rows : r.cycle <= s.cycle => r.at <= s.at

LEMMA RegimeShiftFacts ==
    ASSUME NEW c \in Nat, NEW m \in Nat, NEW rows \in SnapshotsTo(c, m), NEW asOf \in Int,
           NEW h \in RegimeShift(rows, asOf)
    PROVE  \E latest \in rows :
              /\ h = [date |-> DayOf(latest.at), mark |-> latest.regime]
              /\ InOrder(rows) => \A r \in rows : DayOf(r.at) <= asOf =>
                                      r = latest \/ DayOf(r.at) < DayOf(latest.at)
<1> DEFINE known == {s \in rows : DayOf(s.at) <= asOf}
           latest == Newest(known)
           previous == Newest(known \ {latest})
           quiet == \/ Cardinality(known) < 2
                    \/ latest.regime = previous.regime
                    \/ DayOf(previous.at) >= DayOf(latest.at)
<1>1. ~quiet /\ h \in Hit(DayOf(latest.at), latest.regime)
    <2>1. RegimeShift(rows, asOf) = IF quiet THEN NoHit ELSE Hit(DayOf(latest.at), latest.regime)
        BY Zenon DEF RegimeShift
    <2> HIDE DEF quiet, latest
    <2>2. QED BY <2>1 DEF NoHit
<1>2. \A r \in rows : r.at \in Nat
    BY DEF SnapshotsTo
<1>3. \A S \in SUBSET rows : S \in SnapshotsTo(c, m)
    BY FS_Subset DEF SnapshotsTo
<1>4. known \in SUBSET rows /\ IsFiniteSet(known) /\ known # {}
    <2>1. IsFiniteSet(known)
        BY <1>3 DEF SnapshotsTo
    <2>2. QED BY <1>1, <2>1, FS_EmptySet
<1>5. latest \in known
    BY <1>3, <1>4, NewestFacts
<1> HIDE DEF latest
<1>6. known \ {latest} # {}
    <2> HIDE DEF known
    <2>1. Cardinality(known \ {latest}) = Cardinality(known) - 1 /\ IsFiniteSet(known \ {latest})
        BY <1>4, <1>5, FS_RemoveElement
    <2>2. Cardinality(known) \in Nat
        BY <1>4, FS_CardinalityType
    <2>3. QED BY <1>1, <2>1, <2>2, FS_EmptySet
<1>7. previous \in known \ {latest} /\ \A r \in known \ {latest} : r.cycle <= previous.cycle
    <2>1. known \ {latest} \in SUBSET rows
        BY <1>4
    <2>2. QED BY <1>3, <1>6, <2>1, NewestFacts
<1> HIDE DEF previous
<1>8. ASSUME InOrder(rows), NEW r \in known \ {latest}
      PROVE  DayOf(r.at) < DayOf(latest.at)
    <2>1. DayOf(previous.at) \in Nat /\ DayOf(latest.at) \in Nat
        BY <1>2, <1>5, <1>7, DayArithmetic
    <2>2. r.at <= previous.at
        BY <1>4, <1>7, <1>8 DEF InOrder
    <2>3. DayOf(r.at) \in Nat /\ DayOf(r.at) <= DayOf(previous.at)
        BY <1>2, <1>7, <2>2, DayArithmetic, DayMonotone
    <2>4. QED BY <1>1, <2>1, <2>3
<1>9. QED BY <1>1, <1>5, <1>8 DEF Hit

LEMMA FlowAnomalyFacts ==
    ASSUME NEW n \in Nat, NEW rows, DOMAIN rows \subseteq 0..n, NEW asOf,
           NEW h \in FlowAnomaly(rows, asOf)
    PROVE  h.date \in Latest(rows, asOf, FlowLookback) /\ h.mark \in Nat \X {-1, 0, 1}
<1> DEFINE nonzero == {d \in Latest(rows, asOf, FlowLookback) : rows[d] # 0}
           broke == Max(nonzero)
           streak == {d \in nonzero \ {broke} : \A e \in nonzero \ {broke} :
                         e >= d => Sign(rows[e]) = -Sign(rows[broke])}
<1>1. FlowAnomaly(rows, asOf) =
         IF nonzero = {} \/ Cardinality(streak) < MinStreak THEN NoHit
         ELSE Hit(broke, <<Cardinality(streak), -Sign(rows[broke])>>)
    BY Zenon DEF FlowAnomaly
<1>2. nonzero \in SUBSET (DOMAIN rows) /\ streak \in SUBSET (DOMAIN rows)
    BY LatestIsFinite
<1>3. Cardinality(streak) \in Nat /\ (nonzero # {} => broke \in nonzero)
    <2> HIDE DEF nonzero, streak
    <2>1. QED BY <1>2, LatestIsFinite
<1>4. -Sign(rows[broke]) \in {-1, 0, 1}
    BY SignType
<1>5. broke \in nonzero => broke \in Latest(rows, asOf, FlowLookback)
    OBVIOUS
<1> HIDE DEF nonzero, broke, streak
<1>6. nonzero # {} /\ h = [date |-> broke, mark |-> <<Cardinality(streak), -Sign(rows[broke])>>]
    BY <1>1 DEF NoHit, Hit
<1>7. QED BY <1>3, <1>4, <1>5, <1>6

LEMMA MagnitudeFacts ==
    ASSUME NEW n \in Nat, NEW rows, DOMAIN rows \subseteq 0..n, NEW asOf, NEW regime,
           NEW h \in Magnitude(rows, asOf, regime)
    PROVE  h.date \in Latest(rows, asOf, MagLookback) /\ h.mark \in {-1, 0, 1}
<1> DEFINE days == Latest(rows, asOf, MagLookback)
           last == Max(days)
           large == Size(rows[last]) > Percentile(rows, days, MagnitudePercent(regime))
<1>1. Magnitude(rows, asOf, regime) =
         IF Cardinality(days) < MinHistory \/ rows[last] = 0 \/ ~large THEN NoHit
         ELSE Hit(last, Sign(rows[last]))
    BY Zenon DEF Magnitude
<1>2. days \in SUBSET (DOMAIN rows)
    BY LatestIsFinite
<1> HIDE DEF days
<1>3. Cardinality(days) \in Nat /\ (Cardinality(days) = 0 <=> days = {}) /\ (days # {} => last \in days)
    BY <1>2, LatestIsFinite
<1> HIDE DEF last, large
<1>4. ~(Cardinality(days) < MinHistory) /\ h = [date |-> last, mark |-> Sign(rows[last])]
    BY <1>1 DEF NoHit, Hit
<1>5. MinHistory \in Nat \ {0}
    BY FlowParametersAssumption
<1>6. QED BY <1>3, <1>4, <1>5, SignType DEF days

LEMMA AccelerationFacts ==
    ASSUME NEW n \in Nat, NEW rows, DOMAIN rows \subseteq 0..n, NEW asOf,
           NEW h \in Acceleration(rows, asOf)
    PROVE  h.date \in Latest(rows, asOf, 3 * AccWindow) /\ h.mark \in {-1, 0, 1}
<1> DEFINE days == Latest(rows, asOf, 3 * AccWindow)
           Window(k) == {d \in days : Cardinality({e \in days : e < d}) \div AccWindow = k}
           SlopeTo(k) == SumOn(rows, Window(k)) - SumOn(rows, Window(k - 1))
           change == SlopeTo(2) - SlopeTo(1)
           flat == \/ Size(SlopeTo(1)) < MinSlope
                   \/ 100 * Size(change) < AccPercent * Size(SlopeTo(1))
           mark == IF change > 0 THEN 1 ELSE -1
           few == Cardinality(days) < 3 * AccWindow
<1>1. Acceleration(rows, asOf) = IF few \/ flat THEN NoHit ELSE Hit(Max(days), mark)
    BY Zenon DEF Acceleration
<1>2. days \in SUBSET (DOMAIN rows)
    BY LatestIsFinite
<1>3. mark \in {-1, 0, 1}
    OBVIOUS
<1> HIDE DEF days, mark, flat
<1>4. Cardinality(days) \in Nat /\ (Cardinality(days) = 0 <=> days = {}) /\ (days # {} => Max(days) \in days)
    BY <1>2, LatestIsFinite
<1>5. ~(Cardinality(days) < 3 * AccWindow) /\ h = [date |-> Max(days), mark |-> mark]
    BY <1>1 DEF NoHit, Hit
<1>6. AccWindow \in Nat \ {0}
    BY FlowParametersAssumption
<1>7. QED BY <1>3, <1>4, <1>5, <1>6 DEF days

LEMMA DivergenceFacts ==
    ASSUME NEW n \in Nat, NEW rows, DOMAIN rows \subseteq 0..n, NEW closes, NEW asOf,
           NEW h \in Divergence(rows, closes, asOf)
    PROVE  h.date \in Latest(rows, asOf, DivLookback) /\ h.mark \in {-1, 0, 1}
<1> DEFINE days == Latest(rows, asOf, DivLookback)
           sign == Sign(rows[Max(days)])
           loaded == [d \in {e \in DOMAIN closes : Min(days) - 1 <= e /\ e <= Max(days) + 1}
                          |-> closes[d]]
           first == CloseOnOrBefore(loaded, Min(days))
           last == CloseOnOrBefore(loaded, Max(days))
           few == Cardinality(days) < DivLookback
           quiet == \/ \E d \in days : Sign(rows[d]) # sign \/ rows[d] = 0
                    \/ first <= 0 \/ last = 0
                    \/ Sign(last - first) # -sign
                    \/ 100 * Size(last - first) < DivPercent * first
                    \/ Size(SumOn(rows, days)) < MinFlowSum
<1>1. Divergence(rows, closes, asOf) = IF few \/ quiet THEN NoHit ELSE Hit(Max(days), sign)
    BY Zenon DEF Divergence
<1>2. days \in SUBSET (DOMAIN rows)
    BY LatestIsFinite
<1>3. sign \in {-1, 0, 1}
    BY SignType
<1> HIDE DEF days, sign, quiet
<1>4. Cardinality(days) \in Nat /\ (Cardinality(days) = 0 <=> days = {}) /\ (days # {} => Max(days) \in days)
    BY <1>2, LatestIsFinite
<1>5. ~(Cardinality(days) < DivLookback) /\ h = [date |-> Max(days), mark |-> sign]
    BY <1>1 DEF NoHit, Hit
<1>6. DivLookback \in Nat \ {0}
    BY FlowParametersAssumption
<1>7. QED BY <1>3, <1>4, <1>5, <1>6 DEF days

\* What a hit of the followed detector is made of.
LEMMA HitsAreHits ==
    ASSUME followed \in Detectors, NEW rows, NEW snaps, NEW regime, NEW source, NEW asOf,
           NEW h \in Detect(followed, rows, snaps, regime, source, asOf)
    PROVE  \E date, mark : h = [date |-> date, mark |-> mark]
<1>1. CASE followed = "flow_anomaly"
    BY <1>1 DEF Detect, FlowAnomaly, Hit, NoHit
<1>2. CASE followed = "magnitude"
    BY <1>2 DEF Detect, Magnitude, Hit, NoHit
<1>3. CASE followed = "acceleration"
    BY <1>3 DEF Detect, Acceleration, Hit, NoHit
<1>4. CASE followed = "divergence"
    BY <1>4 DEF Detect, Divergence, Hit, NoHit
<1>5. CASE followed = "regime_shift"
    BY <1>5 DEF Detect, RegimeShift, Hit, NoHit
<1>6. QED BY <1>1, <1>2, <1>3, <1>4, <1>5 DEF Detectors

LEMMA HitsTyped ==
    ASSUME followed \in Followed,
           NEW n \in Nat, NEW rows, DOMAIN rows \subseteq 0..n,
           NEW c \in Nat, NEW m \in Nat, NEW snaps \in SnapshotsTo(c, m),
           NEW regime, NEW source, NEW asOf \in Int,
           NEW h \in Detect(followed, rows, snaps, regime, source, asOf)
    PROVE  h \in HitRecords
<1>0. \A asof, k : Latest(rows, asof, k) \subseteq Nat
    BY DEF Latest
<1>1. h.date \in Nat /\ h.mark \in Marks
    <2>1. CASE followed = "flow_anomaly"
        BY <1>0, <2>1, FlowAnomalyFacts DEF Detect, Marks
    <2>2. CASE followed = "magnitude"
        BY <1>0, <2>2, MagnitudeFacts DEF Detect, Marks
    <2>3. CASE followed = "acceleration"
        BY <1>0, <2>3, AccelerationFacts DEF Detect, Marks
    <2>4. CASE followed = "divergence"
        <3>1. h \in Divergence(rows, Closes(BarsOf(source)), asOf)
            BY <2>4 DEF Detect, NoHit
        <3>2. QED BY <1>0, <2>4, <3>1, DivergenceFacts DEF Marks
    <2>5. CASE followed = "regime_shift"
        <3>1. PICK latest \in snaps : h = [date |-> DayOf(latest.at), mark |-> latest.regime]
            BY <2>5, RegimeShiftFacts DEF Detect
        <3>2. latest.at \in Nat /\ latest.regime \in Regimes
            BY DEF SnapshotsTo
        <3>3. QED BY <2>5, <3>1, <3>2, DayArithmetic DEF Marks
    <2>6. QED BY <2>1, <2>2, <2>3, <2>4, <2>5, ChoicesAssumption DEF Detectors
<1>2. PICK date, mark : h = [date |-> date, mark |-> mark]
    BY ChoicesAssumption, HitsAreHits
<1>3. QED BY <1>1, <1>2 DEF HitRecords

---------------------------------------------------------------------------
\* Prices and bars.
Priced == /\ now \in DOMAIN price /\ \A t \in DOMAIN price : t \in Moments /\ t <= now
          /\ price \in [DOMAIN price -> Prices]

\* The latest price before a moment, if there is one.
LEMMA PastPrices ==
    ASSUME Priced, NEW S \in SUBSET (DOMAIN price)
    PROVE  /\ IsFiniteSet(S) /\ S \subseteq Nat
           /\ S # {} => Max(S) \in S /\ \A t \in S : t <= Max(S)
<1>1. DOMAIN price \subseteq 0..now /\ now \in Nat
    BY MomentsFacts DEF Priced
<1>2. IsFiniteSet(0..now)
    BY <1>1, FS_Interval
<1>3. IsFiniteSet(S) /\ S \in SUBSET Int
    BY <1>1, <1>2, FS_Subset
<1>4. QED BY <1>1, <1>3, MaxOfSet

LEMMA InForceFacts ==
    ASSUME Priced, NEW m
    PROVE  LET past == {t \in DOMAIN price : t < m} IN
           /\ past = {} => InForceAt(m) = StartPrice
           /\ past # {} => /\ Max(past) \in past /\ \A t \in past : t <= Max(past)
                           /\ InForceAt(m) = price[Max(past)]
           /\ InForceAt(m) \in Prices /\ InForceAt(m) \in Nat \ {0}
<1> DEFINE past == {t \in DOMAIN price : t < m}
<1>1. InForceAt(m) = IF past = {} THEN StartPrice ELSE price[Max(past)]
    BY DEF InForceAt
<1>2. past \in SUBSET (DOMAIN price)
    OBVIOUS
<1> HIDE DEF past
<1>3. past # {} => Max(past) \in past /\ \A t \in past : t <= Max(past)
    BY <1>2, PastPrices
<1>4. InForceAt(m) \in Prices
    BY <1>1, <1>2, <1>3, PricesAssumption DEF Priced
<1>5. QED BY <1>1, <1>3, <1>4, PricesAssumption DEF past

LEMMA PremiumType == \A source \in Sources : Premium[source] \in Nat
BY PricesAssumption DEF Sources

LEMMA CloseType ==
    ASSUME Priced, NEW up \in Nat, NEW day
    PROVE  Bar(day, up).close = InForceAt(OpenOf(day + 1)) + up /\ Bar(day, up).close \in Nat \ {0}
<1>1. Bar(day, up).close = InForceAt(OpenOf(day + 1)) + up
    BY DEF Bar
<1>2. InForceAt(OpenOf(day + 1)) \in Nat \ {0}
    BY InForceFacts, Zenon
<1>3. QED BY <1>1, <1>2

\* What a source serves are its bars, up to today.
LEMMA ServedFacts ==
    ASSUME NEW source \in Sources, NEW up, NEW from, NEW to, now \in Nat
    PROVE  LET bars == Served(source, up, from, to) IN
           /\ \A d \in DOMAIN bars : /\ d \in 1..DayOf(now) /\ bars[d] = Bar(d, Premium[source])
                                     /\ from <= OpenOf(d) /\ OpenOf(d) <= to
           /\ source \in up => \A d \in 1..DayOf(now) :
                  from <= OpenOf(d) /\ OpenOf(d) <= to => d \in DOMAIN bars
BY DayArithmetic DEF Served, Fetched, BarsOf

LEMMA FirstUpFacts ==
    ASSUME NEW up \in SUBSET Sources
    PROVE  FirstUp(up) \in up \cup {NoSource} /\ (up # {} => FirstUp(up) \in Sources)
BY DEF FirstUp, Sources, NoSource

LEMMA CloseOnOrBeforeType ==
    ASSUME NEW n \in Nat, NEW closes, NEW day, DOMAIN closes \subseteq 0..n,
           \A d \in DOMAIN closes : closes[d] \in Nat
    PROVE  CloseOnOrBefore(closes, day) \in Nat
<1> DEFINE near == {d \in DOMAIN closes : day - 5 <= d /\ d <= day}
<1>1. CloseOnOrBefore(closes, day) = IF near = {} THEN 0 ELSE closes[Max(near)]
    BY DEF CloseOnOrBefore
<1>2. near \in SUBSET (DOMAIN closes)
    OBVIOUS
<1> HIDE DEF near
<1>3. near # {} => Max(near) \in near
    BY <1>2, LatestIsFinite
<1>4. QED BY <1>1, <1>2, <1>3

---------------------------------------------------------------------------
\* What a step may do to a signal: an analysis, a price and the votes are filled in
\* once, each where it is missing.
Voted(s, t) ==
    \E source \in {s.source, "binance"} \ {NoSource}, up \in SUBSET Sources :
        t.confirmed = Confirmation(t.analysis.action, followed, Served(source, up, 0, now), s.created, s.regime)

Filled(s, t) ==
    /\ t \in SignalRecords
    /\ t.cycle = s.cycle /\ t.asset = s.asset /\ t.date = s.date /\ t.mark = s.mark
    /\ t.created = s.created /\ t.regime = s.regime
    /\ \/ t.analysis = s.analysis /\ t.expires = s.expires
       \/ /\ s.analysis = Undecided /\ t.analysis \in Answers
          /\ t.expires = now + HorizonLength[t.analysis.horizon]
    /\ \/ t.price = s.price /\ t.source = s.source
       \/ s.price = NoPrice /\ s.source = NoSource /\ s.asset = "BTC" /\ t.source \in Sources
    /\ \/ t.confirmed = s.confirmed
       \/ s.confirmed = Unscored /\ s.asset = "BTC" /\ Voted(s, t)

\* Votes need an analysis, and the source is that of a price.
Staged(s) == /\ s.analysis = Undecided => s.confirmed = Unscored
             /\ s.price = NoPrice => s.source = NoSource

LEMMA ConfirmationType ==
    ASSUME NEW action, NEW type, NEW bars, NEW reference, NEW regime
    PROVE  /\ Confirmation(action, type, bars, reference, regime) \in Votes
           /\ DirectionOf(action) = 0 => Confirmation(action, type, bars, reference, regime) = Unscored
<1> DEFINE vote == PriceVote(bars, reference)
           votes == <<vote, RegimeVote(type, regime)>>
           score == Cardinality({v \in 1..2 : votes[v] * DirectionOf(action) > 0})
<1>1. Confirmation(action, type, bars, reference, regime) =
         IF DirectionOf(action) = 0 THEN Nothing ELSE [none |-> FALSE, price |-> vote, score |-> score]
    BY Zenon DEF Confirmation
<1>2. vote \in {-1, 0, 1}
    BY Zenon DEF PriceVote
<1>3. score \in Nat
    <2>1. IsFiniteSet(1..2)
        <3>1. 1 \in Int /\ 2 \in Int
            OBVIOUS
        <3>2. QED BY <3>1, FS_Interval, Zenon
    <2>2. {v \in 1..2 : votes[v] * DirectionOf(action) > 0} \in SUBSET (1..2)
        OBVIOUS
    <2>3. QED BY <2>1, <2>2, FS_Subset, FS_CardinalityType
<1> HIDE DEF vote, score
<1>4. QED BY <1>1, <1>2, <1>3 DEF Votes, Nothing, Unscored

LEMMA HorizonType == \A a \in Answers : HorizonLength[a.horizon] \in Nat \ {0}
<1> SUFFICES ASSUME NEW a \in Answers PROVE HorizonLength[a.horizon] \in Nat \ {0}
    OBVIOUS
<1>1. a.horizon \in {"scalp", "swing", "position"}
    BY DEF Answers, HorizonLength
<1>2. QED BY <1>1 DEF HorizonLength, Hours

LEMMA FilledSelf == \A s \in SignalRecords : Filled(s, s)
BY DEF Filled

LEMMA AnalysedFills ==
    ASSUME now \in Nat, NEW s \in SignalRecords, NEW analysis \in Answers \cup {Undecided},
           NEW up \in SUBSET Sources, s.analysis = Undecided, Staged(s)
    PROVE  LET t == Analysed(s, analysis, up) IN
           Filled(s, t) /\ Staged(t) /\ t.price = s.price /\ t.source = s.source
<1> DEFINE t == Analysed(s, analysis, up)
           u == WithAnalysis(s, analysis)
<1> SUFFICES Filled(s, t) /\ Staged(t) /\ t.price = s.price /\ t.source = s.source
    OBVIOUS
<1>1. CASE analysis = Undecided
    <2>1. t = s
        BY <1>1 DEF Analysed
    <2>2. QED BY <2>1, FilledSelf DEF Staged
<1>2. CASE analysis # Undecided
    <2>1. /\ analysis \in Answers /\ u.analysis = analysis
          /\ u.expires = now + HorizonLength[analysis.horizon] /\ u.expires \in Nat
          /\ u.cycle = s.cycle /\ u.asset = s.asset /\ u.date = s.date /\ u.mark = s.mark
          /\ u.created = s.created
          /\ u.regime = s.regime /\ u.price = s.price /\ u.source = s.source
          /\ u.confirmed = s.confirmed /\ s.confirmed = Unscored
        BY <1>2, HorizonType DEF WithAnalysis, SignalRecords, Staged
    <2>2. u \in SignalRecords
        BY <2>1 DEF WithAnalysis, SignalRecords
    <2>3. CASE u.source = NoSource \/ u.asset = "MARKET"
        <3>1. t = u
            BY <1>2, <2>3 DEF Analysed, WithConfirmation
        <3> HIDE DEF t, u
        <3>2. QED BY <1>2, <2>1, <2>2, <3>1 DEF Filled, Staged
    <2>4. CASE ~(u.source = NoSource \/ u.asset = "MARKET")
        <3> DEFINE c == Confirmation(u.analysis.action, followed, Served(u.source, up, 0, now), u.created, u.regime)
        <3>1. t = [u EXCEPT !.confirmed = c]
            BY <1>2, <2>4 DEF Analysed, WithConfirmation
        <3>2. c \in Votes
            BY ConfirmationType
        <3> HIDE DEF u
        <3>3. Voted(s, [u EXCEPT !.confirmed = c])
            <4>1. u.source \in {s.source, "binance"} \ {NoSource}
                BY <2>1, <2>4
            <4>2. [u EXCEPT !.confirmed = c].analysis = u.analysis /\ [u EXCEPT !.confirmed = c].confirmed = c
                <5> HIDE DEF c
                <5> QED BY <2>2 DEF SignalRecords
            <4>3. c = Confirmation(u.analysis.action, followed, Served(u.source, up, 0, now), s.created, s.regime)
                BY <2>1
            <4> HIDE DEF c
            <4>4. QED BY <4>1, <4>2, <4>3 DEF Voted
        <3> HIDE DEF c
        <3>4. QED BY <1>2, <2>1, <2>2, <2>4, <3>1, <3>2, <3>3 DEF Filled, Staged, SignalRecords
    <2>5. QED BY <2>3, <2>4
<1>3. QED BY <1>1, <1>2

---------------------------------------------------------------------------
\* The base of the invariants: the types, the stages of a signal, and the order of the
\* cycles: a snapshot is of the moment its cycle began at, and whatever began while a
\* cycle was open began beside it.
StampOf(c) == IF c = 0 THEN CronOf(FirstDay - 1) ELSE cycles[c]
Timed == /\ \A c, d \in DOMAIN cycles : c <= d => cycles[c] <= cycles[d]
         /\ \A s \in snapshots : s.at = StampOf(s.cycle)
         /\ \A k \in DOMAIN running, c \in DOMAIN cycles : c > k => {k, c} \in beside
         /\ \A i \in Ids : signals[i].cycle \notin DOMAIN running
Base == /\ EvaluationTypeOK
        /\ \A i \in Ids : Staged(signals[i])
        /\ Timed

\* What a step does to the signals: it completes those there are, or raises one.
Completes ==
    /\ signals' \in Seq(SignalRecords) /\ Len(signals') = Len(signals)
    /\ \A i \in Ids : Filled(signals[i], signals'[i]) /\ Staged(signals'[i])

Raised(k, h) ==
    /\ h \in Unseen(running[k].hits)
    /\ Filled(NewSignal(k, h), signals'[Len(signals) + 1])
    /\ Staged(signals'[Len(signals) + 1])

Raises(k) ==
    /\ signals' \in Seq(SignalRecords) /\ Len(signals') = Len(signals) + 1
    /\ \A i \in Ids : signals'[i] = signals[i]
    /\ \E h : Raised(k, h)

LEMMA BaseFacts ==
    ASSUME Base
    PROVE  /\ Priced /\ now \in Nat /\ DayOf(now) \in Nat /\ DayOf(now) >= FirstDay
           /\ Len(signals) \in Nat /\ Ids = 1..Len(signals) /\ followed \in Detectors
           /\ Len(cycles) \in Nat /\ DOMAIN cycles = 1..Len(cycles)
           /\ \A c \in DOMAIN cycles : cycles[c] \in DOMAIN price /\ cycles[c] \in Nat /\ cycles[c] <= now
           /\ \A i \in Ids : /\ signals[i] \in SignalRecords /\ Staged(signals[i])
                             /\ signals[i].created \in DOMAIN price
           /\ snapshots \in SnapshotsTo(Len(cycles), now)
<1>1. Priced /\ now \in Moments
    BY DEF Base, EvaluationTypeOK, Priced
<1>2. now \in Nat /\ DayOf(now) \in Nat /\ DayOf(now) >= FirstDay
    BY <1>1, MomentsFacts, DayArithmetic, DaysAssumption
<1>3. Len(signals) \in Nat /\ Ids = 1..Len(signals)
    BY DEF Base, EvaluationTypeOK, Ids
<1>4. Len(cycles) \in Nat /\ DOMAIN cycles = 1..Len(cycles)
    BY DEF Base, EvaluationTypeOK
<1>5. \A c \in DOMAIN cycles : cycles[c] \in DOMAIN price
    BY DEF Base, EvaluationTypeOK
<1>6. \A c \in DOMAIN cycles : cycles[c] \in Nat /\ cycles[c] <= now
    BY <1>1, <1>5, MomentsFacts DEF Priced
<1>7. \A i \in Ids : signals[i] \in SignalRecords /\ Staged(signals[i])
    BY DEF Base, EvaluationTypeOK, Ids
<1>8. \A i \in Ids : signals[i].created \in DOMAIN price
    BY <1>5 DEF Base, EvaluationTypeOK
<1>9. followed \in Detectors
    BY ChoicesAssumption DEF Base, EvaluationTypeOK
<1>10. snapshots \in SnapshotsTo(Len(cycles), now)
    BY DEF SnapshotsTo, Base, EvaluationTypeOK
<1>11. QED BY <1>1, <1>2, <1>3, <1>4, <1>5, <1>6, <1>7, <1>8, <1>9, <1>10

LEMMA UnchangedCompletes == Base /\ UNCHANGED signals => Completes
BY BaseFacts, FilledSelf DEF Completes, Base, EvaluationTypeOK, Ids

LEMMA BackfillAnalysisCompletes ==
    ASSUME Base, NEW i \in Ids, NEW a \in Analyses[followed], NEW up \in UpSets[followed],
           BackfillAnalysis(i, a, up)
    PROVE  Completes
<1> DEFINE t == Analysed(signals[i], a, up)
<1>1. a \in Answers \cup {Undecided} /\ up \in SUBSET Sources
    BY ChoicesAssumption DEF Base, EvaluationTypeOK
<1>2. signals[i].analysis = Undecided /\ Staged(signals[i])
    BY BaseFacts DEF BackfillAnalysis
<1>3. Filled(signals[i], t) /\ Staged(t)
    BY <1>1, <1>2, BaseFacts, AnalysedFills
<1>4. signals' = [signals EXCEPT ![i] = t]
    BY DEF BackfillAnalysis
<1> HIDE DEF t
<1>5. t \in SignalRecords
    BY <1>3 DEF Filled
<1>6. signals \in Seq(SignalRecords) /\ i \in 1..Len(signals)
    BY BaseFacts DEF Base, EvaluationTypeOK
<1>7. signals' \in Seq(SignalRecords) /\ Len(signals') = Len(signals)
    BY <1>4, <1>5, <1>6, ExceptSeq
<1>8. \A j \in 1..Len(signals) : signals'[j] = IF j = i THEN t ELSE signals[j]
    BY <1>4, <1>6
<1>9. QED BY <1>3, <1>7, <1>8, BaseFacts, FilledSelf DEF Completes

\* A backfill that maps the list of signals.
LEMMA MapCompletes ==
    ASSUME Base, signals' = [i \in Ids |-> signals'[i]],
           \A i \in Ids : Filled(signals[i], signals'[i]) /\ Staged(signals'[i])
    PROVE  Completes
<1>1. \A i \in Ids : signals'[i] \in SignalRecords
    BY DEF Filled
<1>2. signals' \in [1..Len(signals) -> SignalRecords] /\ Len(signals) \in Nat
    BY <1>1, BaseFacts, Zenon
<1>3. signals' \in Seq(SignalRecords) /\ Len(signals') = Len(signals)
    BY <1>2
<1>4. QED BY <1>3 DEF Completes

LEMMA BackfillPricesCompletes ==
    ASSUME Base, NEW up \in UpSets[followed], BackfillPrices(up)
    PROVE  Completes
<1> DEFINE lacking == {i \in Ids : signals[i].price = NoPrice /\ signals[i].asset # "MARKET"}
           dates == {signals[i].date : i \in lacking}
           closes == Closes(Fetched(BarsOf(FirstUp(up)), OpenOf(Min(dates) - 1), OpenOf(Max(dates) + 1)))
           Close(i) == CloseOnOrBefore(closes, signals[i].date)
<1>1. /\ up # {}
      /\ signals' = [i \in Ids |->
             IF i \notin lacking \/ Close(i) = 0 THEN signals[i]
             ELSE [signals[i] EXCEPT !.price = Close(i), !.source = FirstUp(up)]]
    BY DEF BackfillPrices
<1>2. FirstUp(up) \in Sources
    BY <1>1, FirstUpFacts, ChoicesAssumption DEF Base, EvaluationTypeOK
<1>3. Premium[FirstUp(up)] \in Nat
    BY <1>2, PremiumType
<1>4. /\ DOMAIN closes \subseteq 1..DayOf(now)
      /\ \A d \in DOMAIN closes : closes[d] = Bar(d, Premium[FirstUp(up)]).close
    BY DEF Closes, Fetched, BarsOf
<1>5. \A d \in DOMAIN closes : closes[d] \in Nat
    BY <1>3, <1>4, BaseFacts, CloseType
<1> HIDE DEF closes
<1>6. \A i : Close(i) \in Nat
    BY <1>4, <1>5, BaseFacts, CloseOnOrBeforeType
<1> HIDE DEF Close
<1>7. ASSUME NEW i \in Ids
      PROVE  Filled(signals[i], signals'[i]) /\ Staged(signals'[i])
    <2>1. signals[i] \in SignalRecords /\ Staged(signals[i])
        BY BaseFacts
    <2>2. CASE i \notin lacking \/ Close(i) = 0
        BY <1>1, <2>1, <2>2, FilledSelf
    <2>3. CASE ~(i \notin lacking \/ Close(i) = 0)
        <3>1. signals'[i] = [signals[i] EXCEPT !.price = Close(i), !.source = FirstUp(up)]
            BY <1>1, <2>3
        <3>2. signals[i].price = NoPrice /\ signals[i].source = NoSource /\ signals[i].asset = "BTC"
            BY <2>1, <2>3 DEF SignalRecords, Staged
        <3> HIDE DEF lacking
        <3> DEFINE c == Close(i)
                   source == FirstUp(up)
        <3>0. c \in Nat /\ c # NoPrice /\ source \in Sources
            BY <1>2, <1>6, <2>3 DEF NoPrice
        <3> HIDE DEF c, source
        <3>3. /\ signals'[i] \in SignalRecords /\ signals'[i].source = source
              /\ signals'[i].price = c /\ signals'[i].cycle = signals[i].cycle
            <4>1. signals'[i] = [signals[i] EXCEPT !.price = c, !.source = source]
                BY <3>1 DEF c, source
            <4>2. QED BY <2>1, <3>0, <4>1 DEF SignalRecords
        <3>4. /\ signals'[i].asset = signals[i].asset /\ signals'[i].date = signals[i].date
              /\ signals'[i].mark = signals[i].mark /\ signals'[i].created = signals[i].created
              /\ signals'[i].regime = signals[i].regime /\ signals'[i].analysis = signals[i].analysis
              /\ signals'[i].expires = signals[i].expires /\ signals'[i].confirmed = signals[i].confirmed
            BY <2>1, <3>1 DEF SignalRecords
        <3>5. QED BY <2>1, <3>0, <3>2, <3>3, <3>4 DEF Filled, Staged
    <2>4. QED BY <2>2, <2>3
<1>8. signals' = [i \in Ids |-> signals'[i]]
    <2> HIDE DEF lacking
    <2>1. QED BY <1>1
<1>9. QED BY <1>7, <1>8, MapCompletes

LEMMA BackfillConfirmationsCompletes ==
    ASSUME Base, NEW up \in UpSets[followed], BackfillConfirmations(up)
    PROVE  Completes
<1> DEFINE SourceOf(s) == IF s.source = NoSource THEN "binance" ELSE s.source
           lacking == {i \in Ids : /\ signals[i].confirmed.none /\ signals[i].analysis # Undecided
                                   /\ DirectionOf(signals[i].analysis.action) # 0
                                   /\ signals[i].asset # "MARKET"}
           Votes2(s) == Confirmation(s.analysis.action, followed,
                            Served(SourceOf(s), up, 0, now), s.created, s.regime)
<1>1. signals' = [i \in Ids |-> IF i \notin lacking THEN signals[i]
                                ELSE [signals[i] EXCEPT !.confirmed = Votes2(signals[i])]]
    BY Zenon DEF BackfillConfirmations
<1>2. up \in SUBSET Sources
    BY ChoicesAssumption DEF Base, EvaluationTypeOK
<1>3. ASSUME NEW i \in Ids
      PROVE  Filled(signals[i], signals'[i]) /\ Staged(signals'[i])
    <2>1. signals[i] \in SignalRecords /\ Staged(signals[i])
        BY BaseFacts
    <2>2. CASE i \notin lacking
        BY <1>1, <2>1, <2>2, FilledSelf
    <2>3. CASE i \in lacking
        <3> DEFINE c == Votes2(signals[i])
        <3>1. signals'[i] = [signals[i] EXCEPT !.confirmed = c]
            BY <1>1, <2>3
        <3>2. signals[i].confirmed = Unscored /\ signals[i].asset = "BTC" /\ signals[i].analysis # Undecided
            BY <2>1, <2>3 DEF SignalRecords, Votes
        <3>3. c \in Votes
            BY ConfirmationType
        <3>4. SourceOf(signals[i]) \in {signals[i].source, "binance"} \ {NoSource}
            BY DEF NoSource
        <3> HIDE DEF c, lacking
        <3>5. /\ signals'[i].asset = signals[i].asset /\ signals'[i].date = signals[i].date
              /\ signals'[i].mark = signals[i].mark /\ signals'[i].created = signals[i].created
              /\ signals'[i].regime = signals[i].regime /\ signals'[i].analysis = signals[i].analysis
              /\ signals'[i].expires = signals[i].expires /\ signals'[i].price = signals[i].price
              /\ signals'[i].source = signals[i].source /\ signals'[i].confirmed = c
              /\ signals'[i].cycle = signals[i].cycle
              /\ signals'[i] \in SignalRecords
            BY <2>1, <3>1, <3>3 DEF SignalRecords
        <3>6. Voted(signals[i], signals'[i])
            BY <1>2, <3>4, <3>5 DEF Voted, c
        <3>7. QED BY <2>1, <3>2, <3>5, <3>6 DEF Filled, Staged
    <2>4. QED BY <2>2, <2>3
<1>4. signals' = [i \in Ids |-> signals'[i]]
    <2> HIDE DEF lacking, Votes2
    <2>1. QED BY <1>1
<1>5. QED BY <1>3, <1>4, MapCompletes

LEMMA RegimeType == \A score : RegimeOf(score) \in Regimes
BY Zenon DEF RegimeOf, Regimes

LEMMA WithFacts ==
    ASSUME NEW f, NEW g
    PROVE  /\ DOMAIN With(f, g) = DOMAIN f \cup DOMAIN g
           /\ \A x \in DOMAIN f : With(f, g)[x] = f[x]
           /\ \A x \in (DOMAIN g) \ (DOMAIN f) : With(f, g)[x] = g[x]
           /\ With(f, g) = [x \in DOMAIN With(f, g) |-> With(f, g)[x]]
BY DEF With

LEMMA RowsSent ==
    ASSUME Base, NEW rows \in Sendable
    PROVE  DOMAIN rows \subseteq 0..(DayOf(now) - 1) /\ \A d \in DOMAIN rows : rows[d] \in Int
<1>1. PICK days \in {{DayOf(now) - 1}} \cup (SUBSET ((1..(DayOf(now) - 1)) \ DOMAIN flows)) :
          rows \in [days -> FlowValues[followed]]
    BY DEF Sendable
<1>2. FlowValues[followed] \subseteq Int
    BY ChoicesAssumption DEF Base, EvaluationTypeOK
<1>3. DayOf(now) \in Nat \ {0}
    BY BaseFacts, DaysAssumption
<1>4. days \subseteq 0..(DayOf(now) - 1)
    <2>1. CASE days \in SUBSET ((1..(DayOf(now) - 1)) \ DOMAIN flows)
        BY <1>3, <2>1
    <2>2. CASE days = {DayOf(now) - 1}
        BY <1>3, <2>2
    <2>3. QED BY <1>1, <2>1, <2>2
<1>5. QED BY <1>1, <1>2, <1>4

---------------------------------------------------------------------------
\* The steps of a cycle.
Others == <<followed, now, price, outcomes, page>>
Stored == <<flows, arrived, snapshots, signals>>

\* The transaction that a cycle opens.
LEMMA OpensFacts ==
    ASSUME Base, NEW rows \in Sendable, NEW velocity \in Velocities[followed],
           NEW up \in UpSets[followed], CycleOpens(rows, velocity, up)
    PROVE  LET k == Len(cycles) + 1 IN
           /\ cycles' \in Seq(DOMAIN price) /\ DOMAIN cycles' = DOMAIN cycles \cup {k}
           /\ k \notin DOMAIN cycles /\ Len(cycles') = k /\ cycles'[k] = now
           /\ \A c \in DOMAIN cycles : cycles'[c] = cycles[c]
           /\ DOMAIN running' = DOMAIN running \cup {k}
           /\ \A j \in DOMAIN running : j # k /\ running'[j] = running[j]
           /\ running'[k] \in Transactions(DOMAIN running'[k].rows) /\ ~running'[k].detected
           /\ DOMAIN running'[k].rows \subseteq 0..(DayOf(now) - 1)
           /\ beside' = beside \cup {{j, k} : j \in DOMAIN running}
           /\ UNCHANGED Others /\ UNCHANGED Stored
<1> DEFINE k == Len(cycles) + 1
           stored == With(flows, rows)
           regime == IF velocity = Uncounted THEN NoRegime ELSE ClassifyRegime(stored, velocity, DayOf(now))
           new == [d \in DOMAIN rows \ DOMAIN flows |-> rows[d]]
           t == [up |-> up, rows |-> new, regime |-> regime, detected |-> FALSE, hits |-> NoHit]
<1>1. /\ cycles' = Append(cycles, now) /\ running' = With(running, [j \in {k} |-> t])
      /\ beside' = beside \cup {{j, k} : j \in DOMAIN running}
      /\ UNCHANGED Others /\ UNCHANGED Stored
    BY Zenon DEF CycleOpens, Others, Stored
<1>2. /\ cycles \in Seq(DOMAIN price) /\ now \in DOMAIN price /\ Len(cycles) \in Nat
      /\ DOMAIN cycles = 1..Len(cycles) /\ DOMAIN running \subseteq DOMAIN cycles
    BY BaseFacts DEF Base, EvaluationTypeOK
<1>3. regime \in Regimes \cup {NoRegime}
    BY RegimeType DEF ClassifyRegime
<1>4. up \in SUBSET Sources
    BY ChoicesAssumption DEF Base, EvaluationTypeOK
<1>5. DOMAIN new \subseteq 0..(DayOf(now) - 1) /\ new \in [DOMAIN new -> Int]
    BY RowsSent
<1> HIDE DEF new, regime
<1>6. t \in Transactions(DOMAIN t.rows) /\ ~t.detected /\ DOMAIN t.rows \subseteq 0..(DayOf(now) - 1)
    BY <1>3, <1>4, <1>5 DEF Transactions, NoHit
<1> HIDE DEF t
<1>7. /\ cycles' \in Seq(DOMAIN price) /\ DOMAIN cycles' = DOMAIN cycles \cup {k}
      /\ k \notin DOMAIN cycles /\ Len(cycles') = k /\ cycles'[k] = now
      /\ \A c \in DOMAIN cycles : cycles'[c] = cycles[c]
    BY <1>1, <1>2
<1>8. \A j \in DOMAIN running : j # k
    BY <1>2, <1>7
<1> HIDE DEF k
<1>9. /\ DOMAIN running' = DOMAIN running \cup {k}
      /\ (\A j \in DOMAIN running : running'[j] = running[j]) /\ running'[k] = t
    BY <1>1, <1>8 DEF With
<1>10. QED BY <1>1, <1>6, <1>7, <1>8, <1>9 DEF k

\* What the transaction of a cycle sees.
LEMMA SeenFacts ==
    ASSUME Base, NEW k \in DOMAIN running
    PROVE  /\ k \in DOMAIN cycles /\ k \in Nat /\ cycles[k] = now
           /\ running[k] \in Transactions(DOMAIN running[k].rows)
           /\ DOMAIN Visible(k) = DOMAIN flows \cup DOMAIN running[k].rows
           /\ DOMAIN Visible(k) \subseteq 0..(DayOf(now) - 1) /\ Visible(k) \in [DOMAIN Visible(k) -> Int]
           /\ \A d \in DOMAIN flows : Visible(k)[d] = flows[d]
           /\ snapshots \cup Taken(k) \in SnapshotsTo(Len(cycles), now)
           /\ \A s \in Taken(k) : s.cycle = k /\ s.at = now
           /\ FirstUp(running[k].up) \in Sources \cup {NoSource}
           /\ Found(k) \subseteq HitRecords
<1>1. /\ k \in DOMAIN cycles /\ k \in Nat /\ cycles[k] = now /\ DayOf(now) \in Nat
      /\ running[k] \in Transactions(DOMAIN running[k].rows)
      /\ DOMAIN running[k].rows \subseteq 0..(DayOf(now) - 1)
      /\ DOMAIN flows \subseteq 0..(DayOf(now) - 1) /\ \A d \in DOMAIN flows : flows[d] \in Int
    BY BaseFacts DEF Base, EvaluationTypeOK
<1>2. \A d \in DOMAIN running[k].rows : running[k].rows[d] \in Int
    BY <1>1 DEF Transactions
<1>3. /\ DOMAIN Visible(k) = DOMAIN flows \cup DOMAIN running[k].rows
      /\ \A d \in DOMAIN flows : Visible(k)[d] = flows[d]
      /\ \A d \in (DOMAIN running[k].rows) \ (DOMAIN flows) : Visible(k)[d] = running[k].rows[d]
      /\ Visible(k) = [d \in DOMAIN Visible(k) |-> Visible(k)[d]]
    BY WithFacts, Zenon DEF Visible
<1>4. DOMAIN Visible(k) \subseteq 0..(DayOf(now) - 1) /\ Visible(k) \in [DOMAIN Visible(k) -> Int]
    <2>1. \A d \in DOMAIN Visible(k) : Visible(k)[d] \in Int
        BY <1>1, <1>2, <1>3
    <2>2. QED BY <1>1, <1>3, <2>1
<1>5. /\ snapshots \cup Taken(k) \in SnapshotsTo(Len(cycles), now)
      /\ \A s \in Taken(k) : s.cycle = k /\ s.at = now
    <2>1. snapshots \in SnapshotsTo(Len(cycles), now)
        BY BaseFacts
    <2>2. CASE Taken(k) = {}
        <3>1. snapshots \cup Taken(k) = snapshots
            BY <2>2
        <3>2. QED BY <2>1, <2>2, <3>1
    <2>3. CASE Taken(k) # {}
        <3>1. Taken(k) = {Snapshot(k, now, running[k].regime)} /\ running[k].regime # NoRegime
            BY <1>1, <2>3, Zenon DEF Taken
        <3>2. running[k].regime \in Regimes
            BY <1>1, <3>1 DEF Transactions
        <3>3. Snapshot(k, now, running[k].regime) \in [cycle : 0..Len(cycles), at : 0..now, regime : Regimes]
            BY <1>1, <3>2, BaseFacts DEF Snapshot
        <3>4. IsFiniteSet(snapshots \cup Taken(k))
            BY <2>1, <3>1, FS_AddElement DEF SnapshotsTo
        <3>5. QED BY <2>1, <3>1, <3>3, <3>4 DEF SnapshotsTo, Snapshot
    <2>4. QED BY <2>2, <2>3
<1>6. FirstUp(running[k].up) \in Sources \cup {NoSource}
    <2>1. running[k].up \in SUBSET Sources
        BY <1>1 DEF Transactions
    <2>2. QED BY <2>1, FirstUpFacts
<1>7. Found(k) \subseteq HitRecords
    <2>1. /\ followed \in Followed /\ DayOf(now) - 1 \in Nat /\ DayOf(now) \in Int
          /\ now \in Nat /\ Len(cycles) \in Nat
        BY BaseFacts, DaysAssumption DEF Base, EvaluationTypeOK
    <2> DEFINE rows == Visible(k)
               snaps == snapshots \cup Taken(k)
    <2>2. DOMAIN rows \subseteq 0..(DayOf(now) - 1) /\ snaps \in SnapshotsTo(Len(cycles), now)
        BY <1>4, <1>5
    <2>3. Found(k) = Detect(followed, rows, snaps, running[k].regime, FirstUp(running[k].up), DayOf(now))
        BY DEF Found
    <2> HIDE DEF rows, snaps
    <2>4. ASSUME NEW h \in Detect(followed, rows, snaps, running[k].regime, FirstUp(running[k].up), DayOf(now))
          PROVE  h \in HitRecords
        BY <2>1, <2>2, HitsTyped
    <2>5. QED BY <2>3, <2>4
<1>8. QED BY <1>1, <1>3, <1>4, <1>5, <1>6, <1>7

LEMMA DetectsFacts ==
    ASSUME Base, NEW k \in DOMAIN running, CycleDetects(k)
    PROVE  /\ DOMAIN running' = DOMAIN running
           /\ \A j \in DOMAIN running \ {k} : running'[j] = running[j]
           /\ running'[k].hits \subseteq Found(k) /\ running'[k].hits \subseteq HitRecords
           /\ running'[k].up = running[k].up /\ running'[k].rows = running[k].rows /\ running'[k].regime = running[k].regime
           /\ running'[k] \in Transactions(DOMAIN running'[k].rows)
           /\ UNCHANGED <<cycles, beside, Others, Stored>>
<1>1. PICK hits \in {Found(k), NoHit} :
          /\ running' = [running EXCEPT ![k].detected = TRUE, ![k].hits = hits]
          /\ UNCHANGED <<cycles, beside, Others, Stored>>
    BY DEF CycleDetects, Others, Stored
<1>2. hits \subseteq Found(k) /\ hits \subseteq HitRecords
    BY <1>1, SeenFacts DEF NoHit
<1>3. running[k] \in Transactions(DOMAIN running[k].rows)
    BY SeenFacts
<1>4. running'[k] = [running[k] EXCEPT !.detected = TRUE, !.hits = hits]
    BY <1>1
<1>5. /\ running'[k].hits = hits /\ running'[k].up = running[k].up /\ running'[k].rows = running[k].rows
      /\ running'[k].regime = running[k].regime
    BY <1>3, <1>4 DEF Transactions
<1>6. running'[k] \in Transactions(DOMAIN running[k].rows)
    BY <1>2, <1>3, <1>4 DEF Transactions
<1>7. DOMAIN running' = DOMAIN running /\ \A j \in DOMAIN running \ {k} : running'[j] = running[j]
    BY <1>1
<1>8. QED BY <1>1, <1>2, <1>5, <1>6, <1>7

LEMMA FailsFacts ==
    ASSUME NEW k \in DOMAIN running, CycleFails(k)
    PROVE  /\ DOMAIN running' = DOMAIN running \ {k}
           /\ \A j \in DOMAIN running \ {k} : running'[j] = running[j]
           /\ UNCHANGED <<cycles, beside, Others, Stored>>
BY DEF CycleFails, Closed, Others, Stored

\* What the commit of a cycle stores.
LEMMA CommitData ==
    ASSUME Base, NEW k \in DOMAIN running, NEW a \in Analyses[followed], CycleCommits(k, a)
    PROVE  /\ flows' = Visible(k)
           /\ arrived' \in [DOMAIN flows' -> 0..Len(cycles)]
           /\ \A d \in DOMAIN flows' : arrived'[d] = IF d \in DOMAIN flows THEN arrived[d] ELSE k
           /\ snapshots' = snapshots \cup Taken(k)
           /\ DOMAIN running' = DOMAIN running \ {k}
           /\ \A j \in DOMAIN running \ {k} : running'[j] = running[j]
           /\ running[k].detected
           /\ UNCHANGED <<cycles, beside, Others>>
<1> DEFINE g == [d \in DOMAIN running[k].rows |-> k]
<1>1. /\ flows' = Visible(k) /\ arrived' = With(arrived, g) /\ snapshots' = snapshots \cup Taken(k)
      /\ running[k].detected /\ UNCHANGED <<cycles, beside, Others>>
    BY DEF CycleCommits, Others
<1>2. DOMAIN running' = DOMAIN running \ {k} /\ \A j \in DOMAIN running \ {k} : running'[j] = running[j]
    BY DEF CycleCommits, Closed
<1>3. /\ DOMAIN arrived = DOMAIN flows /\ (\A d \in DOMAIN flows : arrived[d] \in 0..Len(cycles))
      /\ k \in 0..Len(cycles) /\ DOMAIN flows' = DOMAIN flows \cup DOMAIN running[k].rows
    <2>1. k \in 1..Len(cycles) /\ Len(cycles) \in Nat /\ DOMAIN Visible(k) = DOMAIN flows \cup DOMAIN running[k].rows
        BY SeenFacts, BaseFacts
    <2>2. DOMAIN flows' = DOMAIN Visible(k)
        BY <1>1, Zenon
    <2>3. QED BY <2>1, <2>2 DEF Base, EvaluationTypeOK
<1>4. DOMAIN g = DOMAIN running[k].rows /\ \A d \in DOMAIN running[k].rows : g[d] = k
    OBVIOUS
<1> HIDE DEF g
<1>5. DOMAIN arrived' = DOMAIN flows'
    BY <1>1, <1>3, <1>4 DEF With
<1>6. \A d \in DOMAIN flows' : arrived'[d] = IF d \in DOMAIN flows THEN arrived[d] ELSE k
    BY <1>1, <1>3, <1>4 DEF With
<1>7. arrived' = [d \in DOMAIN flows' |-> arrived'[d]]
    BY <1>1, <1>5 DEF With
<1>8. \A d \in DOMAIN flows' : arrived'[d] \in 0..Len(cycles)
    BY <1>3, <1>6
<1>9. arrived' \in [DOMAIN flows' -> 0..Len(cycles)]
    BY <1>7, <1>8
<1>10. QED BY <1>1, <1>2, <1>6, <1>9

LEMMA NewSignalType ==
    ASSUME Base, NEW k \in DOMAIN running, NEW h \in Unseen(running[k].hits)
    PROVE  /\ NewSignal(k, h) \in SignalRecords /\ NewSignal(k, h).analysis = Undecided
           /\ Staged(NewSignal(k, h))
<1> DEFINE s == NewSignal(k, h)
           source == FirstUp(running[k].up)
           spot == SpotOf(source)
<1>1. source \in Sources \cup {NoSource} /\ running[k].regime \in Regimes \cup {NoRegime} /\ k \in Nat
    BY SeenFacts DEF Transactions
<1>2. h.date \in Nat /\ h.mark \in Marks
    <2>1. h \in running[k].hits /\ running[k].hits \subseteq HitRecords
        BY SeenFacts DEF Unseen, Transactions
    <2>2. QED BY <2>1 DEF HitRecords
<1>3. spot \in Nat /\ (source # NoSource => spot # NoPrice) /\ NoPrice \in Nat
    <2>1. InForceAt(now + 1) \in Nat \ {0}
        BY BaseFacts, InForceFacts, Zenon
    <2>2. QED BY <1>1, <2>1, PremiumType DEF SpotOf, NoPrice
<1>4. now \in Nat /\ Asset \in {"BTC", "MARKET"} /\ Unscored \in Votes
    BY BaseFacts DEF Asset, Votes
<1>5. s = [cycle |-> k, asset |-> Asset, date |-> h.date, mark |-> h.mark, created |-> now,
           price |-> IF Asset = "MARKET" THEN NoPrice ELSE spot,
           source |-> IF Asset = "MARKET" THEN NoSource ELSE source,
           regime |-> running[k].regime, analysis |-> Undecided, expires |-> 0, confirmed |-> Unscored]
    BY Zenon DEF NewSignal
<1> HIDE DEF s, spot, source
<1>6. s \in SignalRecords /\ s.analysis = Undecided /\ Staged(s)
    BY <1>1, <1>2, <1>3, <1>4, <1>5 DEF SignalRecords, Staged
<1>7. QED BY <1>6 DEF s

LEMMA CommitRaises ==
    ASSUME Base, NEW k \in DOMAIN running, NEW a \in Analyses[followed], CycleCommits(k, a)
    PROVE  UNCHANGED signals \/ Raises(k)
<1>1. \/ UNCHANGED signals
      \/ \E h \in Unseen(running[k].hits) :
            signals' = Append(signals, Analysed(NewSignal(k, h), a, running[k].up))
    BY Zenon DEF CycleCommits
<1> SUFFICES ASSUME NEW h \in Unseen(running[k].hits),
                    signals' = Append(signals, Analysed(NewSignal(k, h), a, running[k].up))
             PROVE  Raises(k)
    BY <1>1
<1> DEFINE s == NewSignal(k, h)
           t == Analysed(s, a, running[k].up)
<1>2. a \in Answers \cup {Undecided} /\ running[k].up \in SUBSET Sources
    BY SeenFacts, ChoicesAssumption DEF Base, EvaluationTypeOK, Transactions
<1>3. s \in SignalRecords /\ s.analysis = Undecided /\ Staged(s)
    BY NewSignalType
<1> HIDE DEF s
<1>4. Filled(s, t) /\ Staged(t)
    BY <1>2, <1>3, BaseFacts, AnalysedFills
<1> HIDE DEF t
<1>5. t \in SignalRecords
    BY <1>4 DEF Filled
<1>6. signals \in Seq(SignalRecords) /\ signals' = Append(signals, t)
    BY DEF Base, EvaluationTypeOK, t, s
<1>7. /\ signals' \in Seq(SignalRecords) /\ Len(signals') = Len(signals) + 1
      /\ (\A i \in 1..Len(signals) : signals'[i] = signals[i]) /\ signals'[Len(signals) + 1] = t
    BY <1>5, <1>6
<1>8. Raised(k, h)
    BY <1>4, <1>7 DEF Raised, s
<1>9. QED BY <1>7, <1>8, BaseFacts DEF Raises

LEMMA TickFacts ==
    ASSUME Base, NEW p \in Prices, Tick(p)
    PROVE  /\ now' \in Moments /\ now' \in Nat /\ now < now' /\ now' \notin DOMAIN price
           /\ DOMAIN price' = DOMAIN price \cup {now'} /\ price'[now'] = p
           /\ \A t \in DOMAIN price : price'[t] = price[t]
           /\ price' \in [DOMAIN price' -> Prices] /\ DOMAIN running = {}
           /\ UNCHANGED <<followed, signals, outcomes, page, dataVars>>
<1> DEFINE later == {t \in Moments : t > now}
           new == [t \in {now'} |-> p]
<1>1. /\ later # {} /\ now' = Min(later) /\ price' = With(price, new) /\ DOMAIN running = {}
      /\ UNCHANGED <<followed, signals, outcomes, page, dataVars>>
    BY DEF Tick
<1>2. now' \in Moments /\ now' \in Nat /\ now < now'
    <2>1. later \in SUBSET Nat
        BY MomentsFacts
    <2>2. now' \in later
        BY <1>1, <2>1, MinOfSet
    <2>3. QED BY <2>2, MomentsFacts
<1>3. \A t \in DOMAIN price : t \in Nat /\ t <= now /\ price[t] \in Prices
    BY MomentsFacts, BaseFacts DEF Priced
<1>4. now' \notin DOMAIN price
    BY <1>2, <1>3, BaseFacts
<1>5. DOMAIN new = {now'} /\ new[now'] = p
    OBVIOUS
<1> HIDE DEF new, later
<1>6. /\ DOMAIN price' = DOMAIN price \cup {now'} /\ price'[now'] = p
      /\ \A t \in DOMAIN price : price'[t] = price[t]
      /\ price' = [t \in DOMAIN price' |-> price'[t]]
    <2>1. price' = With(price, new)
        BY <1>1
    <2>2. DOMAIN price' = DOMAIN price \cup {now'}
        BY <1>5, <2>1 DEF With
    <2>3. \A t \in DOMAIN price' : price'[t] = IF t \in DOMAIN price THEN price[t] ELSE new[t]
        BY <1>5, <2>1 DEF With
    <2>4. price' = [t \in DOMAIN price' |-> price'[t]]
        BY <1>5, <2>1 DEF With
    <2>5. QED BY <1>4, <1>5, <2>2, <2>3, <2>4
<1>7. price' \in [DOMAIN price' -> Prices]
    BY <1>3, <1>6
<1>8. QED BY <1>1, <1>2, <1>4, <1>6, <1>7

\* The steps, by what they change.
Backfills == Completes /\ UNCHANGED <<followed, now, price, outcomes, page, dataVars>>
CycleRuns ==
    \/ \E rows \in Sendable, velocity \in Velocities[followed], up \in UpSets[followed] :
          CycleOpens(rows, velocity, up)
    \/ \E k \in DOMAIN running : CycleDetects(k)
    \/ \E k \in DOMAIN running : CycleFails(k)

LEMMA StepKinds ==
    ASSUME Base, EvaluationNext
    PROVE  \/ \E p \in Prices : Tick(p)
           \/ CycleRuns
           \/ \E k \in DOMAIN running, a \in Analyses[followed] : CycleCommits(k, a)
           \/ Backfills
           \/ \E up \in UpSets[followed] : Evaluate(up)
           \/ ReadPage
<1>1. ASSUME NEW i \in Ids, NEW a \in Analyses[followed], NEW up \in UpSets[followed],
             BackfillAnalysis(i, a, up)
      PROVE  Backfills
    BY <1>1, BackfillAnalysisCompletes DEF Backfills, BackfillAnalysis
<1>2. ASSUME NEW up \in UpSets[followed], BackfillPrices(up) PROVE Backfills
    BY <1>2, BackfillPricesCompletes DEF Backfills, BackfillPrices
<1>3. ASSUME NEW up \in UpSets[followed], BackfillConfirmations(up) PROVE Backfills
    BY <1>3, BackfillConfirmationsCompletes DEF Backfills, BackfillConfirmations
<1>4. QED BY <1>1, <1>2, <1>3 DEF EvaluationNext, CycleRuns

LEMMA RunsKeep == ASSUME Base, CycleRuns PROVE UNCHANGED Others /\ UNCHANGED Stored
<1>1. ASSUME NEW rows \in Sendable, NEW velocity \in Velocities[followed], NEW up \in UpSets[followed],
             CycleOpens(rows, velocity, up)
      PROVE  UNCHANGED Others /\ UNCHANGED Stored
    BY <1>1, OpensFacts
<1>2. ASSUME NEW k \in DOMAIN running, CycleDetects(k) PROVE UNCHANGED Others /\ UNCHANGED Stored
    BY <1>2, DetectsFacts
<1>3. ASSUME NEW k \in DOMAIN running, CycleFails(k) PROVE UNCHANGED Others /\ UNCHANGED Stored
    BY <1>3, FailsFacts
<1>4. QED BY <1>1, <1>2, <1>3 DEF CycleRuns

LEMMA InitBase == EvaluationInit => Base
<1> SUFFICES ASSUME EvaluationInit PROVE Base
    OBVIOUS
<1>1. PICK p \in Prices : price = [t \in {now} |-> p]
    BY DEF EvaluationInit
<1>2. PICK regime \in FirstRegime : snapshots = {Snapshot(0, CronOf(FirstDay - 1), regime)}
    BY DEF EvaluationInit
<1>3. /\ FirstDay \in Nat \ {0} /\ now = CronOf(FirstDay) /\ now \in Moments /\ DayOf(now) = FirstDay
      /\ CronOf(FirstDay - 1) \in 0..now
    <2>1. FirstDay \in Nat \ {0} /\ FirstDay \in FirstDay..LastDay /\ now = CronOf(FirstDay)
        BY DaysAssumption DEF EvaluationInit
    <2>2. now \in Moments
        BY <2>1 DEF Moments, CronOf
    <2>3. QED BY <2>1, <2>2 DEF CronOf, OpenOf, Hours, CronTime, DayOf, HalfHoursADay
<1>4. regime \in Regimes
    BY ChoicesAssumption
<1>5. /\ IsFiniteSet(snapshots) /\ snapshots \subseteq [cycle : 0..Len(cycles), at : 0..now, regime : Regimes]
      /\ \A s \in snapshots : s.at = StampOf(s.cycle)
    <2>1. IsFiniteSet(snapshots)
        BY <1>2, FS_Singleton
    <2>2. 0 \in 0..Len(cycles)
        BY DEF EvaluationInit
    <2>3. Snapshot(0, CronOf(FirstDay - 1), regime) \in [cycle : 0..Len(cycles), at : 0..now, regime : Regimes]
        BY <1>3, <1>4, <2>2 DEF Snapshot
    <2>4. Snapshot(0, CronOf(FirstDay - 1), regime).at = StampOf(Snapshot(0, CronOf(FirstDay - 1), regime).cycle)
        BY DEF Snapshot, StampOf
    <2>5. QED BY <1>2, <2>1, <2>3, <2>4
<1>6. /\ DOMAIN flows \subseteq 0..(DayOf(now) - 1) /\ flows \in [DOMAIN flows -> Int]
      /\ arrived \in [DOMAIN flows -> 0..Len(cycles)]
    <2>1. /\ flows = History /\ arrived = [d \in DOMAIN History |-> 0] /\ 0 \in 0..Len(cycles)
          /\ DOMAIN History \subseteq 1..(FirstDay - 1) /\ History \in [DOMAIN History -> Int]
        BY DaysAssumption DEF EvaluationInit
    <2>2. DOMAIN flows \subseteq 0..(DayOf(now) - 1)
        BY <1>3, <2>1
    <2>3. QED BY <2>1, <2>2
<1>7. /\ signals = <<>> /\ outcomes = <<>> /\ page = <<>> /\ followed \in Followed
      /\ cycles = <<>> /\ running = <<>> /\ beside = {}
    BY DEF EvaluationInit
<1>8. /\ signals \in Seq(SignalRecords) /\ Ids = {} /\ DOMAIN outcomes = {} /\ Len(page) \in 0..5
    BY <1>7 DEF Ids
<1>9. now \in DOMAIN price /\ (\A t \in DOMAIN price : t = now) /\ price \in [DOMAIN price -> Prices]
    BY <1>1
<1>10. EvaluationTypeOK
    <2>1. now \in Nat
        BY <1>3, MomentsFacts
    <2>2. \A t \in DOMAIN price : t \in Moments /\ t <= now
        BY <1>3, <1>9, <2>1
    <2>3. cycles \in Seq(DOMAIN price) /\ DOMAIN outcomes \subseteq Ids /\ DOMAIN running = {} /\ beside = {}
        BY <1>7, <1>8
    <2>4. QED BY <1>5, <1>6, <1>7, <1>8, <1>9, <2>2, <2>3 DEF EvaluationTypeOK
<1>11. DOMAIN cycles = {} /\ DOMAIN running = {}
    BY <1>7
<1>12. QED BY <1>5, <1>8, <1>10, <1>11 DEF Base, Timed

\* What the signals of the next state are.
SignalsTyped ==
    /\ signals \in Seq(SignalRecords)
    /\ \A i \in Ids : /\ signals[i].asset = Asset /\ signals[i].cycle \in DOMAIN cycles
                       /\ signals[i].created = cycles[signals[i].cycle]
                       /\ signals[i].cycle \notin DOMAIN running /\ Staged(signals[i])

LEMMA RecordsKept ==
    UNCHANGED followed => /\ SignalRecords' = SignalRecords /\ Asset' = Asset
                          /\ Marks' = Marks
BY DEF SignalRecords, Marks, Asset

LEMMA CompletesTyped ==
    ASSUME Base, Completes, UNCHANGED followed,
           \A c \in DOMAIN cycles : c \in DOMAIN cycles' /\ cycles'[c] = cycles[c],
           DOMAIN running' \cap DOMAIN cycles \subseteq DOMAIN running
    PROVE  SignalsTyped' /\ Ids' = Ids
<1>1. Len(signals) \in Nat /\ Ids = 1..Len(signals) /\ Ids' = Ids
    BY BaseFacts DEF Completes, Ids
<1>2. ASSUME NEW i \in Ids
      PROVE  /\ signals'[i].asset = Asset' /\ signals'[i].cycle \in DOMAIN cycles'
             /\ signals'[i].created = cycles'[signals'[i].cycle]
             /\ signals'[i].cycle \notin DOMAIN running' /\ Staged(signals'[i])
    <2>1. /\ signals'[i].asset = signals[i].asset /\ signals'[i].cycle = signals[i].cycle
          /\ signals'[i].created = signals[i].created /\ Staged(signals'[i])
        BY DEF Completes, Filled
    <2>2. /\ signals[i].asset = Asset /\ signals[i].cycle \in DOMAIN cycles
          /\ signals[i].created = cycles[signals[i].cycle] /\ signals[i].cycle \notin DOMAIN running
        BY DEF Base, EvaluationTypeOK, Timed
    <2>3. QED BY <2>1, <2>2, RecordsKept
<1>3. signals' \in Seq(SignalRecords)'
    BY RecordsKept DEF Completes
<1>4. QED BY <1>1, <1>2, <1>3 DEF SignalsTyped, Staged

LEMMA RaisesTyped ==
    ASSUME Base, NEW k \in DOMAIN running, Raises(k), UNCHANGED <<followed, cycles>>,
           DOMAIN running' = DOMAIN running \ {k}
    PROVE  SignalsTyped' /\ Ids' = Ids \cup {Len(signals) + 1}
<1>1. Len(signals) \in Nat /\ Ids = 1..Len(signals) /\ Ids' = Ids \cup {Len(signals) + 1}
    BY BaseFacts DEF Raises, Ids
<1>2. ASSUME NEW i \in Ids
      PROVE  /\ signals'[i].asset = Asset' /\ signals'[i].cycle \in DOMAIN cycles'
             /\ signals'[i].created = cycles'[signals'[i].cycle]
             /\ signals'[i].cycle \notin DOMAIN running' /\ Staged(signals'[i])
    BY <1>2, RecordsKept, BaseFacts DEF Raises, Base, EvaluationTypeOK, Timed
<1>3. PICK h : Raised(k, h)
    BY DEF Raises
<1>4. LET t == signals'[Len(signals) + 1] IN
      /\ t.asset = Asset' /\ t.cycle \in DOMAIN cycles' /\ t.created = cycles'[t.cycle]
      /\ t.cycle \notin DOMAIN running' /\ Staged(t)
    <2> DEFINE t == signals'[Len(signals) + 1]
    <2>1. /\ NewSignal(k, h).asset = Asset /\ NewSignal(k, h).created = now
          /\ NewSignal(k, h).cycle = k
        BY DEF NewSignal
    <2>2. t.asset = Asset /\ t.created = now /\ t.cycle = k /\ Staged(t)
        BY <1>3, <2>1 DEF Raised, Filled
    <2> HIDE DEF t
    <2>3. k \in DOMAIN cycles /\ cycles[k] = now
        BY SeenFacts
    <2>4. /\ t.asset = Asset' /\ t.cycle \in DOMAIN cycles' /\ t.created = cycles'[t.cycle]
          /\ t.cycle \notin DOMAIN running' /\ Staged(t)
        BY <2>2, <2>3, RecordsKept
    <2>5. QED BY <2>4 DEF t
<1>5. signals' \in Seq(SignalRecords)'
    BY RecordsKept DEF Raises
<1>6. QED BY <1>1, <1>2, <1>4, <1>5 DEF SignalsTyped, Staged

\* The transactions that stay open, and what they are open beside.
OpenRecords == \A k \in DOMAIN running : running[k] \in Transactions(DOMAIN running[k].rows)
OpenTyped ==
    /\ OpenRecords /\ DOMAIN running \subseteq DOMAIN cycles
    /\ \A k \in DOMAIN running : DOMAIN running[k].rows \subseteq 0..(DayOf(now) - 1) /\ cycles[k] = now
    /\ \A k \in DOMAIN running, c \in DOMAIN cycles : c > k => {k, c} \in beside

LEMMA RecordsNext ==
    ASSUME UNCHANGED followed, \A j \in DOMAIN running' : running'[j] \in Transactions(DOMAIN running'[j].rows)
    PROVE  OpenRecords'
<1>1. Marks' = Marks
    BY RecordsKept
<1>2. QED BY <1>1 DEF OpenRecords, Transactions, HitRecords

LEMMA OpenKept ==
    ASSUME Base, UNCHANGED <<followed, now, cycles, beside>>, DOMAIN running' \subseteq DOMAIN running,
           \A j \in DOMAIN running' :
               running'[j] \in Transactions(DOMAIN running'[j].rows) /\ running'[j].rows = running[j].rows
    PROVE  OpenTyped'
<1>1. OpenRecords'
    BY RecordsNext
<1>2. QED BY <1>1 DEF OpenTyped, Base, EvaluationTypeOK, Timed

LEMMA OpensBase ==
    ASSUME Base, NEW rows \in Sendable, NEW velocity \in Velocities[followed],
           NEW up \in UpSets[followed], CycleOpens(rows, velocity, up)
    PROVE  Base'
<1> DEFINE k == Len(cycles) + 1
<1>1. /\ cycles' \in Seq(DOMAIN price) /\ DOMAIN cycles' = DOMAIN cycles \cup {k}
      /\ k \notin DOMAIN cycles /\ Len(cycles') = k /\ cycles'[k] = now
      /\ \A c \in DOMAIN cycles : cycles'[c] = cycles[c]
      /\ DOMAIN running' = DOMAIN running \cup {k}
      /\ \A j \in DOMAIN running : j # k /\ running'[j] = running[j]
      /\ running'[k] \in Transactions(DOMAIN running'[k].rows)
      /\ DOMAIN running'[k].rows \subseteq 0..(DayOf(now) - 1)
      /\ beside' = beside \cup {{j, k} : j \in DOMAIN running}
      /\ UNCHANGED Others /\ UNCHANGED Stored
    BY OpensFacts
<1>2. /\ UNCHANGED <<followed, now, price, outcomes, page, flows, arrived, snapshots, signals>>
      /\ k \in Nat /\ Len(cycles) \in Nat /\ DOMAIN cycles = 1..Len(cycles)
    BY <1>1, BaseFacts DEF Others, Stored
<1>3. SignalsTyped' /\ Ids' = Ids
    <2> HIDE DEF k
    <2>1. DOMAIN running' \cap DOMAIN cycles \subseteq DOMAIN running
        BY <1>1
    <2>2. \A c \in DOMAIN cycles : c \in DOMAIN cycles' /\ cycles'[c] = cycles[c]
        BY <1>1
    <2>3. QED BY <1>2, <2>1, <2>2, UnchangedCompletes, CompletesTyped
<1>4. OpenTyped'
    <2>1. DOMAIN running' \subseteq DOMAIN cycles' /\ DOMAIN running \subseteq DOMAIN cycles
        BY <1>1 DEF Base, EvaluationTypeOK
    <2>2. ASSUME NEW j \in DOMAIN running'
          PROVE  /\ running'[j] \in Transactions(DOMAIN running'[j].rows)
                 /\ DOMAIN running'[j].rows \subseteq 0..(DayOf(now) - 1) /\ cycles'[j] = now
        <3> HIDE DEF k
        <3>1. CASE j = k
            BY <1>1, <3>1
        <3>2. CASE j \in DOMAIN running
            <4>1. /\ running[j] \in Transactions(DOMAIN running[j].rows) /\ cycles[j] = now
                  /\ DOMAIN running[j].rows \subseteq 0..(DayOf(now) - 1)
                BY <3>2 DEF Base, EvaluationTypeOK
            <4>2. QED BY <1>1, <2>1, <3>2, <4>1
        <3>3. QED BY <1>1, <3>1, <3>2
    <2>3. ASSUME NEW j \in DOMAIN running', NEW c \in DOMAIN cycles', c > j
          PROVE  {j, c} \in beside'
        <3>1. j # k /\ j \in DOMAIN running
            BY <1>1, <1>2, <2>3
        <3>2. CASE c = k
            BY <1>1, <3>1, <3>2
        <3>3. CASE c # k
            <4>1. c \in DOMAIN cycles /\ {j, c} \in beside
                BY <1>1, <2>3, <3>1, <3>3 DEF Base, Timed
            <4>2. QED BY <1>1, <4>1
        <3>4. QED BY <3>2, <3>3
    <2>4. OpenRecords'
        BY <1>2, <2>2, RecordsNext
    <2>5. QED BY <1>2, <2>1, <2>2, <2>3, <2>4 DEF OpenTyped
<1>5. beside' \subseteq SUBSET (DOMAIN cycles')
    <2>1. beside \subseteq SUBSET (DOMAIN cycles) /\ DOMAIN running \subseteq DOMAIN cycles
        BY DEF Base, EvaluationTypeOK
    <2>2. QED BY <1>1, <2>1
<1>6. /\ \A c, d \in DOMAIN cycles' : c <= d => cycles'[c] <= cycles'[d]
      /\ \A s \in snapshots' : s.at = StampOf(s.cycle)'
      /\ arrived' \in [DOMAIN flows' -> 0..Len(cycles')]
      /\ snapshots' \subseteq [cycle : 0..Len(cycles'), at : 0..now', regime : Regimes]
    <2>1. \A c \in DOMAIN cycles : cycles[c] \in Nat /\ cycles[c] <= now
        BY BaseFacts
    <2>2. ASSUME NEW c \in DOMAIN cycles', NEW d \in DOMAIN cycles', c <= d
          PROVE  cycles'[c] <= cycles'[d]
        <3>1. CASE d = k
            BY <1>1, <1>2, <2>1, <3>1, BaseFacts
        <3>2. CASE d # k
            <4>1. c \in DOMAIN cycles /\ d \in DOMAIN cycles
                BY <1>1, <1>2, <2>2, <3>2
            <4>2. QED BY <1>1, <2>2, <4>1 DEF Base, Timed
        <3>3. QED BY <3>1, <3>2
    <2>3. snapshots \subseteq [cycle : 0..Len(cycles), at : 0..now, regime : Regimes]
        BY DEF Base, EvaluationTypeOK
    <2>4. ASSUME NEW s \in snapshots PROVE s.at = StampOf(s.cycle)'
        <3>1. s.cycle \in 0..Len(cycles) /\ s.at = StampOf(s.cycle)
            BY <2>3 DEF Base, Timed
        <3>2. s.cycle = 0 \/ s.cycle \in DOMAIN cycles
            BY <1>2, <3>1
        <3>3. QED BY <1>1, <3>1, <3>2 DEF StampOf
    <2>5. arrived \in [DOMAIN flows -> 0..Len(cycles)]
        BY DEF Base, EvaluationTypeOK
    <2>6. 0..Len(cycles) \subseteq 0..Len(cycles')
        BY <1>1, <1>2
    <2>7. QED BY <1>2, <2>2, <2>3, <2>4, <2>5, <2>6
<1>7. QED BY <1>1, <1>2, <1>3, <1>4, <1>5, <1>6 DEF Base, EvaluationTypeOK, OpenTyped, OpenRecords, Timed, SignalsTyped

\* A cycle that detects or fails.
LEMMA OpenOnlyBase ==
    ASSUME Base, UNCHANGED <<cycles, beside, Others, Stored>>, OpenTyped', DOMAIN running' \subseteq DOMAIN running
    PROVE  Base'
<1>1. UNCHANGED <<followed, now, price, outcomes, page, cycles, beside, flows, arrived, snapshots, signals>>
    BY DEF Others, Stored
<1>2. SignalsTyped' /\ Ids' = Ids
    BY <1>1, UnchangedCompletes, CompletesTyped
<1>3. \A s \in snapshots' : s.at = StampOf(s.cycle)'
    BY <1>1 DEF Base, Timed, StampOf
<1>4. QED BY <1>1, <1>2, <1>3 DEF Base, EvaluationTypeOK, OpenTyped, OpenRecords, Timed, SignalsTyped

LEMMA RunsBase == ASSUME Base, CycleRuns PROVE Base'
<1>1. ASSUME NEW rows \in Sendable, NEW velocity \in Velocities[followed], NEW up \in UpSets[followed],
             CycleOpens(rows, velocity, up)
      PROVE  Base'
    BY <1>1, OpensBase
<1>2. ASSUME NEW k \in DOMAIN running, CycleDetects(k) PROVE Base'
    <2>1. \A j \in DOMAIN running : running[j] \in Transactions(DOMAIN running[j].rows)
        BY DEF Base, EvaluationTypeOK
    <2>2. /\ UNCHANGED <<cycles, beside, Others, Stored>> /\ DOMAIN running' = DOMAIN running
          /\ \A j \in DOMAIN running' :
                running'[j] \in Transactions(DOMAIN running'[j].rows) /\ running'[j].rows = running[j].rows
        BY <1>2, <2>1, DetectsFacts
    <2>3. OpenTyped'
        BY <2>2, OpenKept DEF Others
    <2>4. QED BY <2>2, <2>3, OpenOnlyBase
<1>3. ASSUME NEW k \in DOMAIN running, CycleFails(k) PROVE Base'
    <2>1. \A j \in DOMAIN running : running[j] \in Transactions(DOMAIN running[j].rows)
        BY DEF Base, EvaluationTypeOK
    <2>2. /\ UNCHANGED <<cycles, beside, Others, Stored>> /\ DOMAIN running' \subseteq DOMAIN running
          /\ \A j \in DOMAIN running' :
                running'[j] \in Transactions(DOMAIN running'[j].rows) /\ running'[j].rows = running[j].rows
        BY <1>3, <2>1, FailsFacts
    <2>3. OpenTyped'
        BY <2>2, OpenKept DEF Others
    <2>4. QED BY <2>2, <2>3, OpenOnlyBase
<1>4. QED BY <1>1, <1>2, <1>3 DEF CycleRuns

LEMMA CommitBase ==
    ASSUME Base, NEW k \in DOMAIN running, NEW a \in Analyses[followed], CycleCommits(k, a)
    PROVE  Base'
<1>1. /\ flows' = Visible(k) /\ arrived' \in [DOMAIN flows' -> 0..Len(cycles)]
      /\ snapshots' = snapshots \cup Taken(k)
      /\ DOMAIN running' = DOMAIN running \ {k} /\ \A j \in DOMAIN running \ {k} : running'[j] = running[j]
      /\ UNCHANGED <<cycles, beside, followed, now, price, outcomes, page>>
    BY CommitData DEF Others
<1>2. SignalsTyped' /\ Ids \subseteq Ids'
    <2>1. CASE UNCHANGED signals
        BY <1>1, <2>1, UnchangedCompletes, CompletesTyped
    <2>2. CASE Raises(k)
        BY <1>1, <2>2, RaisesTyped
    <2>3. QED BY <2>1, <2>2, CommitRaises
<1>3. /\ DOMAIN flows' \subseteq 0..(DayOf(now) - 1) /\ flows' \in [DOMAIN flows' -> Int]
      /\ IsFiniteSet(snapshots') /\ snapshots' \subseteq [cycle : 0..Len(cycles), at : 0..now, regime : Regimes]
    <2>1. DOMAIN Visible(k) \subseteq 0..(DayOf(now) - 1) /\ Visible(k) \in [DOMAIN Visible(k) -> Int]
        BY SeenFacts
    <2>2. snapshots \cup Taken(k) \in SnapshotsTo(Len(cycles), now)
        BY SeenFacts
    <2> DEFINE v == Visible(k)
               t == Taken(k)
    <2> HIDE DEF v, t
    <2>3. flows' = v /\ snapshots' = snapshots \cup t
        BY <1>1 DEF v, t
    <2>4. QED BY <2>1, <2>2, <2>3 DEF v, t, SnapshotsTo
<1>4. OpenTyped'
    <2>1. \A j \in DOMAIN running : running[j] \in Transactions(DOMAIN running[j].rows)
        BY DEF Base, EvaluationTypeOK
    <2>2. /\ DOMAIN running' \subseteq DOMAIN running
          /\ \A j \in DOMAIN running' :
                running'[j] \in Transactions(DOMAIN running'[j].rows) /\ running'[j].rows = running[j].rows
        BY <1>1, <2>1
    <2>3. QED BY <1>1, <2>2, OpenKept
<1>5. \A s \in snapshots' : s.at = StampOf(s.cycle)'
    <2>1. ASSUME NEW s \in Taken(k) PROVE s.at = StampOf(s.cycle)
        <3>1. s.cycle = k /\ s.at = now
            BY SeenFacts
        <3>2. k \in 1..Len(cycles) /\ cycles[k] = now /\ Len(cycles) \in Nat
            BY SeenFacts, BaseFacts
        <3>3. QED BY <3>1, <3>2 DEF StampOf
    <2>2. \A s \in snapshots : s.at = StampOf(s.cycle)
        BY DEF Base, Timed
    <2>3. QED BY <1>1, <2>1, <2>2 DEF StampOf
<1>6. QED BY <1>1, <1>2, <1>3, <1>4, <1>5 DEF Base, EvaluationTypeOK, OpenTyped, OpenRecords, Timed, SignalsTyped

LEMMA TickBase ==
    ASSUME Base, NEW p \in Prices, Tick(p)
    PROVE  Base'
<1>0. /\ DOMAIN running = {}
      /\ UNCHANGED <<followed, signals, outcomes, page, cycles, running, beside, flows, arrived, snapshots>>
    BY TickFacts DEF dataVars, cycleVars
<1>1. SignalsTyped' /\ Ids' = Ids
    BY <1>0, UnchangedCompletes, CompletesTyped
<1>2. \A t \in DOMAIN price' : t \in Moments /\ t <= now'
    BY TickFacts, BaseFacts, MomentsFacts DEF Priced
<1>3. /\ DOMAIN flows' \subseteq 0..(DayOf(now') - 1) /\ flows' \in [DOMAIN flows' -> Int]
      /\ arrived' \in [DOMAIN flows' -> 0..Len(cycles')]
      /\ IsFiniteSet(snapshots') /\ snapshots' \subseteq [cycle : 0..Len(cycles'), at : 0..now', regime : Regimes]
    <2>1. now \in Nat /\ now' \in Nat /\ now <= now' /\ DayOf(now) <= DayOf(now')
          /\ DayOf(now) \in Nat /\ DayOf(now') \in Nat
        BY TickFacts, BaseFacts, DayMonotone, DayArithmetic
    <2>2. 0..(DayOf(now) - 1) \subseteq 0..(DayOf(now') - 1) /\ 0..now \subseteq 0..now'
        BY <2>1
    <2>3. QED BY <1>0, <2>2 DEF Base, EvaluationTypeOK
<1>4. /\ followed' \in Followed /\ now' \in DOMAIN price' /\ price' \in [DOMAIN price' -> Prices]
      /\ beside' \subseteq SUBSET (DOMAIN cycles') /\ DOMAIN outcomes' \subseteq Ids /\ Len(page') \in 0..5
    BY <1>0, TickFacts DEF Base, EvaluationTypeOK
<1>5. cycles' \in Seq(DOMAIN price')
    <2>1. cycles \in Seq(DOMAIN price) /\ DOMAIN price \subseteq DOMAIN price'
        BY TickFacts DEF Base, EvaluationTypeOK
    <2>2. QED BY <1>0, <2>1
<1>6. Timed'
    BY <1>0, <1>1 DEF Base, Timed, StampOf, SignalsTyped
<1>7. QED BY <1>0, <1>1, <1>2, <1>3, <1>4, <1>5, <1>6 DEF Base, EvaluationTypeOK, SignalsTyped

\* A step that leaves the cycles and what they stored alone.
LEMMA ElsewhereBase ==
    ASSUME Base, UNCHANGED <<followed, now, price, dataVars>>, Completes,
           DOMAIN outcomes' \subseteq Ids, Len(page') \in 0..5
    PROVE  Base'
<1>1. UNCHANGED <<followed, now, price, cycles, running, beside, flows, arrived, snapshots>>
    BY DEF dataVars, cycleVars
<1>2. SignalsTyped' /\ Ids' = Ids
    BY <1>1, CompletesTyped
<1>3. OpenTyped'
    <2>1. \A j \in DOMAIN running : running[j] \in Transactions(DOMAIN running[j].rows)
        BY DEF Base, EvaluationTypeOK
    <2>2. QED BY <1>1, <2>1, OpenKept
<1>4. \A s \in snapshots' : s.at = StampOf(s.cycle)'
    BY <1>1 DEF Base, Timed, StampOf
<1>5. QED BY <1>1, <1>2, <1>3, <1>4 DEF Base, EvaluationTypeOK, OpenTyped, OpenRecords, Timed, SignalsTyped

LEMMA BaseStep == Base /\ [EvaluationNext]_evaluationVars => Base'
<1> SUFFICES ASSUME Base, [EvaluationNext]_evaluationVars PROVE Base'
    OBVIOUS
<1>0. DOMAIN outcomes \subseteq Ids /\ Len(page) \in 0..5
    BY DEF Base, EvaluationTypeOK
<1>1. ASSUME NEW p \in Prices, Tick(p) PROVE Base'
    BY <1>1, TickBase
<1>2. CASE CycleRuns
    BY <1>2, RunsBase
<1>3. ASSUME NEW k \in DOMAIN running, NEW a \in Analyses[followed], CycleCommits(k, a) PROVE Base'
    BY <1>3, CommitBase
<1>4. CASE Backfills
    BY <1>0, <1>4, ElsewhereBase DEF Backfills
<1>5. ASSUME NEW up \in UpSets[followed], Evaluate(up) PROVE Base'
    <2> DEFINE scored == {i \in Eligible : ~Score(signals[i], up).none}
    <2>1. DOMAIN outcomes' = DOMAIN outcomes \cup scored
        BY <1>5 DEF Evaluate, With
    <2>2. scored \subseteq Ids
        BY DEF Eligible
    <2>3. UNCHANGED <<followed, now, price, signals, page, dataVars>>
        BY <1>5 DEF Evaluate
    <2> HIDE DEF scored
    <2>4. QED BY <1>0, <2>1, <2>2, <2>3, UnchangedCompletes, ElsewhereBase
<1>6. CASE ReadPage
    <2>1. Len(page') \in 0..5
        <3>1. Len(PageQueries) = 5 /\ Len(page) \in Nat
            BY DEF PageQueries, Base, EvaluationTypeOK
        <3>2. QED BY <1>6, <3>1 DEF ReadPage, Base, EvaluationTypeOK
    <2>2. UNCHANGED <<followed, now, price, signals, outcomes, dataVars>>
        BY <1>6 DEF ReadPage
    <2>3. QED BY <1>0, <2>1, <2>2, UnchangedCompletes, ElsewhereBase
<1>7. CASE UNCHANGED evaluationVars
    <2>1. UNCHANGED <<followed, now, price, dataVars, signals, outcomes, page>>
        BY <1>7 DEF evaluationVars
    <2>2. QED BY <1>0, <2>1, UnchangedCompletes, ElsewhereBase
<1>8. QED BY <1>1, <1>2, <1>3, <1>4, <1>5, <1>6, <1>7, StepKinds

THEOREM BaseInvariant == EvaluationSpec => []Base
BY InitBase, BaseStep, PTL DEF EvaluationSpec

\* Every variable the model declares keeps to its type: an open cycle began at the
\* moment that is now, and a signal was created at the moment its cycle began.
THEOREM EvaluationTypeCorrect == EvaluationSpec => []EvaluationTypeOK
<1>1. Base => EvaluationTypeOK
    BY DEF Base
<1>2. QED BY BaseInvariant, <1>1, PTL

---------------------------------------------------------------------------
\* The shifts of one day.  A shift is raised by the newest snapshot a cycle sees, and only
\* if every other one is of an earlier day.  So the shifts committed when the cycle
\* detects are of other days, or of that very snapshot; those committed from then on are
\* of cycles beside it.
Of(s, h) == DayOf(s.at) = h.date /\ s.regime = h.mark
ShiftTaken(i) == \E s \in snapshots : Of(s, signals[i])
ShiftFound(k, h) == \E s \in snapshots \cup Taken(k) : Of(s, h)
ShiftApart(i, k, h) ==
    signals[i].date = h.date => signals[i].mark = h.mark \/ {signals[i].cycle, k} \in beside
ShiftsApart ==
    followed = "regime_shift" =>
        /\ \A i \in Ids : ShiftTaken(i)
        /\ \A k \in DOMAIN running : running[k].detected =>
               \A h \in running[k].hits : ShiftFound(k, h) /\ \A i \in Ids : ShiftApart(i, k, h)
        /\ ShiftsOfOneDayOverlapped

LEMMA StampOrder ==
    ASSUME Base, NEW c \in 0..Len(cycles), NEW d \in 0..Len(cycles), c <= d
    PROVE  StampOf(c) <= StampOf(d)
<1>1. CASE c # 0
    BY <1>1, BaseFacts DEF StampOf, Base, Timed
<1>2. CASE c = 0 /\ d # 0
    <2>1. d \in DOMAIN cycles /\ cycles[d] \in Moments
        BY <1>2, BaseFacts DEF Priced
    <2>2. cycles[d] \in Nat /\ DayOf(cycles[d]) \in FirstDay..LastDay
        BY <2>1, MomentsFacts
    <2>3. OpenOf(FirstDay) <= cycles[d] /\ FirstDay \in Nat
        BY <2>2, DaysAssumption DEF DayOf, OpenOf, Hours, HalfHoursADay
    <2>4. CronOf(FirstDay - 1) <= cycles[d]
        BY <2>2, <2>3 DEF CronOf, OpenOf, Hours, CronTime
    <2>5. QED BY <1>2, <2>4 DEF StampOf
<1>3. CASE d = 0
    BY <1>3, DaysAssumption DEF StampOf, CronOf, OpenOf, Hours, CronTime
<1>4. QED BY <1>1, <1>2, <1>3

LEMMA ShiftIsFirstOfDay ==
    ASSUME Base, followed = "regime_shift", \A i \in Ids : ShiftTaken(i),
           NEW k \in DOMAIN running, NEW h \in Found(k)
    PROVE  ShiftFound(k, h) /\ \A i \in Ids : signals[i].date = h.date => signals[i].mark = h.mark
<1> DEFINE rows == snapshots \cup Taken(k)
<1>0. DayOf(now) \in Int /\ Len(cycles) \in Nat /\ now \in Nat
    BY BaseFacts
<1>1. rows \in SnapshotsTo(Len(cycles), now)
    BY SeenFacts
<1>2. h \in RegimeShift(rows, DayOf(now))
    BY DEF Found, Detect
<1>3. \A r \in rows : r.at = StampOf(r.cycle)
    <2>1. \A r \in snapshots : r.at = StampOf(r.cycle)
        BY DEF Base, Timed
    <2>2. ASSUME NEW r \in Taken(k) PROVE r.at = StampOf(r.cycle)
        <3>1. r.cycle = k /\ r.at = now
            BY SeenFacts
        <3>2. k \in 1..Len(cycles) /\ cycles[k] = now
            BY SeenFacts, BaseFacts
        <3>3. QED BY <1>0, <3>1, <3>2 DEF StampOf
    <2>3. QED BY <2>1, <2>2
<1> HIDE DEF rows
<1>4. \A r \in rows : r.cycle \in 0..Len(cycles) /\ r.at \in Nat /\ r.at <= now
    BY <1>0, <1>1 DEF SnapshotsTo
<1>5. InOrder(rows)
    BY <1>3, <1>4, StampOrder DEF InOrder
<1>6. \A r \in rows : DayOf(r.at) \in Nat /\ DayOf(r.at) <= DayOf(now)
    BY <1>0, <1>4, DayMonotone, DayArithmetic
<1>7. PICK latest \in rows :
          /\ h = [date |-> DayOf(latest.at), mark |-> latest.regime]
          /\ \A r \in rows : r = latest \/ DayOf(r.at) < DayOf(latest.at)
    BY <1>0, <1>1, <1>2, <1>5, <1>6, RegimeShiftFacts
<1>8. Of(latest, h)
    BY <1>7 DEF Of
<1>9. ASSUME NEW i \in Ids, signals[i].date = h.date
      PROVE  signals[i].mark = h.mark
    <2>1. PICK r \in snapshots : Of(r, signals[i])
        BY DEF ShiftTaken
    <2>2. r \in rows
        BY DEF rows
    <2>3. DayOf(r.at) = DayOf(latest.at) /\ DayOf(r.at) \in Nat
        BY <1>6, <1>8, <1>9, <2>1, <2>2 DEF Of
    <2>4. r = latest
        BY <1>7, <2>2, <2>3
    <2>5. QED BY <1>8, <2>1, <2>4 DEF Of
<1>10. QED BY <1>8, <1>9 DEF ShiftFound, rows

\* A step that stores no snapshot and raises no signal.
LEMMA ShiftKept ==
    ASSUME ShiftsApart, UNCHANGED <<followed, snapshots>>, Ids' = Ids,
           \A i \in Ids : /\ signals'[i].date = signals[i].date /\ signals'[i].mark = signals[i].mark
                         /\ signals'[i].cycle = signals[i].cycle,
           beside \subseteq beside',
           followed = "regime_shift" =>
               \A k \in DOMAIN running' : running'[k].detected =>
                   \A h \in running'[k].hits :
                       ShiftFound(k, h)' /\ \A i \in Ids : ShiftApart(i, k, h)
    PROVE  ShiftsApart'
<1> SUFFICES ASSUME followed = "regime_shift" PROVE ShiftsApart'
    BY DEF ShiftsApart
<1>1. \A i \in Ids : ShiftTaken(i)'
    BY DEF ShiftsApart, ShiftTaken, Of
<1>2. ASSUME NEW k, NEW h, NEW i \in Ids, ShiftApart(i, k, h) PROVE ShiftApart(i, k, h)'
    BY <1>2 DEF ShiftApart
<1>3. ShiftsOfOneDayOverlapped'
    BY DEF ShiftsApart, ShiftsOfOneDayOverlapped, SameDay
<1>4. QED BY <1>1, <1>2, <1>3 DEF ShiftsApart

LEMMA ShiftRuns == ASSUME Base, ShiftsApart, CycleRuns PROVE ShiftsApart'
<1>1. /\ UNCHANGED <<followed, snapshots>> /\ UNCHANGED signals /\ Ids' = Ids
    BY RunsKeep DEF Others, Stored, Ids
<1>2. ASSUME NEW rows \in Sendable, NEW velocity \in Velocities[followed], NEW up \in UpSets[followed],
             CycleOpens(rows, velocity, up)
      PROVE  ShiftsApart'
    <2> DEFINE new == Len(cycles) + 1
    <2>1. /\ DOMAIN running' = DOMAIN running \cup {new} /\ ~running'[new].detected
          /\ \A j \in DOMAIN running : j # new /\ running'[j] = running[j]
          /\ \A c \in DOMAIN cycles : cycles'[c] = cycles[c]
          /\ beside \subseteq beside'
        BY <1>2, OpensFacts
    <2> HIDE DEF new
    <2>2. ASSUME followed = "regime_shift", NEW k \in DOMAIN running', running'[k].detected,
                 NEW h \in running'[k].hits
          PROVE  ShiftFound(k, h)' /\ \A i \in Ids : ShiftApart(i, k, h)
        <3>1. k \in DOMAIN running /\ running'[k] = running[k] /\ cycles'[k] = cycles[k]
            BY <2>1, <2>2, SeenFacts
        <3>2. ShiftFound(k, h) /\ \A i \in Ids : ShiftApart(i, k, h)
            BY <2>2, <3>1 DEF ShiftsApart
        <3>3. QED BY <1>1, <3>1, <3>2 DEF ShiftFound, Taken, Of
    <2>3. QED BY <1>1, <2>1, <2>2, ShiftKept
<1>3. ASSUME NEW k \in DOMAIN running, CycleDetects(k) PROVE ShiftsApart'
    <2>1. /\ DOMAIN running' = DOMAIN running /\ UNCHANGED <<cycles, beside>>
          /\ \A j \in DOMAIN running \ {k} : running'[j] = running[j]
          /\ running'[k].hits \subseteq Found(k) /\ running'[k].regime = running[k].regime
        BY <1>3, DetectsFacts
    <2>2. ASSUME followed = "regime_shift", NEW j \in DOMAIN running', running'[j].detected,
                 NEW h \in running'[j].hits
          PROVE  ShiftFound(j, h)' /\ \A i \in Ids : ShiftApart(i, j, h)
        <3>1. ShiftFound(j, h) /\ \A i \in Ids : ShiftApart(i, j, h)
            <4>1. CASE j = k
                BY <2>1, <2>2, <4>1, ShiftIsFirstOfDay DEF ShiftsApart, ShiftApart
            <4>2. CASE j # k
                BY <2>1, <2>2, <4>2 DEF ShiftsApart
            <4>3. QED BY <4>1, <4>2
        <3>2. running'[j].regime = running[j].regime /\ cycles'[j] = cycles[j]
            BY <2>1
        <3>3. QED BY <1>1, <3>1, <3>2 DEF ShiftFound, Taken, Of
    <2>3. QED BY <1>1, <2>1, <2>2, ShiftKept
<1>4. ASSUME NEW k \in DOMAIN running, CycleFails(k) PROVE ShiftsApart'
    <2>1. /\ DOMAIN running' = DOMAIN running \ {k} /\ UNCHANGED <<cycles, beside>>
          /\ \A j \in DOMAIN running \ {k} : running'[j] = running[j]
        BY <1>4, FailsFacts
    <2>2. ASSUME followed = "regime_shift", NEW j \in DOMAIN running', running'[j].detected,
                 NEW h \in running'[j].hits
          PROVE  ShiftFound(j, h)' /\ \A i \in Ids : ShiftApart(i, j, h)
        <3>1. j \in DOMAIN running /\ running'[j] = running[j] /\ cycles'[j] = cycles[j]
            BY <2>1
        <3>2. ShiftFound(j, h) /\ \A i \in Ids : ShiftApart(i, j, h)
            BY <2>2, <3>1 DEF ShiftsApart
        <3>3. QED BY <1>1, <3>1, <3>2 DEF ShiftFound, Taken, Of
    <2>3. QED BY <1>1, <2>1, <2>2, ShiftKept
<1>5. QED BY <1>2, <1>3, <1>4 DEF CycleRuns

\* Two open cycles are beside each other.
LEMMA OpenBeside ==
    ASSUME Base, NEW j \in DOMAIN running, NEW k \in DOMAIN running, j # k
    PROVE  {j, k} \in beside
<1>1. j \in DOMAIN cycles /\ k \in DOMAIN cycles /\ j \in Nat /\ k \in Nat
    BY SeenFacts
<1>2. CASE j > k
    <2>1. {k, j} \in beside
        BY <1>1, <1>2 DEF Base, Timed
    <2>2. {k, j} = {j, k}
        OBVIOUS
    <2>3. QED BY <2>1, <2>2, Zenon
<1>3. CASE k > j
    BY <1>1, <1>3 DEF Base, Timed
<1>4. QED BY <1>1, <1>2, <1>3

LEMMA ShiftCommit ==
    ASSUME Base, ShiftsApart, NEW k \in DOMAIN running, NEW a \in Analyses[followed], CycleCommits(k, a)
    PROVE  ShiftsApart'
<1>1. /\ snapshots' = snapshots \cup Taken(k) /\ running[k].detected
      /\ DOMAIN running' = DOMAIN running \ {k} /\ \A j \in DOMAIN running \ {k} : running'[j] = running[j]
      /\ UNCHANGED <<followed, cycles, beside>>
    BY CommitData DEF Others
<1> SUFFICES ASSUME followed = "regime_shift" PROVE ShiftsApart'
    BY <1>1 DEF ShiftsApart
<1>2. ASSUME NEW j \in DOMAIN running', NEW h, ShiftFound(j, h) PROVE ShiftFound(j, h)'
    <2>1. Taken(j)' = Taken(j)
        BY <1>1 DEF Taken
    <2>2. QED BY <1>1, <1>2, <2>1 DEF ShiftFound, Of
<1>3. ASSUME NEW i \in Ids, signals'[i] = signals[i] PROVE ShiftTaken(i)'
    BY <1>1, <1>3 DEF ShiftsApart, ShiftTaken, Of
<1>4. CASE UNCHANGED signals
    <2>1. Ids' = Ids
        BY <1>4 DEF Ids
    <2>2. ShiftsOfOneDayOverlapped'
        BY <1>1, <1>4, <2>1 DEF ShiftsApart, ShiftsOfOneDayOverlapped, SameDay
    <2>3. \A i \in Ids' : ShiftTaken(i)'
        BY <1>3, <1>4, <2>1
    <2>4. ASSUME NEW j \in DOMAIN running', running'[j].detected, NEW h \in running'[j].hits
          PROVE  ShiftFound(j, h)' /\ \A i \in Ids' : ShiftApart(i, j, h)'
        <3>1. j \in DOMAIN running /\ running'[j] = running[j]
            BY <1>1
        <3>2. ShiftFound(j, h) /\ \A i \in Ids : ShiftApart(i, j, h)
            BY <2>4, <3>1 DEF ShiftsApart
        <3>3. \A i \in Ids' : ShiftApart(i, j, h)'
            BY <1>1, <1>4, <2>1, <3>2 DEF ShiftApart
        <3>4. QED BY <1>2, <3>2, <3>3
    <2>5. QED BY <2>2, <2>3, <2>4 DEF ShiftsApart
<1>5. CASE Raises(k)
    <2>0. PICK new : new = Len(signals) + 1
        OBVIOUS
    <2>1. /\ Ids' = Ids \cup {new} /\ new \notin Ids
          /\ \A i \in Ids : signals'[i] = signals[i]
        BY <1>5, <2>0, BaseFacts DEF Raises, Ids
    <2>2. PICK h : h \in Unseen(running[k].hits) /\ Filled(NewSignal(k, h), signals'[new])
        BY <1>5, <2>0 DEF Raises, Raised
    <2>3. signals'[new].date = h.date /\ signals'[new].mark = h.mark /\ signals'[new].cycle = k
        <3>1. NewSignal(k, h).date = h.date /\ NewSignal(k, h).mark = h.mark /\ NewSignal(k, h).cycle = k
            BY DEF NewSignal
        <3>2. QED BY <2>2, <3>1 DEF Filled
    <2>4. /\ h \in running[k].hits
          /\ \A i \in Ids : ~(signals[i].date = h.date /\ signals[i].mark = h.mark)
        BY <2>2 DEF Unseen
    <2>5. ShiftFound(k, h) /\ \A i \in Ids : ShiftApart(i, k, h)
        BY <1>1, <2>4 DEF ShiftsApart
    <2>6. \A i \in Ids' : ShiftTaken(i)'
        <3>1. ShiftTaken(new)'
            BY <1>1, <2>3, <2>5 DEF ShiftTaken, ShiftFound, Of
        <3>2. QED BY <1>3, <2>1, <3>1
    <2>7. ASSUME NEW j \in DOMAIN running', running'[j].detected, NEW g \in running'[j].hits
          PROVE  ShiftFound(j, g)' /\ \A i \in Ids' : ShiftApart(i, j, g)'
        <3>1. j \in DOMAIN running /\ j # k /\ running'[j] = running[j]
            BY <1>1
        <3>2. ShiftFound(j, g) /\ \A i \in Ids : ShiftApart(i, j, g)
            BY <2>7, <3>1 DEF ShiftsApart
        <3>3. \A i \in Ids : ShiftApart(i, j, g)'
            BY <1>1, <2>1, <3>2 DEF ShiftApart
        <3>4. {k, j} \in beside
            BY <3>1, OpenBeside
        <3>5. ShiftApart(new, j, g)'
            BY <1>1, <2>3, <3>4 DEF ShiftApart
        <3>6. QED BY <1>2, <2>1, <3>2, <3>3, <3>5
    <2>8. ASSUME NEW i \in Ids, signals[i].date = h.date
          PROVE  {signals[i].cycle, k} \in beside
        BY <2>4, <2>5, <2>8 DEF ShiftApart
    <2>9. ShiftsOfOneDayOverlapped'
        <3>1. ASSUME NEW i \in Ids', NEW j \in Ids', i # j, signals'[i].date = signals'[j].date
              PROVE  {signals'[i].cycle, signals'[j].cycle} \in beside
            <4>1. CASE i \in Ids /\ j \in Ids
                BY <2>1, <3>1, <4>1 DEF ShiftsApart, ShiftsOfOneDayOverlapped, SameDay
            <4>2. CASE i \in Ids /\ j = new
                BY <2>1, <2>3, <2>8, <3>1, <4>2
            <4>3. CASE i = new /\ j \in Ids
                <5>1. {signals[j].cycle, k} \in beside
                    BY <2>1, <2>3, <2>8, <3>1, <4>3
                <5>2. {k, signals[j].cycle} = {signals[j].cycle, k}
                    OBVIOUS
                <5>3. {k, signals[j].cycle} \in beside
                    BY <5>1, <5>2, Zenon
                <5>4. QED BY <2>1, <2>3, <4>3, <5>3
            <4>4. QED BY <2>1, <3>1, <4>1, <4>2, <4>3
        <3>2. QED BY <1>1, <3>1 DEF ShiftsOfOneDayOverlapped, SameDay
    <2>10. QED BY <2>6, <2>7, <2>9 DEF ShiftsApart
<1>6. QED BY <1>4, <1>5, CommitRaises

LEMMA ShiftStep ==
    ASSUME Base, ShiftsApart, [EvaluationNext]_evaluationVars
    PROVE  ShiftsApart'
<1>1. ASSUME UNCHANGED <<followed, snapshots, cycles, running, beside>>, Completes PROVE ShiftsApart'
    <2>1. Ids' = Ids
        BY <1>1 DEF Completes, Ids
    <2>2. \A i \in Ids : /\ signals'[i].date = signals[i].date /\ signals'[i].mark = signals[i].mark
                         /\ signals'[i].cycle = signals[i].cycle
        BY <1>1 DEF Completes, Filled
    <2>3. ASSUME followed = "regime_shift", NEW k \in DOMAIN running', running'[k].detected,
                 NEW h \in running'[k].hits
          PROVE  ShiftFound(k, h)' /\ \A i \in Ids : ShiftApart(i, k, h)
        BY <1>1, <2>3 DEF ShiftsApart, ShiftFound, Taken, Of
    <2>4. QED BY <1>1, <2>1, <2>2, <2>3, ShiftKept
<1>2. CASE UNCHANGED <<followed, snapshots, cycles, running, beside, signals>>
    BY <1>1, <1>2, UnchangedCompletes
<1>3. CASE CycleRuns
    BY <1>3, ShiftRuns
<1>4. ASSUME NEW k \in DOMAIN running, NEW a \in Analyses[followed], CycleCommits(k, a) PROVE ShiftsApart'
    BY <1>4, ShiftCommit
<1>5. CASE Backfills
    BY <1>1, <1>5 DEF Backfills, dataVars, cycleVars
<1>6. CASE UNCHANGED evaluationVars
    BY <1>2, <1>6 DEF evaluationVars, dataVars, cycleVars
<1>7. ASSUME NEW p \in Prices, Tick(p) PROVE ShiftsApart'
    BY <1>2, <1>7, TickFacts DEF dataVars, cycleVars
<1>8. ASSUME NEW up \in UpSets[followed], Evaluate(up) PROVE ShiftsApart'
    BY <1>2, <1>8 DEF Evaluate, dataVars, cycleVars
<1>9. CASE ReadPage
    BY <1>2, <1>9 DEF ReadPage, dataVars, cycleVars
<1>10. QED BY <1>3, <1>4, <1>5, <1>6, <1>7, <1>8, <1>9, StepKinds

LEMMA ShiftsAlwaysApart == EvaluationSpec => []ShiftsApart
<1>1. EvaluationInit => ShiftsApart
    BY DEF EvaluationInit, ShiftsApart, ShiftsOfOneDayOverlapped, Ids
<1>2. QED BY BaseInvariant, ShiftStep, <1>1, PTL DEF EvaluationSpec

\* Two regime-shift signals of one day come from cycles whose transactions were open
\* together: of cycles that ran one after the other, the later sees the earlier's
\* snapshot, and the gate compares the days of the two latest (regime_shift.py 71-80).
THEOREM ShiftsAlwaysOverlapped == EvaluationSpec => []ShiftsOfOneDayOverlapped
<1>1. ShiftsApart => ShiftsOfOneDayOverlapped
    BY DEF ShiftsApart, ShiftsOfOneDayOverlapped
<1>2. QED BY ShiftsAlwaysApart, <1>1, PTL

---------------------------------------------------------------------------
\* A vote of the price is backed by quotes.  The day its window starts in has ended
\* when the signal is created (on the same day nothing has moved), so what was quoted
\* stays as it was, however late the vote is cast.
DayIn(m) == {t \in DOMAIN price : DayOf(t) = DayOf(m)}
StartOf(created, source) == InForceAt(OpenOf(DayOf(created - FactorWindow) + 1)) + Premium[source]
Backs(vote, start, p) == Sign(p - start) = vote /\ 100 * Size(p - start) >= FactorPercent * start
Backed(source, vote, created) ==
    /\ DayOf(created - FactorWindow) < DayOf(created)
    /\ \E t \in {created} \cup DayIn(created) :
          Backs(vote, StartOf(created, source), InForceAt(t + 1) + Premium[source])
BackedVotes == {v \in Sources \X {-1, 1} \X (DOMAIN price) : Backed(v[1], v[2], v[3])}
SourcesOf(s) == {s.source, "binance"} \ {NoSource}
VoteBacked(s, votes) == ~s.confirmed.none /\ s.confirmed.price # 0 =>
                            \E source \in SourcesOf(s) : <<source, s.confirmed.price, s.created>> \in votes
VotesBacked == \A i \in Ids : VoteBacked(signals[i], BackedVotes)

LEMMA DayArithmeticInt ==
    ASSUME NEW m \in Int
    PROVE  /\ DayOf(m) \in Int /\ OpenOf(DayOf(m)) <= m /\ m < OpenOf(DayOf(m) + 1)
           /\ OpenOf(DayOf(m) + 1) = OpenOf(DayOf(m)) + Hours(24)
           /\ \A d \in Int : OpenOf(d) <= m <=> d <= DayOf(m)
           /\ \A n \in Int : m <= n => DayOf(m) <= DayOf(n)
BY DEF DayOf, OpenOf, Hours, HalfHoursADay

\* The close picked at a moment is that of the moment's day, if the source has bars.
LEMMA PickedClose ==
    ASSUME NEW n \in Nat, NEW bars, DOMAIN bars = {} \/ DOMAIN bars = 1..n,
           NEW m \in Int, DayOf(m) <= n, NEW from \in Int, from + Hours(24) <= m,
           NEW to \in Int, m <= to
    PROVE  /\ DOMAIN bars = {} \/ DayOf(m) < 1 => PickCloseAt(Fetched(bars, from, to), m) = NoPrice
           /\ DOMAIN bars # {} /\ DayOf(m) >= 1 =>
                  PickCloseAt(Fetched(bars, from, to), m) = bars[DayOf(m)].close
<1> DEFINE near == Fetched(bars, from, to)
           opened == {d \in DOMAIN near : OpenOf(d) <= m}
<1>1. PickCloseAt(near, m) = IF opened = {} THEN NoPrice ELSE near[Max(opened)].close
    BY DEF PickCloseAt
<1>2. /\ \A d \in DOMAIN near : d \in DOMAIN bars /\ near[d] = bars[d]
      /\ \A d \in DOMAIN bars : from <= OpenOf(d) /\ OpenOf(d) <= to => d \in DOMAIN near
    BY DEF Fetched
<1> HIDE DEF near
<1>3. DayOf(m) \in Int /\ \A e \in Int : OpenOf(e) <= m <=> e <= DayOf(m)
    BY DayArithmeticInt, Zenon
<1>4. \A e \in opened : e \in DOMAIN bars /\ e \in Int /\ 1 <= e /\ e <= DayOf(m)
    BY <1>2, <1>3
<1>5. DOMAIN bars = {} \/ DayOf(m) < 1 => opened = {}
    <2> HIDE DEF opened
    <2>1. QED BY <1>3, <1>4
<1>6. ASSUME DOMAIN bars # {}, DayOf(m) >= 1
      PROVE  DayOf(m) \in opened
    <2>1. DayOf(m) \in 1..n
        BY <1>3, <1>6
    <2>2. OpenOf(DayOf(m)) <= m /\ from <= OpenOf(DayOf(m)) /\ OpenOf(DayOf(m)) <= to
        BY <1>3 DEF OpenOf, Hours, DayOf, HalfHoursADay
    <2>3. QED BY <1>2, <1>6, <2>1, <2>2
<1> HIDE DEF opened
<1>7. ASSUME DayOf(m) \in opened
      PROVE  near[Max(opened)].close = bars[DayOf(m)].close
    <2>1. \A x \in opened : (\A y \in opened : x >= y) => x = DayOf(m)
        BY <1>3, <1>4, <1>7
    <2>2. DayOf(m) \in opened /\ \A y \in opened : DayOf(m) >= y
        BY <1>3, <1>4, <1>7
    <2>3. Max(opened) = DayOf(m)
        BY <2>1, <2>2 DEF Max
    <2>4. DayOf(m) \in DOMAIN near
        BY <1>7 DEF opened
    <2>5. QED BY <1>2, <2>3, <2>4
<1>8. QED BY <1>1, <1>5, <1>6, <1>7 DEF near

LEMMA ServedAll ==
    ASSUME now \in Nat, NEW source, NEW up
    PROVE  /\ DOMAIN Served(source, up, 0, now) = IF source \in up THEN 1..DayOf(now) ELSE {}
           /\ \A d \in DOMAIN Served(source, up, 0, now) :
                  Served(source, up, 0, now)[d] = Bar(d, Premium[source])
<1>1. DayOf(now) \in Nat /\ OpenOf(DayOf(now)) <= now
    BY DayArithmetic
<1>2. \A d \in 1..DayOf(now) : 0 <= OpenOf(d) /\ OpenOf(d) <= now
    BY <1>1 DEF OpenOf, Hours
<1>3. QED BY <1>2 DEF Served, Fetched, BarsOf

\* The price at the end of a day on which there was a moment is that of the last one.
LEMMA DayEndsAtLastMoment ==
    ASSUME Priced, NEW created \in DOMAIN price
    PROVE  \E t \in DayIn(created) : InForceAt(OpenOf(DayOf(created) + 1)) = InForceAt(t + 1)
<1> DEFINE m == OpenOf(DayOf(created) + 1)
           past == {t \in DOMAIN price : t < m}
           u == Max(past)
           upTo == {t \in DOMAIN price : t < u + 1}
<1>1. \A t \in DOMAIN price : t \in Nat /\ DayOf(t) \in Nat
    BY MomentsFacts, DayArithmetic DEF Priced
<1>2. created \in past
    BY <1>1, DayArithmetic
<1>3. u \in past /\ (\A t \in past : t <= u) /\ InForceAt(m) = price[u]
    BY <1>2, InForceFacts, Zenon
<1> HIDE DEF u
<1>4. u \in DayIn(created)
    <2>1. u \in Nat /\ created \in Nat /\ created <= u /\ u < m /\ u \in DOMAIN price
        BY <1>1, <1>2, <1>3
    <2>2. DayOf(u) \in Int /\ DayOf(created) \in Int /\ DayOf(created) <= DayOf(u)
        <3>1. u \in Int /\ created \in Int
            BY <2>1
        <3>2. QED BY <2>1, <3>1, DayMonotone, DayArithmetic
    <2>3. u < OpenOf(DayOf(created) + 1) /\ OpenOf(DayOf(u)) <= u
        BY <2>1, DayArithmetic
    <2>4. DayOf(u) < DayOf(created) + 1
        BY <2>1, <2>2, <2>3 DEF OpenOf, Hours
    <2>5. QED BY <2>1, <2>2, <2>4 DEF DayIn
<1>5. InForceAt(u + 1) = price[u]
    <2>1. u \in upTo /\ \A t \in upTo : t \in Nat /\ t <= u
        BY <1>1, <1>3
    <2>2. /\ InForceAt(u + 1) = price[Max(upTo)]
          /\ Max(upTo) \in upTo /\ \A t \in upTo : t <= Max(upTo)
        <3>1. upTo # {}
            BY <2>1
        <3>2. QED BY <3>1, InForceFacts, Zenon
    <2>3. Max(upTo) = u
        <3>1. Max(upTo) \in Nat /\ u \in Nat /\ Max(upTo) <= u /\ u <= Max(upTo)
            BY <1>1, <1>3, <2>1, <2>2
        <3>2. QED BY <3>1
    <2>4. QED BY <2>2, <2>3
<1>6. QED BY <1>3, <1>4, <1>5

LEMMA VoteIsBacked ==
    ASSUME Priced, now \in Nat, NEW created \in DOMAIN price, NEW source \in Sources, NEW up,
           PriceVote(Served(source, up, 0, now), created) # 0
    PROVE  <<source, PriceVote(Served(source, up, 0, now), created), created>> \in BackedVotes
<1> DEFINE bars == Served(source, up, 0, now)
           m == created - FactorWindow
           from == m - Hours(24)
           to == created + Hours(24)
           start == PickCloseAt(Fetched(bars, from, to), m)
           last == PickCloseAt(Fetched(bars, from, to), created)
           change == last - start
           vote == PriceVote(bars, created)
<1>1. /\ vote = IF start <= 0 \/ 100 * Size(change) < FactorPercent * start THEN 0
                ELSE IF change > 0 THEN 1 ELSE -1
    BY DEF PriceVote, Size
<1>2. created \in Nat /\ created <= now /\ m \in Int /\ m <= created /\ from \in Int /\ to \in Int
      /\ from + Hours(24) <= m /\ from + Hours(24) <= created /\ m <= to /\ created <= to
    BY MomentsFacts, FactorAssumption DEF Priced, Hours
<1>3. /\ DayOf(now) \in Nat /\ DayOf(created) \in Nat /\ DayOf(m) \in Int
      /\ DayOf(m) <= DayOf(created) /\ DayOf(created) <= DayOf(now)
    <2>1. DayOf(now) \in Nat /\ DayOf(created) \in Nat /\ DayOf(created) <= DayOf(now)
        BY <1>2, DayArithmetic, DayMonotone
    <2>2. DayOf(m) \in Int /\ \A k \in Int : m <= k => DayOf(m) <= DayOf(k)
        BY <1>2, DayArithmeticInt, Zenon
    <2>3. created \in Int
        BY <1>2
    <2>4. QED BY <1>2, <2>1, <2>2, <2>3
<1>4. /\ DOMAIN bars = {} \/ DOMAIN bars = 1..DayOf(now)
      /\ \A d \in DOMAIN bars : bars[d] = Bar(d, Premium[source])
    BY ServedAll
<1> HIDE DEF bars
<1>5. /\ DOMAIN bars = {} \/ DayOf(m) < 1 => start = NoPrice
      /\ DOMAIN bars # {} /\ DayOf(m) >= 1 => start = bars[DayOf(m)].close
    <2> HIDE DEF m, from, to
    <2>1. DayOf(m) <= DayOf(now)
        BY <1>3
    <2>2. QED BY <1>2, <1>3, <1>4, <2>1, PickedClose
<1>6. DOMAIN bars # {} /\ DayOf(created) >= 1 => last = bars[DayOf(created)].close
    <2> HIDE DEF m, from, to
    <2>1. created \in Int
        BY <1>2
    <2>2. QED BY <1>2, <1>3, <1>4, <2>1, PickedClose
<1> HIDE DEF m, from, to, start, last
<1>7. start # NoPrice
    BY <1>1 DEF NoPrice, bars
<1>8. DOMAIN bars # {} /\ DayOf(m) >= 1 /\ DayOf(created) >= 1
    <2> HIDE DEF change, vote
    <2>1. DOMAIN bars # {}
        BY <1>5, <1>7
    <2>2. ~(DayOf(m) < 1)
        BY <1>5, <1>7
    <2>3. QED BY <1>3, <2>1, <2>2
<1>9. /\ DayOf(m) \in DOMAIN bars /\ DayOf(created) \in DOMAIN bars
      /\ start = bars[DayOf(m)].close /\ last = bars[DayOf(created)].close
    BY <1>3, <1>4, <1>5, <1>6, <1>8
<1>10. /\ start = InForceAt(OpenOf(DayOf(m) + 1)) + Premium[source] /\ start \in Nat \ {0}
       /\ last = InForceAt(OpenOf(DayOf(created) + 1)) + Premium[source] /\ last \in Nat \ {0}
    <2>1. Premium[source] \in Nat
        BY PremiumType
    <2>2. /\ Bar(DayOf(m), Premium[source]).close = InForceAt(OpenOf(DayOf(m) + 1)) + Premium[source]
          /\ Bar(DayOf(m), Premium[source]).close \in Nat \ {0}
        BY <2>1, CloseType, Zenon
    <2>3. /\ Bar(DayOf(created), Premium[source]).close = InForceAt(OpenOf(DayOf(created) + 1)) + Premium[source]
          /\ Bar(DayOf(created), Premium[source]).close \in Nat \ {0}
        BY <2>1, CloseType, Zenon
    <2>4. QED BY <1>4, <1>9, <2>2, <2>3
<1>11. vote = (IF change > 0 THEN 1 ELSE -1) /\ 100 * Size(change) >= FactorPercent * start
    <2>1. ~(start <= 0) /\ ~(100 * Size(change) < FactorPercent * start)
        BY <1>1 DEF bars
    <2>2. change \in Int /\ Size(change) \in Int /\ FactorPercent \in Int
        BY <1>10, FactorAssumption DEF Size
    <2>3. FactorPercent * start \in Int /\ 100 * Size(change) \in Int
        BY <1>10, <2>2
    <2>4. QED BY <1>1, <2>1, <2>3
<1>12. change # 0
    <2>1. FactorPercent * start > 0 /\ FactorPercent * start \in Int
        BY <1>10, FactorAssumption
    <2>2. change = 0 => Size(change) = 0
        BY DEF Size
    <2> HIDE DEF change
    <2>3. QED BY <1>11, <2>1, <2>2
<1>13. vote \in {-1, 1} /\ Sign(change) = vote
    BY <1>10, <1>11, <1>12 DEF Sign
<1>14. DayOf(m) < DayOf(created)
    <2>1. DayOf(m) # DayOf(created)
        BY <1>9, <1>10, <1>12
    <2>2. QED BY <1>3, <2>1
<1>15. PICK t \in DayIn(created) : InForceAt(OpenOf(DayOf(created) + 1)) = InForceAt(t + 1)
    BY DayEndsAtLastMoment
<1>16. StartOf(created, source) = start
    BY <1>10 DEF StartOf, m
<1>17. change = (InForceAt(t + 1) + Premium[source]) - start
    <2>1. last = InForceAt(t + 1) + Premium[source]
        BY <1>10, <1>15, Zenon
    <2>2. QED BY <2>1
<1>18. Backs(vote, StartOf(created, source), InForceAt(t + 1) + Premium[source])
    <2> HIDE DEF change, vote
    <2>1. (InForceAt(t + 1) + Premium[source]) - StartOf(created, source) = change
        BY <1>16, <1>17, Zenon
    <2>2. QED BY <1>11, <1>13, <1>16, <2>1, Zenon DEF Backs
<1>19. Backed(source, vote, created)
    <2> HIDE DEF change, vote
    <2>1. DayOf(created - FactorWindow) < DayOf(created)
        BY <1>14 DEF m
    <2>2. QED BY <1>15, <1>18, <2>1 DEF Backed
<1>20. <<source, vote, created>> \in BackedVotes
    <2> HIDE DEF change, vote
    <2>1. QED BY <1>13, <1>19 DEF BackedVotes
<1>21. QED BY <1>20 DEF bars

\* What was in force at a moment that has come stays.
LEMMA InForceStable ==
    ASSUME Base, NEW p \in Prices, Tick(p), NEW m \in Int, m <= now'
    PROVE  InForceAt(m)' = InForceAt(m)
<1> DEFINE past == {t \in DOMAIN price : t < m}
<1>1. past' = past
    BY TickFacts
<1>2. InForceAt(m) = (IF past = {} THEN StartPrice ELSE price[Max(past)])
    BY DEF InForceAt
<1>3. InForceAt(m)' = (IF past = {} THEN StartPrice ELSE price'[Max(past)])
    BY <1>1 DEF InForceAt
<1>4. past # {} => Max(past) \in DOMAIN price
    <2>1. past \in SUBSET (DOMAIN price)
        OBVIOUS
    <2>2. QED BY <2>1, BaseFacts, PastPrices
<1>5. QED BY <1>2, <1>3, <1>4, TickFacts

LEMMA BackedStays ==
    ASSUME Base, NEW p \in Prices, Tick(p)
    PROVE  BackedVotes \subseteq BackedVotes'
<1> SUFFICES ASSUME NEW source \in Sources, NEW v \in {-1, 1}, NEW c \in DOMAIN price, Backed(source, v, c)
             PROVE  <<source, v, c>> \in BackedVotes'
    BY DEF BackedVotes
<1>1. PICK t \in {c} \cup DayIn(c) :
          Backs(v, StartOf(c, source), InForceAt(t + 1) + Premium[source])
    BY DEF Backed
<1>2. /\ c \in Nat /\ c <= now /\ t \in DOMAIN price /\ t \in Nat /\ t <= now
      /\ now \in Nat /\ now' \in Nat /\ now < now'
    BY TickFacts, BaseFacts, MomentsFacts DEF Priced, DayIn
<1>3. InForceAt(t + 1)' = InForceAt(t + 1)
    <2>1. t + 1 \in Int /\ t + 1 <= now'
        BY <1>2
    <2>2. QED BY <2>1, InForceStable
<1>4. StartOf(c, source)' = StartOf(c, source)
    <2>1. DayOf(c - FactorWindow) < DayOf(c)
        BY DEF Backed
    <2>2. c - FactorWindow \in Int
        BY <1>2, FactorAssumption
    <2>3. DayOf(c - FactorWindow) \in Int /\ DayOf(c) \in Nat /\ OpenOf(DayOf(c)) <= c
        BY <1>2, <2>2, DayArithmetic, DayArithmeticInt
    <2>4. OpenOf(DayOf(c - FactorWindow) + 1) \in Int /\ OpenOf(DayOf(c - FactorWindow) + 1) <= now'
        BY <1>2, <2>1, <2>3 DEF OpenOf, Hours
    <2>5. InForceAt(OpenOf(DayOf(c - FactorWindow) + 1))' = InForceAt(OpenOf(DayOf(c - FactorWindow) + 1))
        BY <2>4, InForceStable
    <2>6. QED BY <2>5 DEF StartOf
<1>5. t \in {c} \cup DayIn(c)'
    BY TickFacts DEF DayIn
<1>6. Backed(source, v, c)'
    <2>1. DayOf(c - FactorWindow) < DayOf(c)
        BY DEF Backed
    <2>2. Backs(v, StartOf(c, source)', InForceAt(t + 1)' + Premium[source])
        BY <1>1, <1>3, <1>4, Zenon
    <2>3. QED BY <1>5, <2>1, <2>2 DEF Backed
<1>7. QED BY <1>6, TickFacts DEF BackedVotes

LEMMA VotedIsBacked ==
    ASSUME Base, NEW s \in SignalRecords, NEW t, s.created \in DOMAIN price, Filled(s, t), Voted(s, t)
    PROVE  VoteBacked(t, BackedVotes)
<1> SUFFICES ASSUME ~t.confirmed.none, t.confirmed.price # 0
             PROVE  \E source \in SourcesOf(t) : <<source, t.confirmed.price, t.created>> \in BackedVotes
    BY DEF VoteBacked
<1>1. PICK source \in SourcesOf(s), up \in SUBSET Sources :
          t.confirmed = Confirmation(t.analysis.action, followed, Served(source, up, 0, now), s.created, s.regime)
    BY DEF Voted, SourcesOf
<1>2. t.confirmed.price = PriceVote(Served(source, up, 0, now), s.created)
    <2> DEFINE vote == PriceVote(Served(source, up, 0, now), s.created)
    <2>1. \/ t.confirmed = Nothing
          \/ \E score : t.confirmed = [none |-> FALSE, price |-> vote, score |-> score]
        BY <1>1, Zenon DEF Confirmation
    <2> HIDE DEF vote
    <2>2. Nothing.none
        BY DEF Nothing
    <2>3. t.confirmed # Nothing
        BY <2>2, Zenon
    <2>4. PICK score : t.confirmed = [none |-> FALSE, price |-> vote, score |-> score]
        BY <2>1, <2>3
    <2>5. t.confirmed.price = [none |-> FALSE, price |-> vote, score |-> score].price
        BY <2>4, Zenon
    <2>6. t.confirmed.price = vote
        BY <2>5
    <2>7. QED BY <2>6 DEF vote
<1>3. source \in Sources
    BY DEF SourcesOf, SignalRecords, Sources
<1>4. source \in SourcesOf(t) /\ t.created = s.created
    BY DEF Filled, SourcesOf, NoSource
<1>5. <<source, t.confirmed.price, s.created>> \in BackedVotes
    BY <1>2, <1>3, BaseFacts, VoteIsBacked
<1>6. QED BY <1>4, <1>5

\* A vote that was backed is, when the signal is completed.
LEMMA VoteStaysBacked ==
    ASSUME NEW s, NEW t, NEW votes, Filled(s, t), t.confirmed = s.confirmed, VoteBacked(s, votes)
    PROVE  VoteBacked(t, votes)
<1>1. t.created = s.created /\ SourcesOf(s) \subseteq SourcesOf(t)
    BY DEF Filled, SourcesOf, NoSource
<1>2. QED BY <1>1 DEF VoteBacked

LEMMA BackedKept == UNCHANGED price => BackedVotes' = BackedVotes
BY DEF BackedVotes, Backed, Backs, DayIn, StartOf, InForceAt

LEMMA VotesStep ==
    ASSUME Base, VotesBacked, [EvaluationNext]_evaluationVars
    PROVE  VotesBacked'
<1>1. ASSUME Completes, UNCHANGED <<followed, now, price>> PROVE VotesBacked'
    <2>1. Ids' = Ids /\ BackedVotes' = BackedVotes
        BY <1>1, BackedKept DEF Completes, Ids
    <2>2. ASSUME NEW i \in Ids PROVE VoteBacked(signals'[i], BackedVotes)
        <3>1. Filled(signals[i], signals'[i]) /\ VoteBacked(signals[i], BackedVotes)
            BY <1>1 DEF Completes, VotesBacked
        <3>2. signals[i] \in SignalRecords /\ signals[i].created \in DOMAIN price
            BY BaseFacts
        <3>3. CASE signals'[i].confirmed = signals[i].confirmed
            BY <3>1, <3>3, VoteStaysBacked
        <3>4. CASE Voted(signals[i], signals'[i])
            BY <3>1, <3>2, <3>4, VotedIsBacked
        <3>5. QED BY <3>1, <3>3, <3>4 DEF Filled
    <2>3. QED BY <2>1, <2>2 DEF VotesBacked
<1>2. ASSUME UNCHANGED <<followed, now, price, signals>> PROVE VotesBacked'
    BY <1>1, <1>2, UnchangedCompletes
<1>3. CASE CycleRuns
    BY <1>2, <1>3, RunsKeep DEF Others, Stored
<1>4. ASSUME NEW k \in DOMAIN running, NEW a \in Analyses[followed], CycleCommits(k, a)
      PROVE  VotesBacked'
    <2>1. UNCHANGED <<followed, now, price>>
        BY <1>4, CommitData DEF Others
    <2>2. CASE UNCHANGED signals
        BY <1>2, <2>1, <2>2
    <2>3. CASE Raises(k)
        <3>0. PICK new : new = Len(signals) + 1
            OBVIOUS
        <3>1. /\ Ids' = Ids \cup {new} /\ BackedVotes' = BackedVotes
              /\ \A i \in Ids : signals'[i] = signals[i]
            BY <2>1, <2>3, <3>0, BaseFacts, BackedKept DEF Raises, Ids
        <3>2. PICK h : h \in Unseen(running[k].hits) /\ Filled(NewSignal(k, h), signals'[new])
            BY <2>3, <3>0 DEF Raises, Raised
        <3>3. VoteBacked(signals'[new], BackedVotes)
            <4> DEFINE s == NewSignal(k, h)
                       t == signals'[new]
            <4>1. s.confirmed = Unscored /\ s.created = now /\ s \in SignalRecords
                BY <1>4, <3>2, NewSignalType DEF NewSignal
            <4>2. Filled(s, t)
                BY <3>2
            <4> HIDE DEF s, t
            <4>3. CASE t.confirmed = Unscored
                BY <4>3 DEF VoteBacked, Unscored, t
            <4>4. CASE Voted(s, t)
                <5>1. now \in DOMAIN price
                    BY DEF Base, EvaluationTypeOK
                <5>2. QED BY <4>1, <4>2, <4>4, <5>1, VotedIsBacked DEF t
            <4>5. QED BY <4>1, <4>2, <4>3, <4>4 DEF Filled, t
        <3>4. QED BY <3>1, <3>3 DEF VotesBacked
    <2>4. QED BY <1>4, <2>2, <2>3, CommitRaises
<1>5. CASE Backfills
    BY <1>1, <1>5 DEF Backfills
<1>6. CASE UNCHANGED evaluationVars
    BY <1>2, <1>6 DEF evaluationVars
<1>7. ASSUME NEW p \in Prices, Tick(p) PROVE VotesBacked'
    <2>1. BackedVotes \subseteq BackedVotes' /\ UNCHANGED signals
        BY <1>7, BackedStays, TickFacts
    <2>2. QED BY <2>1 DEF VotesBacked, VoteBacked, Ids
<1>8. ASSUME NEW up \in UpSets[followed], Evaluate(up) PROVE VotesBacked'
    BY <1>2, <1>8 DEF Evaluate
<1>9. CASE ReadPage
    BY <1>2, <1>9 DEF ReadPage
<1>10. QED BY <1>3, <1>4, <1>5, <1>6, <1>7, <1>8, <1>9, StepKinds

\* Whenever the votes are cast, a vote of the price says that on the day of the signal
\* the price of its source, or of the fallback if it had none yet, had moved that way,
\* by the percentage, from the close of the day the window starts in.
THEOREM ConfirmedAlwaysOnEvidence == EvaluationSpec => []ConfirmedOnEvidence
<1>1. EvaluationInit => VotesBacked
    BY DEF EvaluationInit, VotesBacked, Ids
<1>2. VotesBacked => ConfirmedOnEvidence
    <2> SUFFICES ASSUME VotesBacked, NEW i \in Ids, ~signals[i].confirmed.none, signals[i].confirmed.price # 0
                 PROVE  \E source \in {signals[i].source, "binance"} \ {NoSource} :
                           LET start == InForceAt(OpenOf(DayOf(signals[i].created - FactorWindow) + 1)) + Premium[source]
                               during == {InForceAt(t + 1) + Premium[source] :
                                  t \in {signals[i].created} \cup
                                        {u \in DOMAIN price : DayOf(u) = DayOf(signals[i].created)}}
                           IN \E p \in during : /\ Sign(p - start) = signals[i].confirmed.price
                                                /\ 100 * Size(p - start) >= FactorPercent * start
        BY DEF ConfirmedOnEvidence
    <2>1. PICK source \in SourcesOf(signals[i]) :
              <<source, signals[i].confirmed.price, signals[i].created>> \in BackedVotes
        BY DEF VotesBacked, VoteBacked
    <2>2. Backed(source, signals[i].confirmed.price, signals[i].created)
        BY <2>1 DEF BackedVotes
    <2>3. PICK t \in {signals[i].created} \cup DayIn(signals[i].created) :
              Backs(signals[i].confirmed.price, StartOf(signals[i].created, source), InForceAt(t + 1) + Premium[source])
        BY <2>2 DEF Backed
    <2>4. source \in {signals[i].source, "binance"} \ {NoSource}
        BY <2>1 DEF SourcesOf
    <2> WITNESS source \in {signals[i].source, "binance"} \ {NoSource}
    <2>5. QED BY <2>3 DEF Backs, StartOf, DayIn
<1>3. QED BY BaseInvariant, VotesStep, <1>1, <1>2, PTL DEF EvaluationSpec

---------------------------------------------------------------------------
\* A flag of a scored signal is what the source quoted.  A bar that opens in the window
\* is of a day after the signal, or no earlier than it; and the window, in whole hours,
\* ends on the day the signal expires.
Touches(bar, level, above) == IF above THEN bar.high >= level ELSE bar.low <= level
TouchedOn(day) == {price[t] : t \in {u \in DOMAIN price : DayOf(u) = day}} \cup {InForceAt(OpenOf(day))}

LEMMA BarFacts ==
    ASSUME Priced, NEW up \in Nat, NEW day
    PROVE  /\ Bar(day, up).high \in Nat /\ Bar(day, up).low \in Nat
           /\ \A level \in Nat, above \in BOOLEAN :
                 Touches(Bar(day, up), level, above) <=> \E q \in TouchedOn(day) : Reached(level, above, q + up)
<1> DEFINE moments == {u \in DOMAIN price : DayOf(u) = day}
           quoted == {price[t] : t \in moments}
           touched == TouchedOn(day)
<1>1. touched = quoted \cup {InForceAt(OpenOf(day))}
    BY DEF TouchedOn
<1>2. Bar(day, up) = [high |-> Max(touched) + up, low |-> Min(touched) + up,
                      close |-> InForceAt(OpenOf(day + 1)) + up]
    BY DEF Bar, TouchedOn
<1>3. InForceAt(OpenOf(day)) \in Nat
    BY InForceFacts, Zenon
<1>4. touched \in SUBSET Nat /\ touched # {} /\ IsFiniteSet(touched)
    <2>1. moments \in SUBSET (DOMAIN price)
        OBVIOUS
    <2>2. IsFiniteSet(moments)
        BY <2>1, PastPrices
    <2>3. IsFiniteSet(quoted)
        <3> DEFINE f == [t \in moments |-> price[t]]
        <3>1. f \in Surjection(moments, quoted)
            BY DEF Surjection
        <3>2. QED BY <2>2, <3>1, FS_Surjection
    <2>4. quoted \subseteq Nat
        BY PricesAssumption DEF Priced
    <2> HIDE DEF quoted
    <2>5. IsFiniteSet(quoted \cup {InForceAt(OpenOf(day))})
        BY <2>3, FS_AddElement
    <2>6. QED BY <1>1, <1>3, <2>4, <2>5
<1> HIDE DEF touched
<1>5. /\ Max(touched) \in touched /\ \A q \in touched : q <= Max(touched)
      /\ Min(touched) \in touched /\ \A q \in touched : Min(touched) <= q
    <2>1. touched \in SUBSET Int
        BY <1>4
    <2>2. QED BY <1>4, <2>1, MaxOfSet, MinOfSet
<1>6. /\ Bar(day, up).high = Max(touched) + up /\ Bar(day, up).low = Min(touched) + up
      /\ Max(touched) \in Nat /\ Min(touched) \in Nat
    <2>1. Max(touched) \in Nat /\ Min(touched) \in Nat
        BY <1>4, <1>5
    <2>2. QED BY <1>2, <2>1
<1>7. ASSUME NEW level \in Nat, NEW above \in BOOLEAN
      PROVE  Touches(Bar(day, up), level, above) <=> \E q \in touched : Reached(level, above, q + up)
    <2>1. \A q \in touched : q \in Nat
        BY <1>4
    <2>2. CASE above
        BY <1>5, <1>6, <2>1, <2>2 DEF Touches, Reached
    <2>3. CASE ~above
        BY <1>5, <1>6, <2>1, <2>3 DEF Touches, Reached
    <2>4. QED BY <2>2, <2>3
<1>8. QED BY <1>6, <1>7 DEF touched

\* What the flags of an outcome say of the bars in the window.
FlagFits(flag, inside, level, above) ==
    /\ flag = "hit" => \E d \in DOMAIN inside : Touches(inside[d], level, above)
    /\ flag = "miss" => \A d \in DOMAIN inside : ~Touches(inside[d], level, above)

LEMMA MetricsFacts ==
    ASSUME NEW n \in Nat, NEW bars, DOMAIN bars \subseteq 1..n,
           \A d \in DOMAIN bars : bars[d].high \in Nat /\ bars[d].low \in Nat,
           NEW direction, NEW entry, NEW stop \in Nat, NEW target \in Nat, NEW t0, NEW window,
           ~Metrics(direction, entry, stop, target, t0, window, bars).none
    PROVE  LET m == Metrics(direction, entry, stop, target, t0, window, bars)
               inside == Fetched(bars, t0, t0 + window)
           IN /\ DOMAIN inside # {}
              /\ FlagFits(m.hitTarget, inside, target, direction = 1)
              /\ FlagFits(m.hitStop, inside, stop, direction # 1)
<1> DEFINE m == Metrics(direction, entry, stop, target, t0, window, bars)
           inside == Fetched(bars, t0, t0 + window)
           highs == {inside[d].high : d \in DOMAIN inside}
           lows == {inside[d].low : d \in DOMAIN inside}
           highest == Max(highs)
           lowest == Min(lows)
<1>1. /\ DOMAIN inside # {}
      /\ m.hitTarget = Flag(target, IF direction = 1 THEN highest >= target ELSE lowest <= target)
      /\ m.hitStop = Flag(stop, IF direction = 1 THEN lowest <= stop ELSE highest >= stop)
    <2>1. DOMAIN inside = {} => m = Nothing
        BY Zenon DEF Metrics
    <2>2. Nothing.none
        BY DEF Nothing
    <2>3. DOMAIN inside # {}
        BY <2>1, <2>2, Zenon
    <2>4. QED BY <2>3 DEF Metrics
<1> SUFFICES /\ FlagFits(m.hitTarget, inside, target, direction = 1)
             /\ FlagFits(m.hitStop, inside, stop, direction # 1)
    BY <1>1
<1>2. \A d \in DOMAIN inside : d \in 1..n /\ inside[d].high \in Nat /\ inside[d].low \in Nat
    BY DEF Fetched
<1> HIDE DEF inside, m
<1>3. /\ highs \in SUBSET Nat /\ highs # {} /\ IsFiniteSet(highs)
      /\ lows \in SUBSET Nat /\ lows # {} /\ IsFiniteSet(lows)
    <2>1. IsFiniteSet(DOMAIN inside)
        <3>1. 1 \in Int /\ n \in Int
            OBVIOUS
        <3>2. IsFiniteSet(1..n)
            BY <3>1, FS_Interval
        <3>3. DOMAIN inside \subseteq 1..n
            BY <1>2
        <3>4. QED BY <3>2, <3>3, FS_Subset
    <2>2. [d \in DOMAIN inside |-> inside[d].high] \in Surjection(DOMAIN inside, highs)
        BY DEF Surjection
    <2>3. [d \in DOMAIN inside |-> inside[d].low] \in Surjection(DOMAIN inside, lows)
        BY DEF Surjection
    <2>4. IsFiniteSet(highs) /\ IsFiniteSet(lows)
        BY <2>1, <2>2, <2>3, FS_Surjection
    <2>5. QED BY <1>1, <1>2, <2>4
<1>4. /\ highest \in highs /\ \A q \in highs : q \in Nat /\ q <= highest
      /\ lowest \in lows /\ \A q \in lows : q \in Nat /\ lowest <= q
    <2> HIDE DEF highs, lows
    <2>1. highs \in SUBSET Int
        BY <1>3
    <2>2. QED BY <1>3, <2>1, MaxOfSet, MinOfSet
<1> HIDE DEF highest, lowest
<1>5. ASSUME NEW level \in Nat, NEW above \in BOOLEAN
      PROVE  FlagFits(Flag(level, IF above THEN highest >= level ELSE lowest <= level), inside, level, above)
    <2>1. CASE above
        BY <1>2, <1>4, <2>1 DEF FlagFits, Flag, Touches
    <2>2. CASE ~above
        BY <1>2, <1>4, <2>2 DEF FlagFits, Flag, Touches
    <2>3. QED BY <2>1, <2>2
<1>6. FlagFits(m.hitTarget, inside, target, direction = 1)
    BY <1>1, <1>5
<1>7. FlagFits(m.hitStop, inside, stop, direction # 1)
    <2>1. m.hitStop = Flag(stop, IF direction # 1 THEN highest >= stop ELSE lowest <= stop)
        BY <1>1
    <2>2. QED BY <1>5, <2>1
<1>8. QED BY <1>6, <1>7

\* FlagIsReal, as a relation between the prices, a signal and its outcome.
QuotedIn(prices, source, from, to) ==
    {prices[t] + Premium[source] : t \in {u \in DOMAIN prices : from <= u /\ u <= to}}
RealFlag(prices, s, at, flag, level, above) ==
    /\ flag = "hit" =>
         \E p \in QuotedIn(prices, s.source, s.created, Min({at, OpenOf(DayOf(s.expires) + 1)})) : Reached(level, above, p)
    /\ flag = "miss" =>
         \A p \in QuotedIn(prices, s.source, OpenOf(DayOf(s.created) + 1), s.expires) : ~Reached(level, above, p)
RealRow(prices, s, o) ==
    /\ RealFlag(prices, s, o.at, o.hitTarget, s.analysis.target, o.direction = 1)
    /\ RealFlag(prices, s, o.at, o.hitStop, s.analysis.stop, o.direction # 1)

\* When a signal with an analysis expires.
Lengths == {12, 144, 336}
Expires(s) == \E t \in DOMAIN price, h \in Lengths : s.created <= t /\ s.expires = t + h

LEMMA WindowEnds ==
    ASSUME NEW created \in Nat, NEW t \in Moments, created <= t, NEW h \in Lengths,
           NEW expires, expires = t + h
    PROVE  /\ expires \in Nat /\ WindowOf(created, expires) \in Nat
           /\ expires <= created + WindowOf(created, expires)
           /\ DayOf(created + WindowOf(created, expires)) = DayOf(expires)
<1>1. PICK k \in Nat : t = OpenOf(k) + CronTime \/ t = OpenOf(k) + Afternoon
    BY MomentsFacts, DayArithmetic
<1>2. \E j \in Nat : \E r \in {9, 21, 30, 42} : expires = 48 * j + r
    <2>1. t = 48 * k + 9 \/ t = 48 * k + 30
        BY <1>1 DEF OpenOf, Hours, CronTime, Afternoon
    <2>2. CASE h = 12
        BY <2>1, <2>2
    <2>3. CASE h = 144
        <3>1. /\ k + 3 \in Nat
              /\ expires = 48 * (k + 3) + 9 \/ expires = 48 * (k + 3) + 30
            BY <2>1, <2>3
        <3> DEFINE j == k + 3
        <3>2. j \in Nat /\ \E r \in {9, 21, 30, 42} : expires = 48 * j + r
            BY <3>1
        <3>3. QED BY <3>2
    <2>4. CASE h = 336
        <3>1. /\ k + 7 \in Nat
              /\ expires = 48 * (k + 7) + 9 \/ expires = 48 * (k + 7) + 30
            BY <2>1, <2>4
        <3> DEFINE j == k + 7
        <3>2. j \in Nat /\ \E r \in {9, 21, 30, 42} : expires = 48 * j + r
            BY <3>1
        <3>3. QED BY <3>2
    <2>5. QED BY <2>2, <2>3, <2>4 DEF Lengths
<1>3. PICK j \in Nat : \E r \in {9, 21, 30, 42} : expires = 48 * j + r
    BY <1>2
<1>4. expires \in Nat /\ created <= expires
    BY <1>3, MomentsFacts DEF Lengths
<1>5. created + WindowOf(created, expires) \in {expires, expires + 1} /\ WindowOf(created, expires) \in Nat
    BY <1>4 DEF WindowOf, Hours
<1>6. DayOf(expires) = j /\ DayOf(expires + 1) = j
    BY <1>3 DEF DayOf, HalfHoursADay
<1>7. QED BY <1>4, <1>5, <1>6

\* What a bar of the window shows was quoted after the signal and before the last day
\* of the window ended.
LEMMA TouchIsQuoted ==
    ASSUME Priced, now \in Nat, NEW created \in DOMAIN price, NEW last \in Nat,
           NEW d \in 1..DayOf(now), created <= OpenOf(d), d <= last, NEW q \in TouchedOn(d)
    PROVE  \E t \in DOMAIN price : /\ q = price[t] /\ created <= t /\ t <= now /\ t < OpenOf(last + 1)
<1>1. \A t \in DOMAIN price : t \in Nat /\ t <= now /\ DayOf(t) \in Nat
    BY MomentsFacts, DayArithmetic DEF Priced
<1>2. /\ OpenOf(d) \in Nat /\ OpenOf(d + 1) \in Nat /\ OpenOf(last + 1) \in Nat
      /\ OpenOf(d) < OpenOf(d + 1) /\ OpenOf(d + 1) <= OpenOf(last + 1)
    BY DEF OpenOf, Hours
<1>3. CASE \E t \in DOMAIN price : DayOf(t) = d /\ q = price[t]
    <2>1. PICK t \in DOMAIN price : DayOf(t) = d /\ q = price[t]
        BY <1>3
    <2>2. t \in Nat /\ OpenOf(d) <= t /\ t < OpenOf(d + 1)
        BY <1>1, <2>1, DayArithmetic
    <2>3. created \in Nat /\ created <= t /\ t <= now /\ t < OpenOf(last + 1)
        BY <1>1, <1>2, <2>2
    <2>4. QED BY <2>1, <2>3
<1>4. CASE q = InForceAt(OpenOf(d))
    <2> DEFINE past == {t \in DOMAIN price : t < OpenOf(d)}
    <2>1. created \in past
        <3>1. created = OpenOf(DayOf(created)) + 9 \/ created = OpenOf(DayOf(created)) + 30
            BY MomentsFacts DEF Priced, CronTime, Afternoon
        <3>2. created # OpenOf(d)
            BY <1>1, <3>1 DEF OpenOf, Hours
        <3>3. QED BY <1>1, <1>2, <3>2
    <2>2. Max(past) \in past /\ (\A t \in past : t <= Max(past)) /\ q = price[Max(past)]
        BY <1>4, <2>1, InForceFacts, Zenon
    <2> DEFINE t == Max(past)
    <2>3. t \in DOMAIN price /\ t \in Nat /\ created <= t /\ t < OpenOf(d) /\ q = price[t]
        BY <1>1, <2>1, <2>2
    <2> HIDE DEF t
    <2>4. t <= now /\ t < OpenOf(last + 1)
        BY <1>1, <1>2, <2>3
    <2>5. QED BY <2>3, <2>4
<1>5. QED BY <1>3, <1>4 DEF TouchedOn

\* The bars an outcome is scored on.
ScoredOn(s, up) ==
    LET window == WindowOf(s.created, s.expires)
    IN Served(s.source, up, s.created - FetchPad, s.created + window + FetchPad)

LEMMA FlagIsQuoted ==
    ASSUME Base, NEW s \in SignalRecords, s.created \in DOMAIN price, Expires(s), s.expires <= now,
           s.source \in Sources, NEW up, s.source \in up,
           NEW flag, NEW level \in Nat, NEW above \in BOOLEAN,
           FlagFits(flag, Fetched(ScoredOn(s, up), s.created, s.created + WindowOf(s.created, s.expires)), level, above)
    PROVE  RealFlag(price, s, now, flag, level, above)
<1> DEFINE window == WindowOf(s.created, s.expires)
           bars == ScoredOn(s, up)
           inside == Fetched(bars, s.created, s.created + window)
           prem == Premium[s.source]
           lastDay == DayOf(s.expires)
<1>1. PICK t0 \in DOMAIN price, h \in Lengths : s.created <= t0 /\ s.expires = t0 + h
    BY DEF Expires
<1>2. /\ s.created \in Nat /\ s.created <= now /\ now \in Nat /\ t0 \in Moments /\ Priced
      /\ \A t \in DOMAIN price : t \in Nat /\ t <= now /\ DayOf(t) \in FirstDay..LastDay /\ DayOf(t) \in Nat
    BY BaseFacts, MomentsFacts, DayArithmetic DEF Priced
<1>3. /\ s.expires \in Nat /\ window \in Nat /\ s.expires <= s.created + window
      /\ DayOf(s.created + window) = lastDay
    BY <1>1, <1>2, WindowEnds
<1> HIDE DEF window
<1>4. /\ lastDay \in Nat /\ OpenOf(lastDay + 1) \in Nat /\ DayOf(now) \in Nat /\ prem \in Nat
      /\ \A d \in Int : OpenOf(d) <= s.created + window <=> d <= lastDay
    <2>1. lastDay \in Nat /\ DayOf(now) \in Nat
        BY <1>2, <1>3, DayArithmetic
    <2>2. s.created + window \in Nat
        BY <1>2, <1>3
    <2>3. \A d \in Int : OpenOf(d) <= s.created + window <=> d <= DayOf(s.created + window)
        BY <2>2, DayArithmetic, Zenon
    <2>4. QED BY <1>3, <2>1, <2>3, PremiumType DEF OpenOf, Hours
<1>5. \A d \in DOMAIN inside : /\ d \in 1..DayOf(now) /\ inside[d] = Bar(d, prem)
                               /\ s.created <= OpenOf(d) /\ d <= lastDay
    <2>1. \A d \in DOMAIN bars : d \in 1..DayOf(now) /\ bars[d] = Bar(d, prem)
        BY DEF ScoredOn, Served, Fetched, BarsOf
    <2>2. \A d \in DOMAIN inside : /\ d \in DOMAIN bars /\ inside[d] = bars[d]
                                   /\ s.created <= OpenOf(d) /\ OpenOf(d) <= s.created + window
        BY DEF Fetched
    <2> HIDE DEF inside, bars
    <2>3. QED BY <1>4, <2>1, <2>2
<1>6. \A d \in 1..DayOf(now) : s.created <= OpenOf(d) /\ OpenOf(d) <= s.created + window => d \in DOMAIN inside
    <2>1. \A d \in 1..DayOf(now) : OpenOf(d) \in Nat
        BY DEF OpenOf, Hours
    <2>2. \A d \in 1..DayOf(now) : s.created <= OpenOf(d) /\ OpenOf(d) <= s.created + window =>
              s.created - FetchPad <= OpenOf(d) /\ OpenOf(d) <= (s.created + window) + FetchPad
        BY <1>2, <1>3, <2>1 DEF FetchPad, Hours
    <2>3. s.created + window + FetchPad = (s.created + window) + FetchPad
        OBVIOUS
    <2>4. QED BY <2>2, <2>3 DEF ScoredOn, Served, Fetched, BarsOf, window
<1>7. \A d \in DOMAIN inside : Touches(inside[d], level, above) <=> \E q \in TouchedOn(d) : Reached(level, above, q + prem)
    BY <1>2, <1>4, <1>5, BarFacts
<1>8. FlagFits(flag, inside, level, above)
    BY DEF window
<1> HIDE DEF inside, prem, lastDay
<1>9. ASSUME flag = "hit"
      PROVE  \E p \in QuotedIn(price, s.source, s.created, Min({now, OpenOf(DayOf(s.expires) + 1)})) : Reached(level, above, p)
    <2>1. PICK d \in DOMAIN inside : \E q \in TouchedOn(d) : Reached(level, above, q + prem)
        BY <1>7, <1>8, <1>9 DEF FlagFits
    <2>2. PICK q \in TouchedOn(d) : Reached(level, above, q + prem)
        BY <2>1
    <2>3. PICK t \in DOMAIN price : /\ q = price[t] /\ s.created <= t /\ t <= now /\ t < OpenOf(lastDay + 1)
        BY <1>2, <1>4, <1>5, TouchIsQuoted
    <2>4. Min({now, OpenOf(lastDay + 1)}) \in {now, OpenOf(lastDay + 1)}
        <3>1. {now, OpenOf(lastDay + 1)} \in SUBSET Nat
            BY <1>2, <1>4
        <3>2. QED BY <3>1, MinOfSet
    <2>5. t <= Min({now, OpenOf(lastDay + 1)})
        BY <1>2, <1>4, <2>3, <2>4
    <2>6. price[t] + Premium[s.source] \in QuotedIn(price, s.source, s.created, Min({now, OpenOf(DayOf(s.expires) + 1)}))
        BY <2>3, <2>5 DEF QuotedIn, lastDay
    <2>7. QED BY <2>2, <2>3, <2>6 DEF prem
<1>10. ASSUME flag = "miss", NEW p \in QuotedIn(price, s.source, OpenOf(DayOf(s.created) + 1), s.expires)
       PROVE  ~Reached(level, above, p)
    <2>1. PICK t \in DOMAIN price : /\ OpenOf(DayOf(s.created) + 1) <= t /\ t <= s.expires
                                   /\ p = price[t] + prem
        BY DEF QuotedIn, prem
    <2> DEFINE d == DayOf(t)
    <2>2. /\ t \in Nat /\ t <= now /\ d \in Nat /\ OpenOf(d) <= t /\ d \in FirstDay..LastDay /\ d <= DayOf(now)
          /\ DayOf(s.created) \in Nat /\ s.created < OpenOf(DayOf(s.created) + 1)
          /\ \A e \in Int : OpenOf(e) <= t <=> e <= d
        BY <1>2, DayArithmetic, DayMonotone
    <2>3. d \in 1..DayOf(now)
        BY <1>4, <2>2, DaysAssumption
    <2> HIDE DEF d
    <2>4. DayOf(s.created) + 1 <= d
        BY <2>1, <2>2
    <2>5. s.created <= OpenOf(d) /\ OpenOf(d) <= s.created + window
        <3>1. OpenOf(DayOf(s.created) + 1) <= OpenOf(d) /\ OpenOf(d) \in Nat /\ OpenOf(DayOf(s.created) + 1) \in Nat
            BY <2>2, <2>4 DEF OpenOf, Hours
        <3>2. QED BY <1>2, <1>3, <2>1, <2>2, <3>1
    <2>6. d \in DOMAIN inside
        BY <1>6, <2>3, <2>5
    <2>7. \A q \in TouchedOn(d) : ~Reached(level, above, q + prem)
        BY <1>7, <1>8, <1>10, <2>6 DEF FlagFits
    <2>8. price[t] \in TouchedOn(d)
        BY DEF TouchedOn, d
    <2>9. QED BY <2>1, <2>7, <2>8
<1>11. QED BY <1>9, <1>10 DEF RealFlag

\* The row of a signal that is scored.
LEMMA ScoredRow ==
    ASSUME NEW s, NEW up, ~Evaluated(s, up).none
    PROVE  LET entry == IF s.analysis.entry # NoPrice THEN s.analysis.entry ELSE s.price
               direction == DirectionOf(s.analysis.action)
               metrics == Metrics(direction, entry, s.analysis.stop, s.analysis.target, s.created,
                                  WindowOf(s.created, s.expires), ScoredOn(s, up))
               o == Evaluated(s, up)
           IN /\ direction # 0 /\ ~(WindowOf(s.created, s.expires) < MinScorable) /\ ~metrics.none
              /\ o.at = now /\ o.direction = direction
              /\ o.hitTarget = metrics.hitTarget /\ o.hitStop = metrics.hitStop /\ o.atEnd = metrics.atEnd
              /\ o.confidence = s.analysis.confidence /\ o.type = followed /\ o.version = "v2"
<1> DEFINE entry == IF s.analysis.entry # NoPrice THEN s.analysis.entry ELSE s.price
           direction == DirectionOf(s.analysis.action)
           window == WindowOf(s.created, s.expires)
           metrics == Metrics(direction, entry, s.analysis.stop, s.analysis.target, s.created,
                              WindowOf(s.created, s.expires), ScoredOn(s, up))
           o == Evaluated(s, up)
           head == [asset |-> s.asset, type |-> followed, confidence |-> s.analysis.confidence, window |-> window,
                    direction |-> direction, at |-> now]
           tail == [version |-> "v2", entry |-> entry]
<1>1. o = IF direction = 0 \/ window < MinScorable \/ metrics.none THEN Nothing
          ELSE With(head, With(metrics, tail))
    BY DEF Evaluated, Outcome, ScoredOn
<1>2. ~o.none
    OBVIOUS
<1>3. metrics = Nothing \/ DOMAIN metrics = {"none", "after24", "after72", "atEnd", "favorable", "adverse", "hitTarget", "hitStop"}
    BY Zenon DEF Metrics
<1>4. /\ DOMAIN head = {"asset", "type", "confidence", "window", "direction", "at"}
      /\ head.at = now /\ head.direction = direction
      /\ head.confidence = s.analysis.confidence /\ head.type = followed
      /\ DOMAIN tail = {"version", "entry"} /\ tail.version = "v2"
    OBVIOUS
<1> HIDE DEF o, head, tail, metrics, window, direction
<1>5. Nothing.none
    BY DEF Nothing
<1>6. o # Nothing
    BY <1>2, <1>5, Zenon
<1>7. direction # 0 /\ ~(window < MinScorable) /\ ~metrics.none /\ o = With(head, With(metrics, tail))
    BY <1>1, <1>6, Zenon
<1>8. metrics # Nothing
    BY <1>5, <1>7, Zenon
<1>9. o.at = now /\ o.direction = direction /\ o.confidence = s.analysis.confidence /\ o.type = followed
    BY <1>4, <1>7 DEF With
<1>a. o.version = "v2"
    <2>1. "version" \notin DOMAIN head /\ "version" \notin DOMAIN metrics /\ "version" \in DOMAIN tail
        BY <1>3, <1>4, <1>8
    <2>2. With(metrics, tail).version = tail.version /\ "version" \in DOMAIN With(metrics, tail)
        BY <2>1 DEF With
    <2>3. With(head, With(metrics, tail)).version = With(metrics, tail).version
        BY <2>1, <2>2 DEF With
    <2>4. QED BY <1>4, <1>7, <2>2, <2>3
<1>10. \A x \in {"hitTarget", "hitStop", "atEnd"} : o[x] = metrics[x]
    <2>1. \A x \in {"hitTarget", "hitStop", "atEnd"} : x \in DOMAIN metrics /\ x \notin DOMAIN head
        BY <1>3, <1>4, <1>8
    <2>2. \A x \in {"hitTarget", "hitStop", "atEnd"} : With(metrics, tail)[x] = metrics[x] /\ x \in DOMAIN With(metrics, tail)
        BY <2>1 DEF With
    <2>3. \A x \in {"hitTarget", "hitStop", "atEnd"} : With(head, With(metrics, tail))[x] = With(metrics, tail)[x]
        BY <2>1, <2>2 DEF With
    <2>4. QED BY <1>7, <2>2, <2>3
<1>11. QED BY <1>7, <1>9, <1>10, <1>a DEF metrics, direction, window, o

LEMMA ScoredIsReal ==
    ASSUME Base, NEW s \in SignalRecords, s.created \in DOMAIN price, Expires(s), s.expires <= now,
           NEW up \in SUBSET Sources, ~Evaluated(s, up).none
    PROVE  /\ s.analysis \in Answers /\ Evaluated(s, up).at = now
           /\ RealRow(price, s, Evaluated(s, up))
<1> DEFINE entry == IF s.analysis.entry # NoPrice THEN s.analysis.entry ELSE s.price
           direction == DirectionOf(s.analysis.action)
           bars == ScoredOn(s, up)
           window == WindowOf(s.created, s.expires)
           metrics == Metrics(direction, entry, s.analysis.stop, s.analysis.target, s.created, window, bars)
           inside == Fetched(bars, s.created, s.created + window)
           o == Evaluated(s, up)
<1>1. /\ direction # 0 /\ ~metrics.none
      /\ o.at = now /\ o.direction = direction
      /\ o.hitTarget = metrics.hitTarget /\ o.hitStop = metrics.hitStop
    BY ScoredRow
<1>2. s.analysis \in Answers /\ s.analysis.stop \in Nat /\ s.analysis.target \in Nat
    <2>1. s.analysis \in Answers \cup {Undecided}
        BY DEF SignalRecords
    <2>2. s.analysis # Undecided
        <3>1. Undecided.action = "unanswered"
            BY DEF Undecided
        <3>2. DirectionOf("unanswered") = 0
            BY DEF DirectionOf
        <3>3. direction # 0
            BY <1>1
        <3>4. QED BY <3>1, <3>2, <3>3, Zenon
    <2>3. QED BY <2>1, <2>2 DEF Answers
<1>3. /\ DayOf(now) \in Nat /\ DOMAIN bars \subseteq 1..DayOf(now)
      /\ \A d \in DOMAIN bars : bars[d].high \in Nat /\ bars[d].low \in Nat
    <2>1. DayOf(now) \in Nat /\ Priced
        BY BaseFacts
    <2>2. s.source \notin up => DOMAIN bars = {}
        BY DEF ScoredOn, Served
    <2>3. s.source \in up => \A d \in DOMAIN bars : d \in 1..DayOf(now) /\ bars[d] = Bar(d, Premium[s.source])
        BY DEF ScoredOn, Served, Fetched, BarsOf
    <2>4. s.source \in up => \A d \in DOMAIN bars : bars[d].high \in Nat /\ bars[d].low \in Nat
        BY <2>1, <2>3, BarFacts, PremiumType
    <2> HIDE DEF bars
    <2>5. QED BY <2>1, <2>2, <2>3, <2>4
<1>4. /\ DOMAIN inside # {}
      /\ FlagFits(metrics.hitTarget, inside, s.analysis.target, direction = 1)
      /\ FlagFits(metrics.hitStop, inside, s.analysis.stop, direction # 1)
    <2> HIDE DEF bars, window, direction, entry
    <2>1. QED BY <1>1, <1>2, <1>3, MetricsFacts
<1>5. s.source \in up /\ s.source \in Sources
    BY <1>4 DEF Fetched, ScoredOn, Served
<1>6. RealFlag(price, s, now, metrics.hitTarget, s.analysis.target, direction = 1)
    <2> HIDE DEF metrics, direction
    <2>1. QED BY <1>2, <1>4, <1>5, FlagIsQuoted
<1>7. RealFlag(price, s, now, metrics.hitStop, s.analysis.stop, direction # 1)
    <2> HIDE DEF metrics, direction
    <2>1. QED BY <1>2, <1>4, <1>5, FlagIsQuoted
<1> HIDE DEF o, metrics, direction
<1>8. RealRow(price, s, o)
    BY <1>1, <1>6, <1>7 DEF RealRow
<1>9. QED BY <1>1, <1>2, <1>8 DEF o

\* The signal of a row stays as it was scored, and a later price is none of its window.
SignalsExpire == \A i \in Ids : signals[i].expires # 0 => Expires(signals[i])
Settled(s, o) == s.analysis \in Answers /\ s.price # NoPrice /\ o.at \in Nat /\ s.expires \in Nat /\ s.expires <= o.at
RowsReal == \A i \in DOMAIN outcomes : signals[i].asset # "MARKET" =>
                /\ Settled(signals[i], outcomes[i]) /\ outcomes[i].at <= now
                /\ RealRow(price, signals[i], outcomes[i])

LEMMA RealRowStays ==
    ASSUME Base, NEW p \in Prices, Tick(p), NEW s \in SignalRecords, NEW o, Settled(s, o), o.at <= now,
           s.created \in DOMAIN price, RealRow(price, s, o)
    PROVE  RealRow(price', s, o)
<1>1. /\ DOMAIN price \subseteq DOMAIN price' /\ \A t \in DOMAIN price : price'[t] = price[t]
      /\ \A t \in DOMAIN price' : t <= s.expires => t \in DOMAIN price
    BY TickFacts, BaseFacts DEF Settled
<1>2. ASSUME NEW flag, NEW level, NEW above, RealFlag(price, s, o.at, flag, level, above)
      PROVE  RealFlag(price', s, o.at, flag, level, above)
    <2>1. \A from, to : QuotedIn(price, s.source, from, to) \subseteq QuotedIn(price', s.source, from, to)
        BY <1>1 DEF QuotedIn
    <2>2. \A from : QuotedIn(price', s.source, from, s.expires) \subseteq QuotedIn(price, s.source, from, s.expires)
        BY <1>1 DEF QuotedIn
    <2>3. QED BY <1>2, <2>1, <2>2 DEF RealFlag
<1>3. QED BY <1>2 DEF RealRow

\* Completing a signal leaves what its row was made of.
LEMMA SettledStays ==
    ASSUME NEW s, NEW t, NEW o, Filled(s, t), Settled(s, o)
    PROVE  /\ t.asset = s.asset /\ Settled(t, o)
           /\ \A prices : RealRow(prices, s, o) => RealRow(prices, t, o)
<1>1. s.analysis # Undecided
    <2>1. s.analysis.action # "unanswered"
        BY DEF Settled, Answers
    <2>2. Undecided.action = "unanswered"
        BY DEF Undecided
    <2>3. QED BY <2>1, <2>2
<1>2. /\ t.asset = s.asset /\ t.created = s.created /\ t.analysis = s.analysis /\ t.expires = s.expires
      /\ t.price = s.price /\ t.source = s.source
    BY <1>1 DEF Filled, Settled
<1>3. QED BY <1>2 DEF Settled, RealRow, RealFlag

LEMMA ExpiresStays ==
    ASSUME Base, NEW s, NEW t, Filled(s, t), s.expires # 0 => Expires(s), s.created <= now, t.expires # 0
    PROVE  Expires(t)
<1>1. CASE t.expires = s.expires
    BY <1>1 DEF Expires, Filled
<1>2. CASE t.analysis \in Answers /\ t.expires = now + HorizonLength[t.analysis.horizon]
    <2>1. HorizonLength[t.analysis.horizon] \in Lengths
        <3>1. t.analysis.horizon \in {"scalp", "swing", "position"}
            BY <1>2 DEF Answers, HorizonLength
        <3>2. QED BY <3>1 DEF HorizonLength, Lengths, Hours
    <2>2. now \in DOMAIN price /\ t.created <= now
        BY BaseFacts DEF Priced, Filled
    <2>3. QED BY <1>2, <2>1, <2>2 DEF Expires
<1>3. QED BY <1>1, <1>2 DEF Filled

LEMMA RowsStep ==
    ASSUME Base, RowsReal, SignalsExpire, [EvaluationNext]_evaluationVars
    PROVE  RowsReal' /\ SignalsExpire'
<1>0. /\ \A i \in Ids : signals[i] \in SignalRecords /\ signals[i].created \in DOMAIN price /\ signals[i].created <= now
      /\ DOMAIN outcomes \subseteq Ids
    BY BaseFacts DEF Base, EvaluationTypeOK, Priced
<1>1. ASSUME Completes, UNCHANGED <<followed, now, price, outcomes>> PROVE RowsReal' /\ SignalsExpire'
    <2>1. Ids' = Ids
        BY <1>1 DEF Completes, Ids
    <2>2. \A i \in Ids : Filled(signals[i], signals'[i])
        BY <1>1 DEF Completes
    <2>3. \A i \in Ids : signals'[i].expires # 0 => Expires(signals'[i])
        BY <1>0, <2>2, ExpiresStays DEF SignalsExpire
    <2>4. ASSUME NEW i \in DOMAIN outcomes, signals'[i].asset # "MARKET"
          PROVE  Settled(signals'[i], outcomes[i]) /\ outcomes[i].at <= now
                 /\ RealRow(price, signals'[i], outcomes[i])
        <3>1. i \in Ids /\ signals[i].asset = signals'[i].asset
            BY <1>0, <2>2 DEF Filled
        <3>2. Settled(signals[i], outcomes[i]) /\ outcomes[i].at <= now /\ RealRow(price, signals[i], outcomes[i])
            BY <2>4, <3>1 DEF RowsReal
        <3>3. QED BY <2>2, <3>1, <3>2, SettledStays
    <2>5. RowsReal'
        BY <1>1, <2>4 DEF RowsReal
    <2>6. SignalsExpire'
        BY <1>1, <2>1, <2>3 DEF SignalsExpire, Expires
    <2>7. QED BY <2>5, <2>6
<1>2. ASSUME UNCHANGED <<followed, now, price, outcomes, signals>> PROVE RowsReal' /\ SignalsExpire'
    BY <1>1, <1>2, UnchangedCompletes
<1>3. CASE CycleRuns
    BY <1>2, <1>3, RunsKeep DEF Others, Stored
<1>4. ASSUME NEW k \in DOMAIN running, NEW a \in Analyses[followed], CycleCommits(k, a)
      PROVE  RowsReal' /\ SignalsExpire'
    <2>1. UNCHANGED <<followed, now, price, outcomes>>
        BY <1>4, CommitData DEF Others
    <2>2. CASE UNCHANGED signals
        BY <1>2, <2>1, <2>2
    <2>3. CASE Raises(k)
        <3>0. PICK new : new = Len(signals) + 1
            OBVIOUS
        <3>1. Ids' = Ids \cup {new} /\ \A i \in Ids : signals'[i] = signals[i]
            BY <2>3, <3>0, BaseFacts DEF Raises, Ids
        <3>2. RowsReal'
            BY <1>0, <2>1, <3>1 DEF RowsReal
        <3>3. PICK h : Filled(NewSignal(k, h), signals'[new])
            BY <2>3, <3>0 DEF Raises, Raised
        <3>4. signals'[new].expires # 0 => Expires(signals'[new])
            <4> DEFINE s == NewSignal(k, h)
            <4>1. s.expires = 0 /\ s.created = now
                BY DEF NewSignal
            <4>2. Filled(s, signals'[new]) /\ now <= now
                BY <3>3, BaseFacts
            <4> HIDE DEF s
            <4>3. QED BY <4>1, <4>2, ExpiresStays
        <3>5. SignalsExpire'
            BY <2>1, <3>1, <3>4 DEF SignalsExpire, Expires
        <3>6. QED BY <3>2, <3>5
    <2>4. QED BY <1>4, <2>2, <2>3, CommitRaises
<1>5. CASE Backfills
    BY <1>1, <1>5 DEF Backfills
<1>6. CASE UNCHANGED evaluationVars
    BY <1>2, <1>6 DEF evaluationVars
<1>7. ASSUME NEW p \in Prices, Tick(p) PROVE RowsReal' /\ SignalsExpire'
    <2>1. UNCHANGED <<signals, outcomes>> /\ now < now' /\ DOMAIN price \subseteq DOMAIN price' /\ now' \in Nat
        BY <1>7, TickFacts
    <2>2. ASSUME NEW i \in DOMAIN outcomes, signals[i].asset # "MARKET"
          PROVE  Settled(signals[i], outcomes[i]) /\ outcomes[i].at <= now' /\ RealRow(price', signals[i], outcomes[i])
        <3>1. Settled(signals[i], outcomes[i]) /\ outcomes[i].at <= now /\ RealRow(price, signals[i], outcomes[i])
            BY <2>2 DEF RowsReal
        <3>2. outcomes[i].at <= now'
            BY <2>1, <3>1, BaseFacts DEF Settled
        <3>3. QED BY <1>0, <1>7, <3>1, <3>2, RealRowStays
    <2>3. RowsReal'
        BY <2>1, <2>2 DEF RowsReal
    <2>4. SignalsExpire'
        BY <2>1 DEF SignalsExpire, Expires, Ids
    <2>5. QED BY <2>3, <2>4
<1>8. ASSUME NEW up \in UpSets[followed], Evaluate(up) PROVE RowsReal' /\ SignalsExpire'
    <2> DEFINE scored == {i \in Eligible : ~Score(signals[i], up).none}
               rows == [i \in scored |-> Score(signals[i], up)]
    <2>1. outcomes' = With(outcomes, rows) /\ UNCHANGED <<followed, now, price, signals>>
        BY <1>8 DEF Evaluate
    <2>2. \A i \in scored : rows[i] = Score(signals[i], up) /\ ~Score(signals[i], up).none
        OBVIOUS
    <2>3. \A i \in scored : i \in Ids /\ i \notin DOMAIN outcomes /\ signals[i].expires # 0 /\ signals[i].expires <= now
                            /\ (signals[i].asset # "MARKET" => signals[i].price # NoPrice)
        BY DEF Eligible
    <2>4. DOMAIN rows = scored
        OBVIOUS
    <2> HIDE DEF scored, rows
    <2>5. ASSUME NEW i \in scored, signals[i].asset # "MARKET"
          PROVE  Settled(signals[i], rows[i]) /\ rows[i].at <= now /\ RealRow(price, signals[i], rows[i])
        <3>1. rows[i] = Evaluated(signals[i], up) /\ ~Evaluated(signals[i], up).none
            BY <2>2, <2>5 DEF Score
        <3>2. up \in SUBSET Sources
            BY ChoicesAssumption DEF Base, EvaluationTypeOK
        <3>3. /\ signals[i] \in SignalRecords /\ signals[i].created \in DOMAIN price
              /\ Expires(signals[i]) /\ signals[i].expires <= now
            BY <1>0, <2>3 DEF SignalsExpire
        <3>4. signals[i].analysis \in Answers /\ rows[i].at = now /\ RealRow(price, signals[i], rows[i])
            BY <3>1, <3>2, <3>3, ScoredIsReal
        <3>5. signals[i].expires \in Nat /\ now \in Nat
            BY <3>3, BaseFacts DEF SignalRecords
        <3>6. QED BY <2>3, <2>5, <3>3, <3>4, <3>5 DEF Settled
    <2>6. ASSUME NEW i \in DOMAIN outcomes', signals[i].asset # "MARKET"
          PROVE  Settled(signals[i], outcomes'[i]) /\ outcomes'[i].at <= now /\ RealRow(price, signals[i], outcomes'[i])
        <3>1. CASE i \in DOMAIN outcomes
            <4>1. outcomes'[i] = outcomes[i]
                BY <2>1, <3>1 DEF With
            <4>2. QED BY <2>6, <3>1, <4>1 DEF RowsReal
        <3>2. CASE i \notin DOMAIN outcomes
            <4>1. i \in scored /\ outcomes'[i] = rows[i]
                BY <2>1, <2>4, <3>2 DEF With
            <4>2. QED BY <2>5, <2>6, <4>1
        <3>3. QED BY <3>1, <3>2
    <2>7. RowsReal'
        BY <2>1, <2>6 DEF RowsReal
    <2>8. SignalsExpire'
        BY <2>1 DEF SignalsExpire, Expires, Ids
    <2>9. QED BY <2>7, <2>8
<1>9. CASE ReadPage
    BY <1>2, <1>9 DEF ReadPage
<1>10. QED BY <1>3, <1>4, <1>5, <1>6, <1>7, <1>8, <1>9, StepKinds

\* Whatever is served and whenever the evaluator runs, the flags of an outcome are what
\* the source of its signal quoted in the signal's window.
THEOREM HitsAlwaysReal == EvaluationSpec => []HitsAreReal
<1>1. EvaluationInit => RowsReal /\ SignalsExpire
    BY DEF EvaluationInit, RowsReal, SignalsExpire, Ids
<1>2. RowsReal => HitsAreReal
    BY DEF RowsReal, RealRow, RealFlag, QuotedIn, HitsAreReal, FlagIsReal
<1>3. QED BY BaseInvariant, RowsStep, <1>1, <1>2, PTL DEF EvaluationSpec

---------------------------------------------------------------------------
\* The pages.  Each counts the rows of a part of signal_outcomes by a key, so its counts
\* add up to the rows of that part.
LEMMA HorizonsFinite == IsFiniteSet(Horizons) /\ \A w : HorizonOf(w) \in Horizons
<1>1. Horizons = (({"scalp"} \cup {"swing"}) \cup {"position"}) \cup {"legacy"}
    BY DEF Horizons
<1>2. IsFiniteSet((({"scalp"} \cup {"swing"}) \cup {"position"}) \cup {"legacy"})
    <2>1. IsFiniteSet({"scalp"} \cup {"swing"})
        BY FS_Singleton, FS_Union
    <2>2. IsFiniteSet(({"scalp"} \cup {"swing"}) \cup {"position"})
        BY <2>1, FS_Singleton, FS_Union
    <2>3. QED BY <2>2, FS_Singleton, FS_Union
<1>3. \A w : HorizonOf(w) \in Horizons
    BY Zenon DEF HorizonOf, Horizons
<1>4. QED BY <1>1, <1>2, <1>3

LEMMA DetectorsFinite == IsFiniteSet(Detectors)
<1>1. Detectors = (({"flow_anomaly"} \cup {"magnitude"}) \cup ({"acceleration"} \cup {"divergence"})) \cup {"regime_shift"}
    BY DEF Detectors
<1>2. IsFiniteSet({"flow_anomaly"} \cup {"magnitude"}) /\ IsFiniteSet({"acceleration"} \cup {"divergence"})
    BY FS_Singleton, FS_Union
<1>3. IsFiniteSet(({"flow_anomaly"} \cup {"magnitude"}) \cup ({"acceleration"} \cup {"divergence"}))
    BY <1>2, FS_Union
<1>4. QED BY <1>1, <1>3, FS_Singleton, FS_Union

\* The counts of one floor, by horizon.
LEMMA FloorParts ==
    ASSUME NEW S, IsFiniteSet(S), NEW rows, NEW f, DOMAIN f = Horizons,
           \A h \in Horizons : f[h] = Cardinality({s \in S : HorizonOf(rows[s].window) = h})
    PROVE  SumFunction(f) = Cardinality(S)
<1> DEFINE key == [s \in S |-> HorizonOf(rows[s].window)]
<1>1. \A s \in S : key[s] = HorizonOf(rows[s].window) /\ key[s] \in Horizons
    BY HorizonsFinite
<1>2. \A h \in Horizons : {s \in S : key[s] = h} = {s \in S : HorizonOf(rows[s].window) = h}
    BY <1>1
<1>3. \A h \in Horizons : f[h] = Cardinality({s \in S : key[s] = h})
    BY <1>2
<1> HIDE DEF key
<1>4. SumFunctionOnSet(f, Horizons) = Cardinality(S)
    BY <1>1, <1>3, HorizonsFinite, SumOfParts
<1>5. QED BY <1>4, Zenon DEF SumFunction

\* The counts of cells of another key and a horizon.
LEMMA CellParts ==
    ASSUME NEW S, IsFiniteSet(S), NEW rows, NEW A, IsFiniteSet(A), NEW part, \A s \in S : part[s] \in A,
           NEW f, NEW K, K = A \X Horizons, DOMAIN f = K,
           \A k \in K :
               f[k] = Cardinality({s \in S : part[s] = k[1] /\ HorizonOf(rows[s].window) = k[2]})
    PROVE  SumFunction(f) = Cardinality(S)
<1> DEFINE key == [s \in S |-> <<part[s], HorizonOf(rows[s].window)>>]
<1>1. \A s \in S : key[s] = <<part[s], HorizonOf(rows[s].window)>> /\ key[s] \in A \X Horizons
    BY HorizonsFinite
<1>2. ASSUME NEW k \in A \X Horizons
      PROVE  {s \in S : key[s] = k} = {s \in S : part[s] = k[1] /\ HorizonOf(rows[s].window) = k[2]}
    <2>1. k = <<k[1], k[2]>>
        OBVIOUS
    <2>2. \A s \in S : key[s] = k <=> part[s] = k[1] /\ HorizonOf(rows[s].window) = k[2]
        BY <1>1, <2>1
    <2>3. QED BY <2>2
<1>3. \A k \in A \X Horizons : f[k] = Cardinality({s \in S : key[s] = k})
    BY <1>2
<1>4. IsFiniteSet(A \X Horizons)
    BY HorizonsFinite, FS_Product
<1> HIDE DEF key
<1>5. SumFunctionOnSet(f, A \X Horizons) = Cardinality(S)
    BY <1>1, <1>3, <1>4, SumOfParts
<1>6. QED BY <1>5, Zenon DEF SumFunction

RowTyped(o) == o.confidence \in 1..10 /\ o.type \in Detectors
RowsTyped == \A i \in DOMAIN outcomes : RowTyped(outcomes[i]) /\ (Asset # "MARKET" => outcomes[i].version = "v2")

LEMMA FloorAddsUp ==
    ASSUME IsFiniteSet(DOMAIN outcomes), RowsTyped, NEW X \in SUBSET (DOMAIN outcomes), NEW c \in 1..10
    PROVE  LET S == {s \in X : outcomes[s].confidence >= c} IN
           /\ \A f : DOMAIN f = Horizons /\ (\A h \in Horizons :
                         f[h] = Cardinality({s \in X : /\ outcomes[s].confidence >= c
                                                       /\ HorizonOf(outcomes[s].window) = h}))
                     => SumFunction(f) = Cardinality(S)
           /\ \A f : DOMAIN f = (c..10) \X Horizons /\ (\A k \in (c..10) \X Horizons :
                         f[k] = Cardinality({s \in X : /\ outcomes[s].confidence = k[1]
                                                       /\ HorizonOf(outcomes[s].window) = k[2]}))
                     => SumFunction(f) = Cardinality(S)
<1> DEFINE S == {s \in X : outcomes[s].confidence >= c}
           A == c..10
           part == [s \in S |-> outcomes[s].confidence]
<1>1. S \subseteq DOMAIN outcomes /\ IsFiniteSet(S) /\ IsFiniteSet(A)
    <2>1. S \subseteq DOMAIN outcomes
        OBVIOUS
    <2>2. IsFiniteSet(A)
        BY FS_Interval
    <2> HIDE DEF S, A, part
    <2>3. IsFiniteSet(S)
        BY <2>1, FS_Subset
    <2>4. QED BY <2>1, <2>2, <2>3
<1>2. \A s \in S : part[s] \in A /\ part[s] = outcomes[s].confidence
    BY DEF RowsTyped, RowTyped
<1>3. ASSUME NEW f, DOMAIN f = Horizons, \A h \in Horizons :
                 f[h] = Cardinality({s \in X : outcomes[s].confidence >= c /\ HorizonOf(outcomes[s].window) = h})
      PROVE  SumFunction(f) = Cardinality(S)
    <2>1. \A h \in Horizons : {s \in X : outcomes[s].confidence >= c /\ HorizonOf(outcomes[s].window) = h}
                                  = {s \in S : HorizonOf(outcomes[s].window) = h}
        OBVIOUS
    <2>2. \A h \in Horizons : f[h] = Cardinality({s \in S : HorizonOf(outcomes[s].window) = h})
        BY <1>3, <2>1
    <2> HIDE DEF S
    <2>3. QED BY <1>1, <1>3, <2>2, FloorParts
<1>4. ASSUME NEW f, DOMAIN f = A \X Horizons, \A k \in A \X Horizons :
                 f[k] = Cardinality({s \in X : outcomes[s].confidence = k[1] /\ HorizonOf(outcomes[s].window) = k[2]})
      PROVE  SumFunction(f) = Cardinality(S)
    <2>1. ASSUME NEW k \in A \X Horizons
          PROVE  {s \in X : outcomes[s].confidence = k[1] /\ HorizonOf(outcomes[s].window) = k[2]}
                     = {s \in S : part[s] = k[1] /\ HorizonOf(outcomes[s].window) = k[2]}
        <3>1. k[1] \in Int /\ k[1] >= c
            OBVIOUS
        <3>2. \A s \in X : outcomes[s].confidence = k[1] => s \in S
            BY <3>1
        <3> HIDE DEF part
        <3>3. QED BY <1>2, <3>2
    <2>2. \A k \in A \X Horizons : f[k] = Cardinality({s \in S : part[s] = k[1] /\ HorizonOf(outcomes[s].window) = k[2]})
        BY <1>4, <2>1
    <2>3. \A s \in S : part[s] \in A
        BY <1>2
    <2> HIDE DEF S, A, part
    <2> DEFINE K == A \X Horizons
    <2>4. K = A \X Horizons /\ DOMAIN f = K
        BY <1>4
    <2>5. \A k \in K : f[k] = Cardinality({s \in S : part[s] = k[1] /\ HorizonOf(outcomes[s].window) = k[2]})
        BY <2>2
    <2> HIDE DEF K
    <2>6. IsFiniteSet(S) /\ IsFiniteSet(A)
        BY <1>1
    <2>7. QED BY <2>3, <2>4, <2>5, <2>6, CellParts, SMTT(60)
<1>5. QED BY <1>3, <1>4

LEMMA StatsAddUp ==
    ASSUME IsFiniteSet(DOMAIN outcomes), RowsTyped
    PROVE  StatsReconcile
<1> DEFINE D == DOMAIN outcomes
           All == Targeted(outcomes, D)
           Won == Hits(outcomes, D)
           floors == ByFloor(outcomes)
           cuts == ByFloorAndHorizon(outcomes)
           cells == Calibration(outcomes, 1)
           detectors == PerDetector(outcomes, Detectors)
           Cut(c) == [h \in Horizons |-> cuts[<<c, h>>]]
           Above(c) == [k \in {b \in DOMAIN cells : b[1] >= c} |-> cells[k]]
<1>1. All \in SUBSET D /\ Won \in SUBSET D
    BY DEF Targeted, Hits
<1>2. \A c \in 1..10 : /\ floors[c].targeted = Cardinality({s \in All : outcomes[s].confidence >= c})
                       /\ floors[c].hits = Cardinality({s \in Won : outcomes[s].confidence >= c})
    <2> SUFFICES ASSUME NEW c \in 1..10
                 PROVE  /\ floors[c].targeted = Cardinality({s \in All : outcomes[s].confidence >= c})
                        /\ floors[c].hits = Cardinality({s \in Won : outcomes[s].confidence >= c})
        OBVIOUS
    <2> DEFINE P == {s \in D : outcomes[s].confidence >= c}
    <2>1. floors[c] = Count(outcomes, P)
        BY DEF ByFloor
    <2>2. /\ Targeted(outcomes, P) = {s \in All : outcomes[s].confidence >= c}
          /\ Hits(outcomes, P) = {s \in Won : outcomes[s].confidence >= c}
        BY DEF Targeted, Hits
    <2> HIDE DEF P, floors
    <2>3. floors[c].targeted = Cardinality(Targeted(outcomes, P)) /\ floors[c].hits = Cardinality(Hits(outcomes, P))
        BY <2>1 DEF Count
    <2>4. QED BY <2>2, <2>3
<1>3. \A c \in 1..10, h \in Horizons :
          /\ cuts[<<c, h>>].targeted = Cardinality({s \in All : /\ outcomes[s].confidence >= c
                                                           /\ HorizonOf(outcomes[s].window) = h})
          /\ cuts[<<c, h>>].hits = Cardinality({s \in Won : /\ outcomes[s].confidence >= c
                                                       /\ HorizonOf(outcomes[s].window) = h})
    <2> SUFFICES ASSUME NEW c \in 1..10, NEW h \in Horizons
                 PROVE  /\ cuts[<<c, h>>].targeted = Cardinality({s \in All : /\ outcomes[s].confidence >= c
                                                           /\ HorizonOf(outcomes[s].window) = h})
                        /\ cuts[<<c, h>>].hits = Cardinality({s \in Won : /\ outcomes[s].confidence >= c
                                                       /\ HorizonOf(outcomes[s].window) = h})
        OBVIOUS
    <2> DEFINE P == {s \in D : outcomes[s].confidence >= c /\ HorizonOf(outcomes[s].window) = h}
    <2>1. cuts[<<c, h>>] = Count(outcomes, P)
        BY DEF ByFloorAndHorizon
    <2>2. /\ Targeted(outcomes, P) = {s \in All : /\ outcomes[s].confidence >= c
                                                  /\ HorizonOf(outcomes[s].window) = h}
          /\ Hits(outcomes, P) = {s \in Won : /\ outcomes[s].confidence >= c
                                              /\ HorizonOf(outcomes[s].window) = h}
        BY DEF Targeted, Hits
    <2> HIDE DEF P
    <2>3. cuts[<<c, h>>].targeted = Cardinality(Targeted(outcomes, P)) /\ cuts[<<c, h>>].hits = Cardinality(Hits(outcomes, P))
        BY <2>1 DEF Count
    <2>4. QED BY <2>2, <2>3
<1>4. /\ DOMAIN cells = (1..10) \X Horizons
      /\ \A k \in (1..10) \X Horizons :
          /\ cells[k].n = Cardinality({s \in All : /\ outcomes[s].confidence = k[1]
                                                   /\ HorizonOf(outcomes[s].window) = k[2]})
          /\ cells[k].wins = Cardinality({s \in Won : /\ outcomes[s].confidence = k[1]
                                                      /\ HorizonOf(outcomes[s].window) = k[2]})
    <2>1. {c \in 1..10 : (c - 1) % 1 = 0} = 1..10
        OBVIOUS
    <2>2. DOMAIN cells = (1..10) \X Horizons
        BY <2>1 DEF Calibration
    <2>3. ASSUME NEW b \in 1..10, NEW h \in Horizons
          PROVE  /\ cells[<<b, h>>].n = Cardinality({s \in All : /\ outcomes[s].confidence = b
                                                            /\ HorizonOf(outcomes[s].window) = h})
                 /\ cells[<<b, h>>].wins = Cardinality({s \in Won : /\ outcomes[s].confidence = b
                                                               /\ HorizonOf(outcomes[s].window) = h})
        <3> DEFINE P == {s \in D : outcomes[s].confidence \in b..(b + 1 - 1) /\ HorizonOf(outcomes[s].window) = h}
        <3>1. cells[<<b, h>>] = Cell(outcomes, P)
            BY <2>1 DEF Calibration
        <3>2. \A s \in D : outcomes[s].confidence \in b..(b + 1 - 1) <=> outcomes[s].confidence = b
            BY DEF RowsTyped, RowTyped
        <3>3. /\ Targeted(outcomes, P) = {s \in All : /\ outcomes[s].confidence = b
                                                      /\ HorizonOf(outcomes[s].window) = h}
              /\ Hits(outcomes, P) = {s \in Won : /\ outcomes[s].confidence = b
                                                  /\ HorizonOf(outcomes[s].window) = h}
            BY <3>2 DEF Targeted, Hits
        <3> HIDE DEF P
        <3>4. cells[<<b, h>>].n = Cardinality(Targeted(outcomes, P)) /\ cells[<<b, h>>].wins = Cardinality(Hits(outcomes, P))
            BY <3>1 DEF Cell
        <3>5. QED BY <3>3, <3>4
    <2>4. ASSUME NEW k \in (1..10) \X Horizons
          PROVE  /\ cells[k].n = Cardinality({s \in All : /\ outcomes[s].confidence = k[1]
                                                          /\ HorizonOf(outcomes[s].window) = k[2]})
                 /\ cells[k].wins = Cardinality({s \in Won : /\ outcomes[s].confidence = k[1]
                                                             /\ HorizonOf(outcomes[s].window) = k[2]})
        <3>1. k = <<k[1], k[2]>> /\ k[1] \in 1..10 /\ k[2] \in Horizons
            OBVIOUS
        <3> HIDE DEF cells
        <3>2. QED BY <2>3, <3>1
    <2> HIDE DEF cells
    <2>5. QED BY <2>2, <2>4
<1>5. \A k \in Detectors \X Horizons :
          detectors[k].wins + detectors[k].losses
              = Cardinality({s \in All : outcomes[s].type = k[1] /\ HorizonOf(outcomes[s].window) = k[2]})
    <2> SUFFICES ASSUME NEW t \in Detectors, NEW h \in Horizons
                 PROVE  detectors[<<t, h>>].wins + detectors[<<t, h>>].losses
                            = Cardinality({s \in All : outcomes[s].type = t /\ HorizonOf(outcomes[s].window) = h})
        <3> HIDE DEF detectors
        <3>1. QED OBVIOUS
    <2> DEFINE P == {s \in D : outcomes[s].type = t /\ HorizonOf(outcomes[s].window) = h}
    <2>1. detectors[<<t, h>>] = Cell(outcomes, P)
        BY DEF PerDetector
    <2>2. Targeted(outcomes, P) = {s \in All : outcomes[s].type = t /\ HorizonOf(outcomes[s].window) = h}
        BY DEF Targeted
    <2>3. Cardinality(Targeted(outcomes, P)) \in Nat /\ Cardinality(Hits(outcomes, P)) \in Nat
        <3>1. Targeted(outcomes, P) \subseteq D /\ Hits(outcomes, P) \subseteq D
            BY DEF Targeted, Hits
        <3>2. QED BY <3>1, FS_Subset, FS_CardinalityType
    <2> HIDE DEF P
    <2>4. detectors[<<t, h>>].wins + detectors[<<t, h>>].losses = Cardinality(Targeted(outcomes, P))
        <3>1. /\ detectors[<<t, h>>].wins = Cardinality(Hits(outcomes, P))
              /\ detectors[<<t, h>>].losses = Cardinality(Targeted(outcomes, P)) - Cardinality(Hits(outcomes, P))
            BY <2>1 DEF Cell
        <3> HIDE DEF detectors
        <3>2. QED BY <2>3, <3>1
    <2>5. QED BY <2>2, <2>4
<1>6. DOMAIN detectors = Detectors \X Horizons
    BY DEF PerDetector
<1> HIDE DEF floors, cuts, cells, detectors, All, Won
<1>7. ASSUME NEW c \in 1..10
      PROVE  /\ floors[c].targeted = Total(Cut(c), LAMBDA x : x.targeted)
             /\ floors[c].hits = Total(Cut(c), LAMBDA x : x.hits)
    <2> DEFINE f == [k \in DOMAIN Cut(c) |-> Cut(c)[k].targeted]
               g == [k \in DOMAIN Cut(c) |-> Cut(c)[k].hits]
    <2>1. Total(Cut(c), LAMBDA x : x.targeted) = SumFunction(f) /\ Total(Cut(c), LAMBDA x : x.hits) = SumFunction(g)
        BY DEF Total
    <2>2. /\ DOMAIN f = Horizons /\ \A h \in Horizons : f[h] = cuts[<<c, h>>].targeted
          /\ DOMAIN g = Horizons /\ \A h \in Horizons : g[h] = cuts[<<c, h>>].hits
        OBVIOUS
    <2> HIDE DEF f, g
    <2>3. SumFunction(f) = Cardinality({s \in All : outcomes[s].confidence >= c})
        <3>1. \A h \in Horizons : f[h] = Cardinality({s \in All : /\ outcomes[s].confidence >= c
                                                                /\ HorizonOf(outcomes[s].window) = h})
            BY <1>3, <2>2
        <3>2. QED BY <1>1, <2>2, <3>1, FloorAddsUp
    <2>4. SumFunction(g) = Cardinality({s \in Won : outcomes[s].confidence >= c})
        <3>1. \A h \in Horizons : g[h] = Cardinality({s \in Won : /\ outcomes[s].confidence >= c
                                                                /\ HorizonOf(outcomes[s].window) = h})
            BY <1>3, <2>2
        <3>2. QED BY <1>1, <2>2, <3>1, FloorAddsUp
    <2>5. QED BY <1>2, <2>1, <2>3, <2>4
<1>8. ASSUME NEW c \in 1..10
      PROVE  /\ floors[c].targeted = Total(Above(c), LAMBDA x : x.n)
             /\ floors[c].hits = Total(Above(c), LAMBDA x : x.wins)
    <2> DEFINE f == [k \in DOMAIN Above(c) |-> Above(c)[k].n]
               g == [k \in DOMAIN Above(c) |-> Above(c)[k].wins]
               K == (c..10) \X Horizons
    <2>1. Total(Above(c), LAMBDA x : x.n) = SumFunction(f) /\ Total(Above(c), LAMBDA x : x.wins) = SumFunction(g)
        BY DEF Total
    <2>2. {b \in DOMAIN cells : b[1] >= c} = K
        BY <1>4
    <2>3. /\ DOMAIN f = K /\ \A k \in K : f[k] = cells[k].n
          /\ DOMAIN g = K /\ \A k \in K : g[k] = cells[k].wins
          /\ K \subseteq (1..10) \X Horizons
        BY <2>2
    <2> HIDE DEF f, g
    <2>4. SumFunction(f) = Cardinality({s \in All : outcomes[s].confidence >= c})
        <3>1. \A k \in K : f[k] = Cardinality({s \in All : /\ outcomes[s].confidence = k[1]
                                                         /\ HorizonOf(outcomes[s].window) = k[2]})
            BY <1>4, <2>3
        <3>2. QED BY <1>1, <2>3, <3>1, FloorAddsUp
    <2>5. SumFunction(g) = Cardinality({s \in Won : outcomes[s].confidence >= c})
        <3>1. \A k \in K : g[k] = Cardinality({s \in Won : /\ outcomes[s].confidence = k[1]
                                                         /\ HorizonOf(outcomes[s].window) = k[2]})
            BY <1>4, <2>3
        <3>2. QED BY <1>1, <2>3, <3>1, FloorAddsUp
    <2>6. QED BY <1>2, <2>1, <2>4, <2>5
<1>9. floors[1].targeted = Total(detectors, LAMBDA x : x.wins + x.losses)
    <2> DEFINE f == [k \in DOMAIN detectors |-> detectors[k].wins + detectors[k].losses]
               part == [s \in All |-> outcomes[s].type]
    <2>1. Total(detectors, LAMBDA x : x.wins + x.losses) = SumFunction(f)
        BY DEF Total
    <2>2. DOMAIN f = Detectors \X Horizons /\ \A s \in All : part[s] = outcomes[s].type /\ part[s] \in Detectors
        BY <1>1, <1>6 DEF RowsTyped, RowTyped
    <2>3. \A k \in Detectors \X Horizons :
              f[k] = Cardinality({s \in All : part[s] = k[1] /\ HorizonOf(outcomes[s].window) = k[2]})
        <3>1. \A k \in Detectors \X Horizons :
                  {s \in All : part[s] = k[1] /\ HorizonOf(outcomes[s].window) = k[2]}
                      = {s \in All : outcomes[s].type = k[1] /\ HorizonOf(outcomes[s].window) = k[2]}
            BY <2>2
        <3>2. QED BY <1>5, <1>6, <3>1
    <2>4. IsFiniteSet(All)
        BY <1>1, FS_Subset
    <2>5. IsFiniteSet(Detectors)
        BY DetectorsFinite
    <2> HIDE DEF f, part
    <2>6. SumFunction(f) = Cardinality(All)
        <3>1. \A s \in All : part[s] \in Detectors
            BY <2>2
        <3> DEFINE K == Detectors \X Horizons
        <3>2. K = Detectors \X Horizons /\ DOMAIN f = K
            BY <2>2
        <3>3. \A k \in K : f[k] = Cardinality({s \in All : part[s] = k[1] /\ HorizonOf(outcomes[s].window) = k[2]})
            BY <2>3
        <3> HIDE DEF K
        <3>4. QED BY <2>4, <2>5, <3>1, <3>2, <3>3, CellParts
    <2>7. {s \in All : outcomes[s].confidence >= 1} = All
        BY <1>1 DEF RowsTyped, RowTyped
    <2>8. floors[1].targeted = Cardinality({s \in All : outcomes[s].confidence >= 1})
        BY <1>2
    <2>9. QED BY <2>1, <2>6, <2>7, <2>8
<1>10. QED BY <1>7, <1>8, <1>9 DEF StatsReconcile, floors, cuts, cells, detectors

\* What a page query counts, in all.
PageSum(q, k) == IF k = 5 THEN SumFunction([j \in DOMAIN q |-> q[j]]) ELSE SumFunction([j \in DOMAIN q |-> q[j].total])

LEMMA BreakdownAddsUp ==
    ASSUME NEW rows, IsFiniteSet(DOMAIN rows), NEW cat, NEW b,
           b = [k \in {cat[s] : s \in DOMAIN rows} |-> Count(rows, {s \in DOMAIN rows : cat[s] = k})]
    PROVE  SumFunction([k \in DOMAIN b |-> b[k].total]) = Cardinality(DOMAIN rows)
<1> DEFINE D == DOMAIN rows
           K == {cat[s] : s \in D}
           f == [k \in DOMAIN b |-> b[k].total]
<1>1. IsFiniteSet(K)
    <2> DEFINE g == [s \in D |-> cat[s]]
    <2>1. g \in Surjection(D, K)
        BY DEF Surjection
    <2>2. QED BY <2>1, FS_Surjection
<1>2. DOMAIN b = K /\ \A s \in D : cat[s] \in K
    OBVIOUS
<1>3. \A k \in K : b[k] = Count(rows, {s \in D : cat[s] = k})
    OBVIOUS
<1> HIDE DEF K
<1>4. DOMAIN f = K /\ \A k \in K : f[k] = Cardinality({s \in D : cat[s] = k})
    BY <1>2, <1>3 DEF Count
<1> HIDE DEF f
<1>5. SumFunctionOnSet(f, K) = Cardinality(D)
    BY <1>1, <1>2, <1>4, SumOfParts
<1>6. SumFunction(f) = Cardinality(D)
    BY <1>4, <1>5, Zenon DEF SumFunction
<1>7. QED BY <1>6 DEF f

LEMMA HistogramAddsUp ==
    ASSUME NEW rows, IsFiniteSet(DOMAIN rows)
    PROVE  SumFunction([k \in DOMAIN Histogram(rows) |-> Histogram(rows)[k]])
               = Cardinality({s \in DOMAIN rows : rows[s].version = "v2"})
<1> DEFINE S == {s \in DOMAIN rows : rows[s].version = "v2"}
           bucket == [s \in S |-> HistogramBucket(rows[s].favorable, rows[s].entry)]
           h == Histogram(rows)
           f == [k \in DOMAIN h |-> h[k]]
<1>1. \A s \in S : bucket[s] \in 1..6
    <2> SUFFICES ASSUME NEW s \in S PROVE HistogramBucket(rows[s].favorable, rows[s].entry) \in 1..6
        OBVIOUS
    <2> DEFINE near == {i \in 1..5 : rows[s].favorable * 1000 < Edges[i] * rows[s].entry} \cup {6}
    <2>1. near \in SUBSET Nat /\ near # {} /\ near \subseteq 1..6
        OBVIOUS
    <2>2. HistogramBucket(rows[s].favorable, rows[s].entry) = Min(near)
        BY DEF HistogramBucket
    <2> HIDE DEF near
    <2>3. QED BY <2>1, <2>2, MinOfSet
<1>2. \A k \in 1..6 : {s \in S : bucket[s] = k} =
          {s \in DOMAIN rows : rows[s].version = "v2" /\ HistogramBucket(rows[s].favorable, rows[s].entry) = k}
    OBVIOUS
<1>3. DOMAIN h = 1..6 /\ \A k \in 1..6 : h[k] = Cardinality({s \in DOMAIN rows :
          rows[s].version = "v2" /\ HistogramBucket(rows[s].favorable, rows[s].entry) = k})
    BY DEF Histogram
<1> HIDE DEF h
<1>4. DOMAIN f = 1..6 /\ \A k \in 1..6 : f[k] = Cardinality({s \in S : bucket[s] = k})
    BY <1>2, <1>3
<1>5. IsFiniteSet(S)
    <2>1. S \subseteq DOMAIN rows
        OBVIOUS
    <2> HIDE DEF S
    <2>2. QED BY <2>1, FS_Subset
<1> DEFINE K == 1..6
<1>6. IsFiniteSet(K)
    <2>1. 1 \in Int /\ 6 \in Int
        OBVIOUS
    <2>2. QED BY <2>1, FS_Interval
<1>7. (\A s \in S : bucket[s] \in K) /\ DOMAIN f = K /\ \A k \in K : f[k] = Cardinality({s \in S : bucket[s] = k})
    BY <1>1, <1>4
<1> HIDE DEF f, S, bucket, K
<1>8. SumFunctionOnSet(f, K) = Cardinality(S)
    BY <1>5, <1>6, <1>7, SumOfParts
<1>9. SumFunction(f) = Cardinality(S)
    BY <1>7, <1>8, Zenon DEF SumFunction
<1>10. QED BY <1>9 DEF f, S, h

LEMMA PageQueriesAddUp ==
    ASSUME IsFiniteSet(DOMAIN outcomes), RowsTyped, NEW k \in 1..5
    PROVE  /\ PageSum(PageQueries[k], k) \in Nat
           /\ PageSum(PageQueries[k], k) <= Cardinality(DOMAIN outcomes)
           /\ k # 5 \/ Asset # "MARKET" => PageSum(PageQueries[k], k) = Cardinality(DOMAIN outcomes)
<1> DEFINE D == DOMAIN outcomes
           q == PageQueries[k]
<1>0. Cardinality(D) \in Nat
    BY FS_CardinalityType
<1>1. ASSUME NEW cat, k # 5, q = [j \in {cat[s] : s \in D} |-> Count(outcomes, {s \in D : cat[s] = j})]
      PROVE  PageSum(q, k) = Cardinality(D)
    <2> HIDE DEF q
    <2>1. SumFunction([j \in DOMAIN q |-> q[j].total]) = Cardinality(D)
        BY <1>1, BreakdownAddsUp
    <2>2. QED BY <1>1, <2>1, Zenon DEF PageSum
<1>2. CASE k = 1
    <2> DEFINE cat == [s \in D |-> outcomes[s].type]
    <2>1. q = BySignalType(outcomes)
        BY <1>2 DEF PageQueries
    <2>2. BySignalType(outcomes) = [j \in {outcomes[s].type : s \in D} |-> Count(outcomes, {s \in D : outcomes[s].type = j})]
        BY DEF BySignalType, BreakdownBy
    <2>3. {outcomes[s].type : s \in D} = {cat[s] : s \in D} /\ \A j : {s \in D : outcomes[s].type = j} = {s \in D : cat[s] = j}
        OBVIOUS
    <2>4. q = [j \in {cat[s] : s \in D} |-> Count(outcomes, {s \in D : cat[s] = j})]
        BY <2>1, <2>2, <2>3
    <2> HIDE DEF q, cat
    <2>5. PageSum(q, k) = Cardinality(D)
        BY <1>1, <1>2, <2>4
    <2>6. QED BY <1>0, <1>2, <2>5 DEF q
<1>3. CASE k = 2
    <2> DEFINE cat == [s \in D |-> outcomes[s].asset]
    <2>1. q = ByAsset(outcomes)
        BY <1>3 DEF PageQueries
    <2>2. ByAsset(outcomes) = [j \in {outcomes[s].asset : s \in D} |->
              Count(outcomes, {s \in D : outcomes[s].asset = j})]
        BY DEF ByAsset, BreakdownBy
    <2>3. /\ {outcomes[s].asset : s \in D} = {cat[s] : s \in D}
          /\ \A j : {s \in D : outcomes[s].asset = j} = {s \in D : cat[s] = j}
        OBVIOUS
    <2>4. q = [j \in {cat[s] : s \in D} |-> Count(outcomes, {s \in D : cat[s] = j})]
        BY <2>1, <2>2, <2>3
    <2> HIDE DEF q, cat
    <2>5. PageSum(q, k) = Cardinality(D)
        BY <1>1, <1>3, <2>4
    <2>6. QED BY <1>0, <1>3, <2>5 DEF q
<1>4. CASE k = 3
    <2> DEFINE cat == [s \in D |-> ConfidenceBucket(outcomes[s].confidence)]
    <2>1. q = ByConfidence(outcomes)
        BY <1>4 DEF PageQueries
    <2>2. ByConfidence(outcomes) = [j \in {ConfidenceBucket(outcomes[s].confidence) : s \in D} |->
              Count(outcomes, {s \in D : ConfidenceBucket(outcomes[s].confidence) = j})]
        BY DEF ByConfidence, BreakdownBy
    <2>3. /\ {ConfidenceBucket(outcomes[s].confidence) : s \in D} = {cat[s] : s \in D}
          /\ \A j : {s \in D : ConfidenceBucket(outcomes[s].confidence) = j} = {s \in D : cat[s] = j}
        OBVIOUS
    <2>4. q = [j \in {cat[s] : s \in D} |-> Count(outcomes, {s \in D : cat[s] = j})]
        BY <2>1, <2>2, <2>3
    <2> HIDE DEF q, cat
    <2>5. PageSum(q, k) = Cardinality(D)
        BY <1>1, <1>4, <2>4
    <2>6. QED BY <1>0, <1>4, <2>5 DEF q
<1>5. CASE k = 4
    <2> DEFINE cat == [s \in D |-> outcomes[s].direction]
    <2>1. q = ByDirection(outcomes)
        BY <1>5 DEF PageQueries
    <2>2. ByDirection(outcomes) = [j \in {outcomes[s].direction : s \in D} |->
              Count(outcomes, {s \in D : outcomes[s].direction = j})]
        BY DEF ByDirection, BreakdownBy
    <2>3. /\ {outcomes[s].direction : s \in D} = {cat[s] : s \in D}
          /\ \A j : {s \in D : outcomes[s].direction = j} = {s \in D : cat[s] = j}
        OBVIOUS
    <2>4. q = [j \in {cat[s] : s \in D} |-> Count(outcomes, {s \in D : cat[s] = j})]
        BY <2>1, <2>2, <2>3
    <2> HIDE DEF q, cat
    <2>5. PageSum(q, k) = Cardinality(D)
        BY <1>1, <1>5, <2>4
    <2>6. QED BY <1>0, <1>5, <2>5 DEF q
<1>6. CASE k = 5
    <2> DEFINE V == {s \in D : outcomes[s].version = "v2"}
    <2>1. q = Histogram(outcomes)
        BY <1>6 DEF PageQueries
    <2>2. SumFunction([j \in DOMAIN Histogram(outcomes) |-> Histogram(outcomes)[j]]) = Cardinality(V)
        BY HistogramAddsUp
    <2>3. V \subseteq D /\ (Asset # "MARKET" => V = D)
        BY DEF RowsTyped
    <2> HIDE DEF q, V
    <2>4. PageSum(q, k) = Cardinality(V)
        BY <1>6, <2>1, <2>2, Zenon DEF PageSum
    <2>5. Cardinality(V) \in Nat /\ Cardinality(V) <= Cardinality(D)
        BY <2>3, FS_Subset, FS_CardinalityType
    <2>6. QED BY <1>6, <2>3, <2>4, <2>5 DEF q
<1>7. QED BY <1>2, <1>3, <1>4, <1>5, <1>6

\* The rows are of what the signal's analysis says, and those of a single asset are "v2".
LEMMA MarketRow ==
    ASSUME NEW s, NEW up, ~EvaluatedMarket(s, up).none
    PROVE  /\ DirectionOf(s.analysis.action) # 0
           /\ EvaluatedMarket(s, up).confidence = s.analysis.confidence
           /\ EvaluatedMarket(s, up).type = followed
<1>1. PICK flag : EvaluatedMarket(s, up) =
          IF DirectionOf(s.analysis.action) = 0 \/ WindowOf(s.created, s.expires) < MinScorable
             \/ "sosovalue" \notin up \/ flag = "none" THEN Nothing
          ELSE MarketOutcome(s, WindowOf(s.created, s.expires), flag)
    BY Zenon DEF EvaluatedMarket
<1>2. Nothing.none
    BY DEF Nothing
<1>3. EvaluatedMarket(s, up) # Nothing
    BY <1>2, Zenon
<1>4. /\ DirectionOf(s.analysis.action) # 0
      /\ EvaluatedMarket(s, up) = MarketOutcome(s, WindowOf(s.created, s.expires), flag)
    BY <1>1, <1>3, Zenon
<1> DEFINE m == MarketOutcome(s, WindowOf(s.created, s.expires), flag)
<1>5. m.confidence = s.analysis.confidence /\ m.type = followed
    BY DEF MarketOutcome, Outcome, With
<1> HIDE DEF m
<1>6. QED BY <1>4, <1>5 DEF m

LEMMA RowsTypedStep ==
    ASSUME Base, RowsTyped, [EvaluationNext]_evaluationVars
    PROVE  RowsTyped'
<1>1. ASSUME UNCHANGED <<followed, outcomes>> PROVE RowsTyped'
    BY <1>1 DEF RowsTyped, Asset
<1>2. ASSUME NEW up \in UpSets[followed], Evaluate(up) PROVE RowsTyped'
    <2> DEFINE scored == {i \in Eligible : ~Score(signals[i], up).none}
               rows == [i \in scored |-> Score(signals[i], up)]
    <2>1. outcomes' = With(outcomes, rows) /\ UNCHANGED followed
        BY <1>2 DEF Evaluate
    <2>2. ASSUME NEW i \in scored
          PROVE  RowTyped(rows[i]) /\ (Asset # "MARKET" => rows[i].version = "v2")
        <3> DEFINE s == signals[i]
                   o == rows[i]
        <3>1. i \in Ids /\ o = Score(s, up) /\ ~Score(s, up).none
            BY DEF Eligible
        <3>2. s \in SignalRecords /\ s.asset = Asset
            BY <3>1, BaseFacts DEF Base, EvaluationTypeOK
        <3> HIDE DEF s, o, scored, rows
        <3>3. /\ DirectionOf(s.analysis.action) # 0 /\ o.confidence = s.analysis.confidence /\ o.type = followed
              /\ s.asset # "MARKET" => o.version = "v2"
            BY <3>1, MarketRow, ScoredRow DEF Score
        <3>4. s.analysis # Undecided
            <4>1. Undecided.action = "unanswered"
                BY DEF Undecided
            <4>2. DirectionOf("unanswered") = 0
                BY DEF DirectionOf
            <4>3. QED BY <3>3, <4>1, <4>2, Zenon
        <3>5. s.analysis \in Answers
            BY <3>2, <3>4 DEF SignalRecords
        <3>6. o.confidence \in 1..10 /\ o.type \in Detectors
            BY <3>3, <3>5, BaseFacts DEF Answers
        <3>7. QED BY <3>2, <3>3, <3>6 DEF RowTyped, o
    <2>3. DOMAIN rows = scored
        OBVIOUS
    <2> HIDE DEF scored, rows
    <2>4. ASSUME NEW i \in DOMAIN outcomes'
          PROVE  RowTyped(outcomes'[i]) /\ (Asset # "MARKET" => outcomes'[i].version = "v2")
        <3>1. CASE i \in DOMAIN outcomes
            BY <2>1, <3>1 DEF With, RowsTyped
        <3>2. CASE i \notin DOMAIN outcomes
            <4>1. i \in scored /\ outcomes'[i] = rows[i]
                BY <2>1, <2>3, <3>2 DEF With
            <4>2. QED BY <2>2, <4>1
        <3>3. QED BY <3>1, <3>2
    <2>5. QED BY <2>1, <2>4 DEF RowsTyped, RowTyped, Asset
<1>3. CASE UNCHANGED evaluationVars
    BY <1>1, <1>3 DEF evaluationVars
<1>4. ASSUME NEW p \in Prices, Tick(p) PROVE RowsTyped'
    BY <1>1, <1>4 DEF Tick
<1>5. CASE CycleRuns
    BY <1>1, <1>5, RunsKeep DEF Others
<1>6. ASSUME NEW k \in DOMAIN running, NEW a \in Analyses[followed], CycleCommits(k, a)
      PROVE  RowsTyped'
    BY <1>1, <1>6, CommitData DEF Others
<1>7. CASE Backfills
    BY <1>1, <1>7 DEF Backfills
<1>8. CASE ReadPage
    BY <1>1, <1>8 DEF ReadPage
<1>9. QED BY <1>2, <1>3, <1>4, <1>5, <1>6, <1>7, <1>8, StepKinds

\* What was read before of the page counts no more than what is read after, nor than
\* there are outcomes: rows are only ever added between two of its queries.
PagesCount ==
    /\ DOMAIN page = 1..Len(page)
    /\ \A k \in DOMAIN page : /\ PageSum(page[k], k) \in Nat
                              /\ PageSum(page[k], k) <= Cardinality(DOMAIN outcomes)
    /\ \A j, k \in DOMAIN page :
          j < k /\ (k = 5 => Asset # "MARKET") => PageSum(page[j], j) <= PageSum(page[k], k)

LEMMA OutcomesFinite == Base => IsFiniteSet(DOMAIN outcomes) /\ IsFiniteSet(Ids)
<1> SUFFICES ASSUME Base PROVE IsFiniteSet(DOMAIN outcomes) /\ IsFiniteSet(Ids)
    OBVIOUS
<1>1. Ids = 1..Len(signals) /\ 1 \in Int /\ Len(signals) \in Int /\ DOMAIN outcomes \subseteq Ids
    BY BaseFacts DEF Base, EvaluationTypeOK
<1>2. IsFiniteSet(1..Len(signals))
    BY <1>1, FS_Interval
<1>3. QED BY <1>1, <1>2, FS_Subset

LEMMA PagesStep ==
    ASSUME Base, RowsTyped, PagesCount, [EvaluationNext]_evaluationVars, Base'
    PROVE  PagesCount'
<1>1. ASSUME UNCHANGED <<followed, outcomes, page>> PROVE PagesCount'
    BY <1>1 DEF PagesCount, Asset
<1>2. ASSUME NEW up \in UpSets[followed], Evaluate(up) PROVE PagesCount'
    <2>1. UNCHANGED <<followed, page>> /\ DOMAIN outcomes \subseteq DOMAIN outcomes'
        BY <1>2 DEF Evaluate, With
    <2>2. DOMAIN outcomes' \subseteq Ids'
        BY DEF Base, EvaluationTypeOK
    <2>3. IsFiniteSet(DOMAIN outcomes')
        <3>1. Ids' = Ids
            BY <1>2 DEF Evaluate, Ids
        <3>2. QED BY <2>2, <3>1, OutcomesFinite, FS_Subset
    <2>4. /\ Cardinality(DOMAIN outcomes) <= Cardinality(DOMAIN outcomes')
          /\ Cardinality(DOMAIN outcomes) \in Nat /\ Cardinality(DOMAIN outcomes') \in Nat
        <3>1. Cardinality(DOMAIN outcomes) \in Nat /\ Cardinality(DOMAIN outcomes') \in Nat
            BY <2>3, OutcomesFinite, FS_CardinalityType
        <3>2. QED BY <2>1, <2>3, <3>1, FS_Subset
    <2>5. QED BY <2>1, <2>4 DEF PagesCount, Asset
<1>3. CASE UNCHANGED evaluationVars
    BY <1>1, <1>3 DEF evaluationVars
<1>4. ASSUME NEW p \in Prices, Tick(p) PROVE PagesCount'
    BY <1>1, <1>4 DEF Tick
<1>5. CASE CycleRuns
    BY <1>1, <1>5, RunsKeep DEF Others
<1>6. ASSUME NEW k \in DOMAIN running, NEW a \in Analyses[followed], CycleCommits(k, a)
      PROVE  PagesCount'
    BY <1>1, <1>6, CommitData DEF Others
<1>7. CASE Backfills
    BY <1>1, <1>7 DEF Backfills
<1>8. CASE ReadPage
    <2> DEFINE m == Len(page) + 1
               n == Cardinality(DOMAIN outcomes)
    <2>1. Len(page) \in Nat /\ m \in 1..5 /\ UNCHANGED <<followed, outcomes>>
        <3>1. Len(PageQueries) = 5
            BY DEF PageQueries
        <3>2. QED BY <1>8, <3>1 DEF ReadPage, Base, EvaluationTypeOK
    <2>2. page' = Append(page, PageQueries[m])
        BY <1>8 DEF ReadPage
    <2>3. /\ Len(page') = m /\ DOMAIN page' = 1..m /\ page'[m] = PageQueries[m]
          /\ \A k \in DOMAIN page : page'[k] = page[k] /\ k \in 1..m /\ k # m
          /\ \A k \in 1..m : k # m => k \in DOMAIN page
        <3> HIDE DEF m
        <3>1. QED BY <2>1, <2>2 DEF PagesCount, m
    <2>4. /\ PageSum(PageQueries[m], m) \in Nat /\ PageSum(PageQueries[m], m) <= n
          /\ m # 5 \/ Asset # "MARKET" => PageSum(PageQueries[m], m) = n
        BY <2>1, OutcomesFinite, PageQueriesAddUp
    <2> HIDE DEF m
    <2>5. n \in Nat
        BY OutcomesFinite, FS_CardinalityType
    <2>6. \A k \in DOMAIN page' : PageSum(page'[k], k) \in Nat /\ PageSum(page'[k], k) <= n
        BY <2>3, <2>4 DEF PagesCount
    <2>7. ASSUME NEW j \in DOMAIN page', NEW k \in DOMAIN page', j < k, k = 5 => Asset # "MARKET"
          PROVE  PageSum(page'[j], j) <= PageSum(page'[k], k)
        <3>1. CASE k = m
            <4>1. PageSum(page'[k], k) = n
                BY <2>3, <2>4, <2>7, <3>1
            <4>2. QED BY <2>6, <4>1
        <3>2. CASE k # m
            <4>1. j # m /\ j \in DOMAIN page /\ k \in DOMAIN page
                BY <2>1, <2>3, <2>7, <3>2 DEF m
            <4>2. QED BY <2>3, <2>7, <4>1 DEF PagesCount
        <3>3. QED BY <3>1, <3>2
    <2>8. QED BY <2>1, <2>3, <2>6, <2>7 DEF PagesCount, Asset
<1>9. QED BY <1>2, <1>3, <1>4, <1>5, <1>6, <1>7, <1>8, StepKinds

LEMMA PagesReconcile == Base /\ RowsTyped /\ PagesCount => ReportsReconcile
<1> SUFFICES ASSUME Base, RowsTyped, PagesCount PROVE ReportsReconcile
    OBVIOUS
<1>1. StatsReconcile
    BY OutcomesFinite, StatsAddUp
<1>2. \A k \in DOMAIN page : PageTotal(k) = PageSum(page[k], k)
    BY DEF PageTotal, PageSum, Total
<1>3. QED BY <1>1, <1>2 DEF ReportsReconcile, PagesCount

\* Whenever they are read, the stats, their cut by horizon, the calibration and the
\* per-detector cells agree, and no part of the analytics page loses an outcome that an
\* earlier part had counted.
THEOREM ReportsAlwaysReconcile == EvaluationSpec => []ReportsReconcile
<1>1. EvaluationInit => RowsTyped /\ PagesCount
    BY DEF EvaluationInit, RowsTyped, PagesCount
<1>2. QED BY BaseInvariant, RowsTypedStep, PagesStep, PagesReconcile, <1>1, PTL DEF EvaluationSpec
---------------------------------------------------------------------------
\* The backtest.  A detector that reads flows alone sees the same rows on the day
\* it runs and when the day is replayed, unless one came in between.
FlowDetectorNames == {"flow_anomaly", "acceleration"}
OnFlows(detector, rows, asOf) ==
    IF detector = "flow_anomaly" THEN FlowAnomaly(rows, asOf) ELSE Acceleration(rows, asOf)
KnownBy(cycle) == [d \in {e \in DOMAIN flows : arrived[e] <= cycle} |-> flows[d]]

LEMMA FlowAnomalySame ==
    ASSUME NEW n \in Nat, NEW f, NEW g, DOMAIN f \subseteq 0..n, NEW a, NEW b,
           Latest(g, b, FlowLookback) = Latest(f, a, FlowLookback),
           \A d \in Latest(f, a, FlowLookback) : g[d] = f[d]
    PROVE  FlowAnomaly(g, b) = FlowAnomaly(f, a)
<1> DEFINE days == Latest(f, a, FlowLookback)
           nonzero(h, S) == {d \in S : h[d] # 0}
           streak(h, N, m) == {d \in N \ {m} : \A e \in N \ {m} : e >= d => Sign(h[e]) = -Sign(h[m])}
           hit(h, N, m) == IF N = {} \/ Cardinality(streak(h, N, m)) < MinStreak THEN NoHit
                           ELSE Hit(m, <<Cardinality(streak(h, N, m)), -Sign(h[m])>>)
           N == nonzero(f, days)
<1>1. /\ FlowAnomaly(f, a) = hit(f, N, Max(N))
      /\ FlowAnomaly(g, b) = hit(g, nonzero(g, days), Max(nonzero(g, days)))
    BY DEF FlowAnomaly
<1>2. nonzero(g, days) = N
    OBVIOUS
<1>3. N # {} => Max(N) \in N
    <2>1. N \in SUBSET (DOMAIN f)
        BY LatestIsFinite
    <2> HIDE DEF N
    <2>2. QED BY <2>1, LatestIsFinite
<1>4. \A d \in N : g[d] = f[d]
    OBVIOUS
<1> HIDE DEF N, days
<1>5. ASSUME NEW m \in N PROVE hit(g, N, m) = hit(f, N, m)
    <2>1. streak(g, N, m) = streak(f, N, m)
        BY <1>4
    <2> HIDE DEF streak
    <2>2. g[m] = f[m]
        BY <1>4
    <2>3. QED BY <2>1, <2>2
<1>6. N = {} => hit(g, N, Max(N)) = hit(f, N, Max(N))
    OBVIOUS
<1> HIDE DEF hit, nonzero
<1>7. hit(g, N, Max(N)) = hit(f, N, Max(N))
    BY <1>3, <1>5, <1>6
<1>8. QED BY <1>1, <1>2, <1>7, Zenon

LEMMA AccelerationSame ==
    ASSUME NEW n \in Nat, NEW f, NEW g, DOMAIN f \subseteq 0..n, NEW a, NEW b,
           Latest(g, b, 3 * AccWindow) = Latest(f, a, 3 * AccWindow),
           \A d \in Latest(f, a, 3 * AccWindow) : g[d] = f[d] /\ f[d] \in Int
    PROVE  Acceleration(g, b) = Acceleration(f, a)
<1> DEFINE days == Latest(f, a, 3 * AccWindow)
           Window(k) == {d \in days : Cardinality({e \in days : e < d}) \div AccWindow = k}
           Slope(S(_), k) == S(k) - S(k - 1)
           hit(S(_)) == IF \/ Cardinality(days) < 3 * AccWindow
                           \/ Size(Slope(S, 1)) < MinSlope
                           \/ 100 * Size(Slope(S, 2) - Slope(S, 1)) < AccPercent * Size(Slope(S, 1)) THEN NoHit
                        ELSE Hit(Max(days), IF Slope(S, 2) - Slope(S, 1) > 0 THEN 1 ELSE -1)
           F(k) == SumOn(f, Window(k))
           G(k) == SumOn(g, Window(k))
<1>1. \A k \in {0, 1, 2} : G(k) = F(k)
    <2> SUFFICES ASSUME NEW k \in {0, 1, 2} PROVE G(k) = F(k)
        OBVIOUS
    <2> DEFINE W == Window(k)
    <2>1. \A d \in W : f[d] \in Int /\ g[d] = f[d]
        OBVIOUS
    <2>2. IsFiniteSet(W)
        <3>1. W \in SUBSET (DOMAIN f)
            BY LatestIsFinite
        <3> HIDE DEF W
        <3>2. QED BY <3>1, LatestIsFinite
    <2> HIDE DEF W
    <2>3. SumOn(g, W) = SumOn(f, W)
        BY <2>1, <2>2, SumAgree DEF SumOn
    <2>4. QED BY <2>3 DEF W
<1>2. Acceleration(f, a) = hit(F) /\ Acceleration(g, b) = hit(G)
    BY Zenon DEF Acceleration
<1> HIDE DEF F, G, days
<1>3. hit(G) = hit(F)
    BY <1>1
<1> HIDE DEF hit
<1>4. QED BY <1>2, <1>3

\* No two signals are of one hit, a row is inserted after its day has ended, and what a
\* cycle found that overlapped no other is in the rows stored by the end of it.
HitOf(s) == [date |-> s.date, mark |-> s.mark]
Key(s) == <<s.date, s.mark>>
Alone(k) == \A pair \in beside : k \notin pair
RowsLate == \A d \in DOMAIN flows : d < FirstDay \/ (arrived[d] \in DOMAIN cycles /\ d < DayOf(cycles[arrived[d]]))
Distinct == \A i, j \in Ids : i # j => Key(signals[i]) # Key(signals[j])
HitSeen(s) == \A c : c = s.cycle /\ Alone(c) => HitOf(s) \in OnFlows(followed, KnownBy(c), DayOf(s.created))
FoundSeen(k) == running[k].detected /\ Alone(k) => running[k].hits \subseteq OnFlows(followed, Visible(k), DayOf(now))
Detected ==
    /\ RowsLate
    /\ Distinct
    /\ followed \in FlowDetectorNames => /\ \A i \in Ids : HitSeen(signals[i])
                                         /\ \A k \in DOMAIN running : FoundSeen(k)

\* The part on the signals stays when no cycle ends.
LEMMA DetectedKept ==
    ASSUME Base, Detected, Completes, UNCHANGED <<followed, flows, arrived>>, beside \subseteq beside',
           DOMAIN cycles \subseteq DOMAIN cycles', \A c \in DOMAIN cycles : cycles'[c] = cycles[c],
           followed \in FlowDetectorNames => \A k \in DOMAIN running' : FoundSeen(k)'
    PROVE  Detected'
<1>1. Ids' = Ids
    BY DEF Completes, Ids
<1>2. \A i \in Ids : Filled(signals[i], signals'[i])
    BY DEF Completes
<1>3. RowsLate'
    BY DEF Detected, RowsLate
<1>4. Distinct'
    BY <1>1, <1>2 DEF Detected, Distinct, Key, Filled
<1>5. ASSUME followed \in FlowDetectorNames, NEW i \in Ids PROVE HitSeen(signals[i])'
    <2>1. /\ signals'[i].cycle = signals[i].cycle /\ signals'[i].created = signals[i].created
          /\ HitOf(signals'[i]) = HitOf(signals[i])
        BY <1>2 DEF Filled, HitOf
    <2>2. \A c : KnownBy(c)' = KnownBy(c) /\ (Alone(c)' => Alone(c))
        BY DEF KnownBy, Alone
    <2>3. HitSeen(signals[i])
        BY <1>5 DEF Detected
    <2>4. QED BY <2>1, <2>2, <2>3 DEF HitSeen
<1>6. QED BY <1>1, <1>3, <1>4, <1>5 DEF Detected

LEMMA DetectedRuns == ASSUME Base, Detected, CycleRuns PROVE Detected'
<1>1. UNCHANGED <<followed, now, flows, arrived, signals>> /\ Completes
    BY RunsKeep, UnchangedCompletes DEF Others, Stored
<1>2. ASSUME NEW rows \in Sendable, NEW velocity \in Velocities[followed], NEW up \in UpSets[followed],
             CycleOpens(rows, velocity, up)
      PROVE  Detected'
    <2> DEFINE new == Len(cycles) + 1
    <2>1. /\ DOMAIN running' = DOMAIN running \cup {new} /\ ~running'[new].detected
          /\ \A j \in DOMAIN running : j # new /\ running'[j] = running[j]
          /\ DOMAIN cycles' = DOMAIN cycles \cup {new}
          /\ \A c \in DOMAIN cycles : cycles'[c] = cycles[c]
          /\ beside \subseteq beside'
        BY <1>2, OpensFacts
    <2> HIDE DEF new
    <2>2. ASSUME followed \in FlowDetectorNames, NEW k \in DOMAIN running' PROVE FoundSeen(k)'
        <3>1. CASE k = new
            BY <2>1, <3>1 DEF FoundSeen
        <3>2. CASE k \in DOMAIN running
            <4>1. FoundSeen(k) /\ running'[k] = running[k]
                BY <2>1, <2>2, <3>2 DEF Detected
            <4>2. Visible(k)' = Visible(k) /\ (Alone(k)' => Alone(k))
                BY <1>1, <2>1, <4>1 DEF Visible, With, Alone
            <4>3. QED BY <1>1, <4>1, <4>2 DEF FoundSeen
        <3>3. QED BY <2>1, <3>1, <3>2
    <2>3. QED BY <1>1, <2>1, <2>2, DetectedKept
<1>3. ASSUME NEW k \in DOMAIN running, CycleDetects(k) PROVE Detected'
    <2>1. /\ DOMAIN running' = DOMAIN running /\ UNCHANGED <<cycles, beside>>
          /\ \A j \in DOMAIN running \ {k} : running'[j] = running[j]
          /\ running'[k].hits \subseteq Found(k) /\ running'[k].rows = running[k].rows
        BY <1>3, DetectsFacts
    <2>2. ASSUME followed \in FlowDetectorNames, NEW j \in DOMAIN running' PROVE FoundSeen(j)'
        <3>1. Visible(j)' = Visible(j) /\ (Alone(j)' => Alone(j))
            <4>1. running'[j].rows = running[j].rows
                BY <2>1
            <4>2. QED BY <1>1, <2>1, <4>1 DEF Visible, With, Alone
        <3>2. CASE j = k
            <4>1. Found(k) = OnFlows(followed, Visible(k), DayOf(now))
                BY <2>2 DEF Found, Detect, OnFlows, FlowDetectorNames
            <4>2. running'[j].hits \subseteq OnFlows(followed, Visible(j), DayOf(now))
                BY <2>1, <3>2, <4>1
            <4>3. QED BY <1>1, <3>1, <4>2 DEF FoundSeen
        <3>3. CASE j # k
            <4>1. FoundSeen(j) /\ running'[j] = running[j]
                BY <2>1, <2>2, <3>3 DEF Detected
            <4>2. QED BY <1>1, <3>1, <4>1 DEF FoundSeen
        <3>4. QED BY <3>2, <3>3
    <2>3. QED BY <1>1, <2>1, <2>2, DetectedKept
<1>4. ASSUME NEW k \in DOMAIN running, CycleFails(k) PROVE Detected'
    <2>1. /\ DOMAIN running' = DOMAIN running \ {k} /\ UNCHANGED <<cycles, beside>>
          /\ \A j \in DOMAIN running \ {k} : running'[j] = running[j]
        BY <1>4, FailsFacts
    <2>2. ASSUME followed \in FlowDetectorNames, NEW j \in DOMAIN running' PROVE FoundSeen(j)'
        <3>1. FoundSeen(j) /\ running'[j] = running[j]
            BY <2>1, <2>2 DEF Detected
        <3>2. Visible(j)' = Visible(j) /\ (Alone(j)' => Alone(j))
            BY <1>1, <2>1, <3>1 DEF Visible, With, Alone
        <3>3. QED BY <1>1, <3>1, <3>2 DEF FoundSeen
    <2>3. QED BY <1>1, <2>1, <2>2, DetectedKept
<1>5. QED BY <1>2, <1>3, <1>4 DEF CycleRuns

\* A cycle that was alone, and any that began before the one that commits, knows no more
\* rows after the commit; the one that commits, if it was alone, knows all there are.
LEMMA CommitKnown ==
    ASSUME Base, NEW k \in DOMAIN running, NEW a \in Analyses[followed], CycleCommits(k, a)
    PROVE  /\ \A c \in DOMAIN cycles : c \notin DOMAIN running /\ Alone(c) => KnownBy(c)' = KnownBy(c)
           /\ Alone(k) => KnownBy(k)' = Visible(k)
<1>1. /\ flows' = Visible(k) /\ DOMAIN flows \subseteq DOMAIN flows'
      /\ \A d \in DOMAIN flows : flows'[d] = flows[d]
      /\ \A d \in DOMAIN flows' : arrived'[d] = IF d \in DOMAIN flows THEN arrived[d] ELSE k
      /\ flows' = [d \in DOMAIN flows' |-> flows'[d]]
    <2>1. /\ DOMAIN flows \subseteq DOMAIN Visible(k) /\ \A d \in DOMAIN flows : Visible(k)[d] = flows[d]
          /\ Visible(k) \in [DOMAIN Visible(k) -> Int]
        BY SeenFacts
    <2>2. /\ flows' = Visible(k)
          /\ \A d \in DOMAIN flows' : arrived'[d] = IF d \in DOMAIN flows THEN arrived[d] ELSE k
        BY CommitData
    <2>3. QED BY <2>1, <2>2
<1>2. /\ \A d \in DOMAIN flows : arrived[d] \in Nat /\ (arrived[d] > 0 => arrived[d] \in DOMAIN cycles)
      /\ k \in Nat /\ k > 0
    BY SeenFacts, BaseFacts DEF Base, EvaluationTypeOK
<1>3. \A c \in DOMAIN cycles : c > k => {k, c} \in beside
    BY DEF Base, Timed
<1>4. ASSUME NEW c \in DOMAIN cycles, c \notin DOMAIN running, Alone(c)
      PROVE  KnownBy(c)' = KnownBy(c)
    <2>0. \A j : {k, j} \in beside => j # c
        BY <1>4 DEF Alone
    <2>1. c \in Nat /\ c # k /\ ~(c > k)
        <3>1. c \in Nat
            BY <1>4, BaseFacts
        <3>2. QED BY <1>3, <1>4, <2>0, <3>1
    <2>2. {e \in DOMAIN flows' : arrived'[e] <= c} = {e \in DOMAIN flows : arrived[e] <= c}
        BY <1>1, <1>2, <2>1
    <2>3. QED BY <1>1, <2>2 DEF KnownBy
<1>5. ASSUME Alone(k) PROVE KnownBy(k)' = Visible(k)
    <2>0. \A j : {k, j} \notin beside
        BY <1>5 DEF Alone
    <2>1. \A d \in DOMAIN flows : ~(arrived[d] > k)
        <3>1. \A c \in DOMAIN cycles : ~(c > k)
            BY <1>3, <2>0
        <3>2. \A d \in DOMAIN flows : arrived[d] > k => arrived[d] > 0
            BY <1>2
        <3>3. QED BY <1>2, <3>1, <3>2
    <2>2. {e \in DOMAIN flows' : arrived'[e] <= k} = DOMAIN flows'
        BY <1>1, <1>2, <2>1
    <2>3. QED BY <1>1, <2>2 DEF KnownBy
<1>6. QED BY <1>4, <1>5

LEMMA DetectedCommit ==
    ASSUME Base, Detected, NEW k \in DOMAIN running, NEW a \in Analyses[followed], CycleCommits(k, a)
    PROVE  Detected'
<1>1. /\ UNCHANGED <<followed, now, cycles, beside>> /\ running[k].detected
      /\ DOMAIN running' = DOMAIN running \ {k} /\ flows' = Visible(k)
      /\ \A d \in DOMAIN flows' : arrived'[d] = IF d \in DOMAIN flows THEN arrived[d] ELSE k
    BY CommitData DEF Others
<1>2. /\ k \in DOMAIN cycles /\ cycles[k] = now /\ DOMAIN flows' \subseteq 0..(DayOf(now) - 1)
      /\ DayOf(now) \in Nat
    <2>1. k \in DOMAIN cycles /\ cycles[k] = now /\ DOMAIN Visible(k) \subseteq 0..(DayOf(now) - 1)
        BY SeenFacts
    <2>2. DayOf(now) \in Nat
        BY BaseFacts
    <2>3. QED BY <1>1, <2>1, <2>2
<1>3. RowsLate'
    BY <1>1, <1>2 DEF Detected, RowsLate
<1>4. \A j : Alone(j)' <=> Alone(j)
    BY <1>1 DEF Alone
<1>5. ASSUME followed \in FlowDetectorNames, NEW j \in DOMAIN running' PROVE FoundSeen(j)'
    <2>1. j \in DOMAIN running /\ j # k
        BY <1>1, <1>5
    <2>2. {j, k} \in beside
        BY <2>1, OpenBeside
    <2>3. ~Alone(j)'
        BY <1>4, <2>2 DEF Alone
    <2>4. QED BY <2>3 DEF FoundSeen
<1>6. ASSUME followed \in FlowDetectorNames, NEW i \in Ids, signals'[i] = signals[i] PROVE HitSeen(signals[i])'
    <2>1. signals[i].cycle \in DOMAIN cycles /\ signals[i].cycle \notin DOMAIN running
        BY DEF Base, EvaluationTypeOK, Timed
    <2>2. \A c \in DOMAIN cycles : c \notin DOMAIN running /\ Alone(c) => KnownBy(c)' = KnownBy(c)
        BY CommitKnown
    <2>3. HitSeen(signals[i])
        BY <1>6 DEF Detected
    <2>4. QED BY <1>1, <1>4, <1>6, <2>1, <2>2, <2>3 DEF HitSeen
<1>7. CASE UNCHANGED signals
    <2>1. Ids' = Ids /\ Distinct'
        BY <1>7 DEF Ids, Detected, Distinct
    <2>2. QED BY <1>1, <1>3, <1>5, <1>6, <1>7, <2>1 DEF Detected
<1>8. CASE Raises(k)
    <2>0. PICK new : new = Len(signals) + 1
        OBVIOUS
    <2>1. /\ Ids' = Ids \cup {new} /\ new \notin Ids
          /\ \A i \in Ids : signals'[i] = signals[i]
        BY <1>8, <2>0, BaseFacts DEF Raises, Ids
    <2>2. PICK h : h \in Unseen(running[k].hits) /\ Filled(NewSignal(k, h), signals'[new])
        BY <1>8, <2>0 DEF Raises, Raised
    <2>3. /\ signals'[new].date = h.date /\ signals'[new].mark = h.mark
          /\ signals'[new].created = now /\ signals'[new].cycle = k
        BY <2>2 DEF Filled, NewSignal
    <2>4. \A i \in Ids : Key(signals[i]) # <<h.date, h.mark>>
        BY <2>2 DEF Unseen, Key
    <2>5. Distinct'
        BY <2>1, <2>3, <2>4 DEF Detected, Distinct, Key
    <2>6. ASSUME followed \in FlowDetectorNames PROVE HitSeen(signals[new])'
        <3> SUFFICES ASSUME Alone(k)
                     PROVE  HitOf(signals'[new]) \in OnFlows(followed, KnownBy(k)', DayOf(now))
            BY <1>1, <1>4, <2>3 DEF HitSeen
        <3>1. KnownBy(k)' = Visible(k)
            BY CommitKnown
        <3>2. h \in OnFlows(followed, Visible(k), DayOf(now))
            BY <1>1, <2>2, <2>6 DEF Detected, FoundSeen, Unseen
        <3>3. h = [date |-> h.date, mark |-> h.mark]
            <4>1. \E d, m : h = [date |-> d, mark |-> m]
                BY <3>2 DEF OnFlows, FlowAnomaly, Acceleration, Hit, NoHit
            <4>2. QED BY <4>1
        <3>4. HitOf(signals'[new]) = h
            BY <2>3, <3>3 DEF HitOf
        <3>5. QED BY <3>1, <3>2, <3>4, Zenon
    <2>7. QED BY <1>1, <1>3, <1>5, <1>6, <2>1, <2>5, <2>6 DEF Detected
<1>9. QED BY <1>7, <1>8, CommitRaises

LEMMA DetectedStep ==
    ASSUME Base, Detected, [EvaluationNext]_evaluationVars
    PROVE  Detected'
<1>1. ASSUME Completes, UNCHANGED <<followed, now, dataVars>> PROVE Detected'
    <2>1. ASSUME followed \in FlowDetectorNames, NEW k \in DOMAIN running' PROVE FoundSeen(k)'
        <3>1. FoundSeen(k) /\ Visible(k)' = Visible(k) /\ (Alone(k)' <=> Alone(k)) /\ running'[k] = running[k]
            BY <1>1, <2>1 DEF Detected, dataVars, cycleVars, Visible, With, Alone
        <3>2. QED BY <1>1, <3>1 DEF FoundSeen
    <2>2. QED BY <1>1, <2>1, DetectedKept DEF dataVars, cycleVars
<1>2. ASSUME UNCHANGED <<followed, now, dataVars, signals>> PROVE Detected'
    BY <1>1, <1>2, UnchangedCompletes
<1>3. ASSUME NEW k \in DOMAIN running, NEW a \in Analyses[followed], CycleCommits(k, a)
      PROVE  Detected'
    BY <1>3, DetectedCommit
<1>4. CASE Backfills
    BY <1>1, <1>4 DEF Backfills
<1>5. CASE UNCHANGED evaluationVars
    BY <1>2, <1>5 DEF evaluationVars
<1>6. ASSUME NEW p \in Prices, Tick(p) PROVE Detected'
    <2>1. UNCHANGED <<followed, signals, flows, arrived, cycles, beside, running>> /\ DOMAIN running = {}
        BY <1>6, TickFacts DEF dataVars, cycleVars
    <2>2. QED BY <2>1, UnchangedCompletes, DetectedKept
<1>7. ASSUME NEW up \in UpSets[followed], Evaluate(up) PROVE Detected'
    BY <1>2, <1>7 DEF Evaluate
<1>8. CASE ReadPage
    BY <1>2, <1>8 DEF ReadPage
<1>9. QED BY <1>3, <1>4, <1>5, <1>6, <1>7, <1>8, DetectedRuns, StepKinds

LEMMA InitDetected == EvaluationInit => Detected
<1> SUFFICES ASSUME EvaluationInit PROVE Detected
    OBVIOUS
<1>1. flows = History /\ Ids = {} /\ DOMAIN running = {}
    BY DEF EvaluationInit, Ids
<1>2. \A d \in DOMAIN History : d < FirstDay
    BY DaysAssumption
<1>3. QED BY <1>1, <1>2 DEF Detected, RowsLate, Distinct

\* A hit that was raised on time is one the replay of its day walks onto.
LEMMA HitIsReplayed ==
    ASSUME Base, Detected, NEW i \in Ids, OnTime(i)
    PROVE  HitOf(signals[i]) \in HitsOn(signals[i].date)
<1> DEFINE s == signals[i]
           day == s.date
           known == KnownBy(s.cycle)
<1>1. /\ s \in SignalRecords /\ day \in Nat /\ s.created \in Nat /\ DayOf(now) \in Nat
      /\ DOMAIN flows \subseteq 0..(DayOf(now) - 1) /\ flows \in [DOMAIN flows -> Int]
      /\ \A d \in DOMAIN flows : arrived[d] \in Nat
      /\ s.cycle \in DOMAIN cycles /\ s.created = cycles[s.cycle]
    <2>1. s \in SignalRecords /\ day \in Nat /\ s.created \in Nat /\ DayOf(now) \in Nat
        BY BaseFacts DEF SignalRecords
    <2>2. /\ DOMAIN flows \subseteq 0..(DayOf(now) - 1) /\ flows \in [DOMAIN flows -> Int]
          /\ s.cycle \in DOMAIN cycles /\ s.created = cycles[s.cycle]
        BY DEF Base, EvaluationTypeOK
    <2>3. \A d \in DOMAIN flows : arrived[d] \in Nat
        BY DEF Base, EvaluationTypeOK
    <2>4. QED BY <2>1, <2>2, <2>3
<1>2. /\ followed \in FlowDetectorNames /\ s.created = CronOf(day + 1)
      /\ \A d \in DOMAIN flows : d <= day => arrived[d] <= s.cycle
      /\ Alone(s.cycle)
    BY DEF OnTime, FlowDetectorNames, Alone
<1> HIDE DEF s, day
<1>3. DayOf(s.created) = day + 1
    BY <1>1, <1>2 DEF CronOf, OpenOf, Hours, CronTime, DayOf, HalfHoursADay
<1>4. \A d \in DOMAIN flows : arrived[d] <= s.cycle <=> d <= day
    <2> SUFFICES ASSUME NEW d \in DOMAIN flows, arrived[d] <= s.cycle PROVE d <= day
        BY <1>2
    <2>1. d \in Nat /\ FirstDay \in Nat /\ FirstDay <= day + 1
        <3>1. DayOf(s.created) >= FirstDay
            BY <1>1, BaseFacts, MomentsFacts DEF Priced
        <3>2. QED BY <1>1, <1>3, <3>1, DaysAssumption
    <2>2. CASE d < FirstDay
        BY <1>1, <2>1, <2>2
    <2>3. CASE arrived[d] \in DOMAIN cycles /\ d < DayOf(cycles[arrived[d]])
        <3>1. cycles[arrived[d]] <= s.created /\ cycles[arrived[d]] \in Nat
            BY <1>1, <2>3, BaseFacts DEF Base, Timed
        <3>2. DayOf(cycles[arrived[d]]) <= day + 1 /\ DayOf(cycles[arrived[d]]) \in Nat
            BY <1>1, <1>3, <3>1, DayMonotone, DayArithmetic
        <3>3. QED BY <1>1, <2>1, <2>3, <3>2
    <2>4. QED BY <2>2, <2>3 DEF Detected, RowsLate
<1>5. /\ DOMAIN known = {d \in DOMAIN flows : d <= day}
      /\ \A d \in DOMAIN known : known[d] = flows[d] /\ flows[d] \in Int
    BY <1>1, <1>4 DEF KnownBy
<1> HIDE DEF known
<1>6. {d \in DOMAIN known : d <= day + 1} = {d \in DOMAIN flows : d <= day}
    BY <1>1, <1>5
<1>7. \A n : Latest(known, day + 1, n) = Latest(flows, day, n)
    BY <1>6 DEF Latest
<1>8. \A n : \A d \in Latest(flows, day, n) : known[d] = flows[d] /\ flows[d] \in Int
    BY <1>5 DEF Latest
<1>9. OnFlows(followed, known, day + 1) = OnFlows(followed, flows, day)
    <2>1. DayOf(now) - 1 \in Nat
        <3>1. DayOf(now) >= FirstDay /\ FirstDay \in Nat \ {0}
            BY BaseFacts, DaysAssumption
        <3>2. QED BY <1>1, <3>1
    <2>2. FlowAnomaly(known, day + 1) = FlowAnomaly(flows, day)
        BY <1>1, <1>7, <1>8, <2>1, FlowAnomalySame
    <2>3. Acceleration(known, day + 1) = Acceleration(flows, day)
        BY <1>1, <1>7, <1>8, <2>1, AccelerationSame
    <2>4. QED BY <2>2, <2>3 DEF OnFlows
<1>10. HitOf(s) \in OnFlows(followed, known, day + 1)
    BY <1>2, <1>3 DEF Detected, HitSeen, s, known
<1>11. HitsOn(day) = OnFlows(followed, flows, day)
    BY <1>2 DEF HitsOn, Detect, OnFlows, FlowDetectorNames
<1>12. QED BY <1>9, <1>10, <1>11 DEF s, day

\* The bars of the primary source up to a day.  Once the day has ended they stay.
DaysTo(last) == [d \in 1..last |-> Bar(d, 0)]

LEMMA BarsArePrimary == BarsOf("sosovalue") = DaysTo(DayOf(now))
BY PricesAssumption DEF BarsOf, DaysTo

LEMMA BarsStay ==
    ASSUME Base, NEW p \in Prices, Tick(p), NEW last \in Nat, last < DayOf(now)
    PROVE  DaysTo(last)' = DaysTo(last)
<1> SUFFICES ASSUME NEW d \in 1..last PROVE Bar(d, 0)' = Bar(d, 0)
    BY DEF DaysTo
<1>1. /\ now \in Nat /\ now' \in Nat /\ now < now' /\ DayOf(now) \in Nat /\ DayOf(now') \in Nat
      /\ DayOf(now) <= DayOf(now') /\ OpenOf(DayOf(now)) <= now
    BY TickFacts, BaseFacts, DayArithmetic, DayMonotone
<1>2. /\ OpenOf(d) \in Int /\ OpenOf(d + 1) \in Int /\ OpenOf(d) <= now' /\ OpenOf(d + 1) <= now'
      /\ DayOf(now') # d
    BY <1>1 DEF OpenOf, Hours
<1>3. InForceAt(OpenOf(d))' = InForceAt(OpenOf(d)) /\ InForceAt(OpenOf(d + 1))' = InForceAt(OpenOf(d + 1))
    BY <1>2, InForceStable
<1>4. {t \in DOMAIN price' : DayOf(t) = d} = {t \in DOMAIN price : DayOf(t) = d}
    BY <1>2, TickFacts
<1>5. {price'[t] : t \in {u \in DOMAIN price' : DayOf(u) = d}} = {price[t] : t \in {u \in DOMAIN price : DayOf(u) = d}}
    BY <1>4, TickFacts
<1>6. QED BY <1>3, <1>5, Zenon DEF Bar

\* The flags and the last close depend on the bars of the window alone, and not on the
\* entry.
LEMMA MetricsSame ==
    ASSUME NEW a, NEW b, NEW t0, NEW window, Fetched(a, t0, t0 + window) = Fetched(b, t0, t0 + window),
           NEW direction, NEW e, NEW f, NEW stop, NEW target
    PROVE  LET m == Metrics(direction, e, stop, target, t0, window, a)
               n == Metrics(direction, f, stop, target, t0, window, b)
           IN /\ m.none <=> n.none
              /\ ~m.none => m.hitTarget = n.hitTarget /\ m.hitStop = n.hitStop /\ m.atEnd = n.atEnd
<1> DEFINE inside == Fetched(a, t0, t0 + window)
           m == Metrics(direction, e, stop, target, t0, window, a)
           n == Metrics(direction, f, stop, target, t0, window, b)
           highest == Max({inside[d].high : d \in DOMAIN inside})
           lowest == Min({inside[d].low : d \in DOMAIN inside})
           target1 == Flag(target, IF direction = 1 THEN highest >= target ELSE lowest <= target)
           stop1 == Flag(stop, IF direction = 1 THEN lowest <= stop ELSE highest >= stop)
           last == PickCloseAt(inside, t0 + window)
<1>1. CASE DOMAIN inside = {}
    <2>1. m = Nothing /\ n = Nothing
        BY <1>1 DEF Metrics
    <2>2. Nothing.none
        BY DEF Nothing
    <2>3. QED BY <2>1, <2>2, Zenon
<1>2. CASE DOMAIN inside # {}
    <2>1. ~m.none /\ m.hitTarget = target1 /\ m.hitStop = stop1 /\ m.atEnd = last
        BY <1>2 DEF Metrics
    <2>2. ~n.none /\ n.hitTarget = target1 /\ n.hitStop = stop1 /\ n.atEnd = last
        BY <1>2 DEF Metrics
    <2> HIDE DEF m, n, target1, stop1, last
    <2>3. QED BY <2>1, <2>2 DEF m, n
<1>3. QED BY <1>1, <1>2

LEMMA FetchedTwice ==
    ASSUME NEW bars, \A d \in DOMAIN bars : d \in Int, NEW t0 \in Int, NEW to \in Int, NEW pad \in Nat
    PROVE  Fetched(Fetched(bars, t0 - pad, to + pad), t0, to) = Fetched(bars, t0, to)
<1> DEFINE outer == Fetched(bars, t0 - pad, to + pad)
<1>1. \A d \in DOMAIN bars : OpenOf(d) \in Int
    BY DEF OpenOf, Hours
<1>2. /\ DOMAIN outer = {d \in DOMAIN bars : t0 - pad <= OpenOf(d) /\ OpenOf(d) <= to + pad}
      /\ \A d \in DOMAIN outer : outer[d] = bars[d]
    BY DEF Fetched
<1> HIDE DEF outer
<1>3. {d \in DOMAIN outer : t0 <= OpenOf(d) /\ OpenOf(d) <= to} = {d \in DOMAIN bars : t0 <= OpenOf(d) /\ OpenOf(d) <= to}
    BY <1>1, <1>2
<1>4. Fetched(outer, t0, to) = Fetched(bars, t0, to)
    BY <1>2, <1>3 DEF Fetched
<1>5. QED BY <1>4 DEF outer

LEMMA WindowBars ==
    ASSUME Base, NEW s \in SignalRecords, Expires(s), NEW last \in Nat, DayOf(s.expires) < last
    PROVE  LET window == WindowOf(s.created, s.expires)
           IN /\ window \in Nat /\ DayOf(s.expires) \in Nat
              /\ Fetched(DaysTo(last), s.created, s.created + window)
                     = Fetched(DaysTo(DayOf(s.expires)), s.created, s.created + window)
<1> DEFINE window == WindowOf(s.created, s.expires)
           to == s.created + window
           end == DayOf(s.expires)
<1>1. s.created \in Nat /\ window \in Nat /\ end \in Nat /\ DayOf(to) = end
    <2>1. PICK t \in DOMAIN price : \E h \in Lengths : s.created <= t /\ s.expires = t + h
        BY DEF Expires
    <2>2. t \in Moments
        BY DEF Base, EvaluationTypeOK
    <2>3. s.created \in Nat
        BY DEF SignalRecords
    <2>4. s.expires \in Nat /\ window \in Nat /\ DayOf(to) = end
        BY <2>1, <2>2, <2>3, WindowEnds
    <2>5. QED BY <2>3, <2>4, DayArithmetic
<1> HIDE DEF window, end
<1>2. \A d \in Int : OpenOf(d) <= to <=> d <= end
    <2>1. to \in Nat
        BY <1>1
    <2>2. QED BY <1>1, <2>1, DayArithmetic
<1> HIDE DEF to
<1>3. DOMAIN DaysTo(last) = 1..last /\ DOMAIN DaysTo(end) = 1..end
    BY DEF DaysTo
<1>4. {d \in 1..last : s.created <= OpenOf(d) /\ OpenOf(d) <= to} = {d \in 1..end : s.created <= OpenOf(d) /\ OpenOf(d) <= to}
    BY <1>1, <1>2 DEF end
<1>5. \A d \in 1..end : DaysTo(last)[d] = DaysTo(end)[d]
    BY <1>1 DEF DaysTo, end
<1>6. Fetched(DaysTo(last), s.created, to) = Fetched(DaysTo(end), s.created, to)
    BY <1>3, <1>4, <1>5 DEF Fetched
<1>7. QED BY <1>1, <1>6 DEF window, to, end

LEMMA AnswersDecided == \A a \in Answers : a # Undecided
<1> SUFFICES ASSUME NEW a \in Answers PROVE a # Undecided
    OBVIOUS
<1>1. a.action # "unanswered"
    BY DEF Answers
<1>2. Undecided.action = "unanswered"
    BY DEF Undecided
<1>3. QED BY <1>1, <1>2

\* A row written after the last day of its signal had ended holds the flags and the last
\* close of the primary source's bars of the days up to that one, whenever they are read.
LiveMetrics(s, entry, bars) ==
    Metrics(DirectionOf(s.analysis.action), entry, s.analysis.stop, s.analysis.target, s.created,
            WindowOf(s.created, s.expires), bars)
Agrees(o, m) == ~m.none /\ o.hitTarget = m.hitTarget /\ o.hitStop = m.hitStop /\ o.atEnd = m.atEnd
ScoredFrom(s, o, bars) ==
    /\ DirectionOf(s.analysis.action) # 0 /\ ~(WindowOf(s.created, s.expires) < MinScorable)
    /\ Agrees(o, LiveMetrics(s, 0, bars))
ClosedWhenScored(s, o) == s.asset # "MARKET" /\ s.source = "sosovalue" /\ DayOf(s.expires) < DayOf(o.at)
LiveScored ==
    \A i \in DOMAIN outcomes : ClosedWhenScored(signals[i], outcomes[i]) =>
        ScoredFrom(signals[i], outcomes[i], DaysTo(DayOf(signals[i].expires)))

LEMMA LiveMetricsSame ==
    ASSUME NEW s, NEW a, NEW b, NEW o, NEW e, NEW f,
           Fetched(a, s.created, s.created + WindowOf(s.created, s.expires))
               = Fetched(b, s.created, s.created + WindowOf(s.created, s.expires)),
           Agrees(o, LiveMetrics(s, e, a))
    PROVE  Agrees(o, LiveMetrics(s, f, b))
<1> DEFINE m == LiveMetrics(s, e, a)
           n == LiveMetrics(s, f, b)
<1>1. /\ m.none <=> n.none
      /\ ~m.none => m.hitTarget = n.hitTarget /\ m.hitStop = n.hitStop /\ m.atEnd = n.atEnd
    BY MetricsSame DEF LiveMetrics
<1> HIDE DEF m, n
<1>2. Agrees(o, m)
    BY DEF m
<1>3. Agrees(o, n)
    BY <1>1, <1>2 DEF Agrees
<1>4. QED BY <1>3 DEF n

\* What the primary source serves around a window that has ended is its bars of the
\* days up to the window's last.
LEMMA PaddedBars ==
    ASSUME Base, NEW s \in SignalRecords, Expires(s), DayOf(s.expires) < DayOf(now), NEW pad \in Nat
    PROVE  LET window == WindowOf(s.created, s.expires)
           IN Fetched(Fetched(BarsOf("sosovalue"), s.created - pad, s.created + window + pad),
                      s.created, s.created + window)
                  = Fetched(DaysTo(DayOf(s.expires)), s.created, s.created + window)
<1> DEFINE window == WindowOf(s.created, s.expires)
           to == s.created + window
           bars == DaysTo(DayOf(now))
<1>1. DayOf(now) \in Nat
    BY BaseFacts
<1>2. window \in Nat /\ Fetched(bars, s.created, to) = Fetched(DaysTo(DayOf(s.expires)), s.created, to)
    BY <1>1, WindowBars
<1>3. s.created \in Nat
    BY DEF SignalRecords
<1>4. \A d \in DOMAIN bars : d \in Int
    BY <1>1 DEF DaysTo
<1>5. to \in Int /\ s.created \in Int
    BY <1>2, <1>3
<1> HIDE DEF bars, to
<1>6. Fetched(Fetched(bars, s.created - pad, to + pad), s.created, to) = Fetched(bars, s.created, to)
    BY <1>4, <1>5, FetchedTwice
<1>7. QED BY <1>2, <1>6, BarsArePrimary DEF bars, to

LEMMA ScoredRowAgrees ==
    ASSUME Base, NEW s \in SignalRecords, Expires(s), NEW up, ~Evaluated(s, up).none,
           s.source = "sosovalue", DayOf(s.expires) < DayOf(now)
    PROVE  ScoredFrom(s, Evaluated(s, up), DaysTo(DayOf(s.expires)))
<1> DEFINE o == Evaluated(s, up)
           entry == IF s.analysis.entry # NoPrice THEN s.analysis.entry ELSE s.price
           window == WindowOf(s.created, s.expires)
           bars == ScoredOn(s, up)
           m == LiveMetrics(s, entry, bars)
<1>1. /\ DirectionOf(s.analysis.action) # 0 /\ ~(window < MinScorable)
      /\ ~m.none /\ o.hitTarget = m.hitTarget /\ o.hitStop = m.hitStop /\ o.atEnd = m.atEnd
    BY ScoredRow DEF LiveMetrics
<1>2. Agrees(o, m)
    BY <1>1 DEF Agrees
<1>3. "sosovalue" \in up
    <2> SUFFICES ASSUME "sosovalue" \notin up PROVE FALSE
        OBVIOUS
    <2>1. bars = [d \in {} |-> NoPrice]
        BY DEF ScoredOn, Served
    <2> HIDE DEF bars
    <2>2. DOMAIN bars = {}
        BY <2>1
    <2>3. DOMAIN Fetched(bars, s.created, s.created + window) = {}
        BY <2>2 DEF Fetched
    <2>4. m = Nothing
        BY <2>3 DEF LiveMetrics, Metrics
    <2>5. Nothing.none
        BY DEF Nothing
    <2>6. m.none
        BY <2>4, <2>5, Zenon
    <2>7. QED BY <1>1, <2>6
<1>4. Fetched(bars, s.created, s.created + window) = Fetched(DaysTo(DayOf(s.expires)), s.created, s.created + window)
    <2>1. FetchPad \in Nat
        BY DEF FetchPad, Hours
    <2>2. bars = Fetched(BarsOf("sosovalue"), s.created - FetchPad, s.created + window + FetchPad)
        BY <1>3 DEF ScoredOn, Served
    <2> HIDE DEF bars
    <2>3. QED BY <2>1, <2>2, PaddedBars
<1>5. Agrees(o, LiveMetrics(s, 0, DaysTo(DayOf(s.expires))))
    <2> HIDE DEF o, bars, entry
    <2>1. QED BY <1>2, <1>4, LiveMetricsSame
<1>6. QED BY <1>1, <1>5 DEF ScoredFrom

LEMMA BarsKept == UNCHANGED price => \A n : DaysTo(n)' = DaysTo(n)
<1> SUFFICES ASSUME UNCHANGED price PROVE \A d : Bar(d, 0)' = Bar(d, 0)
    BY DEF DaysTo
<1>1. \A t : InForceAt(t)' = InForceAt(t)
    BY DEF InForceAt
<1>2. QED BY <1>1 DEF Bar

LEMMA LiveScoredNext ==
    ASSUME \A i \in DOMAIN outcomes' : ClosedWhenScored(signals'[i], outcomes'[i]) =>
               /\ ScoredFrom(signals'[i], outcomes'[i], DaysTo(DayOf(signals'[i].expires)))
               /\ \A last : last = DayOf(signals'[i].expires) => DaysTo(last)' = DaysTo(last)
    PROVE  LiveScored'
<1> SUFFICES ASSUME NEW i \in DOMAIN outcomes', ClosedWhenScored(signals'[i], outcomes'[i])
             PROVE  ScoredFrom(signals'[i], outcomes'[i], DaysTo(DayOf(signals[i].expires))')
    BY DEF LiveScored, ClosedWhenScored, ScoredFrom, LiveMetrics
<1>1. \A last : last = DayOf(signals'[i].expires) => DaysTo(last)' = DaysTo(last)
    OBVIOUS
<1>2. DaysTo(DayOf(signals[i].expires))' = DaysTo(DayOf(signals'[i].expires))
    BY <1>1 DEF DaysTo
<1>3. QED BY <1>2

LEMMA LiveScoredStep ==
    ASSUME Base, RowsReal, SignalsExpire, LiveScored, [EvaluationNext]_evaluationVars
    PROVE  LiveScored'
<1>0. DOMAIN outcomes \subseteq Ids /\ \A i \in Ids : signals[i] \in SignalRecords
    BY BaseFacts DEF Base, EvaluationTypeOK
<1>1. ASSUME Completes, UNCHANGED <<now, price, outcomes>> PROVE LiveScored'
    <2> SUFFICES ASSUME NEW i \in DOMAIN outcomes, ClosedWhenScored(signals'[i], outcomes[i])
                 PROVE  ScoredFrom(signals'[i], outcomes[i], DaysTo(DayOf(signals'[i].expires)))
        BY <1>1, BarsKept, LiveScoredNext
    <2>1. Filled(signals[i], signals'[i]) /\ i \in Ids
        BY <1>0, <1>1 DEF Completes
    <2>2. signals[i].asset # "MARKET"
        BY <2>1 DEF Filled, ClosedWhenScored
    <2>3. Settled(signals[i], outcomes[i])
        BY <2>2 DEF RowsReal
    <2>4. signals[i].analysis # Undecided
        BY <2>3, AnswersDecided DEF Settled
    <2>5. /\ signals'[i].analysis = signals[i].analysis /\ signals'[i].expires = signals[i].expires
          /\ signals'[i].source = signals[i].source /\ signals'[i].created = signals[i].created
        BY <2>1, <2>3, <2>4 DEF Filled, Settled
    <2>6. ScoredFrom(signals[i], outcomes[i], DaysTo(DayOf(signals[i].expires)))
        BY <2>2, <2>5 DEF LiveScored, ClosedWhenScored
    <2>7. QED BY <2>5, <2>6 DEF ScoredFrom, LiveMetrics
<1>2. ASSUME UNCHANGED <<now, price, outcomes, signals>> PROVE LiveScored'
    BY <1>1, <1>2, UnchangedCompletes
<1>3. CASE CycleRuns
    BY <1>2, <1>3, RunsKeep DEF Others, Stored
<1>4. ASSUME NEW k \in DOMAIN running, NEW a \in Analyses[followed], CycleCommits(k, a)
      PROVE  LiveScored'
    <2>1. UNCHANGED <<now, price, outcomes>>
        BY <1>4, CommitData DEF Others
    <2>2. \A i \in Ids : signals'[i] = signals[i]
        BY <1>4, CommitRaises DEF Raises
    <2>3. QED BY <1>0, <2>1, <2>2, BarsKept, LiveScoredNext DEF LiveScored
<1>5. CASE Backfills
    BY <1>1, <1>5 DEF Backfills
<1>6. CASE UNCHANGED evaluationVars
    BY <1>2, <1>6 DEF evaluationVars
<1>7. ASSUME NEW p \in Prices, Tick(p) PROVE LiveScored'
    <2>1. UNCHANGED <<signals, outcomes>>
        BY <1>7, TickFacts
    <2>2. ASSUME NEW i \in DOMAIN outcomes, ClosedWhenScored(signals[i], outcomes[i]),
                 NEW last, last = DayOf(signals[i].expires)
          PROVE  DaysTo(last)' = DaysTo(last)
        <3>1. /\ outcomes[i].at \in Nat /\ outcomes[i].at <= now /\ now \in Nat
              /\ signals[i].expires \in Nat /\ last < DayOf(outcomes[i].at)
            BY <2>2, BaseFacts DEF ClosedWhenScored, RowsReal, Settled
        <3>2. last \in Nat /\ DayOf(outcomes[i].at) \in Nat /\ DayOf(now) \in Nat
            BY <2>2, <3>1, DayArithmetic
        <3>3. DayOf(outcomes[i].at) <= DayOf(now)
            BY <3>1, DayMonotone
        <3>4. last < DayOf(now)
            BY <3>1, <3>2, <3>3
        <3>5. QED BY <1>7, <3>2, <3>4, BarsStay
    <2>3. QED BY <2>1, <2>2, LiveScoredNext DEF LiveScored
<1>8. ASSUME NEW up \in UpSets[followed], Evaluate(up) PROVE LiveScored'
    <2> DEFINE scored == {i \in Eligible : ~Score(signals[i], up).none}
               rows == [i \in scored |-> Score(signals[i], up)]
    <2>1. outcomes' = With(outcomes, rows) /\ UNCHANGED <<now, price, signals>>
        BY <1>8 DEF Evaluate
    <2>2. \A i \in scored : rows[i] = Score(signals[i], up) /\ ~Score(signals[i], up).none
        OBVIOUS
    <2>3. \A i \in scored : i \in Ids /\ i \notin DOMAIN outcomes /\ signals[i].expires # 0
        BY DEF Eligible
    <2>4. DOMAIN rows = scored
        OBVIOUS
    <2> HIDE DEF scored, rows
    <2>5. ASSUME NEW i \in scored, ClosedWhenScored(signals[i], rows[i])
          PROVE  ScoredFrom(signals[i], rows[i], DaysTo(DayOf(signals[i].expires)))
        <3>1. rows[i] = Evaluated(signals[i], up) /\ ~Evaluated(signals[i], up).none
            BY <2>2, <2>5 DEF Score, ClosedWhenScored
        <3>2. signals[i] \in SignalRecords /\ Expires(signals[i])
            BY <1>0, <2>3 DEF SignalsExpire
        <3>3. Evaluated(signals[i], up).at = now
            BY <3>1, ScoredRow
        <3>4. signals[i].source = "sosovalue" /\ DayOf(signals[i].expires) < DayOf(now)
            BY <2>5, <3>1, <3>3 DEF ClosedWhenScored
        <3>5. QED BY <3>1, <3>2, <3>4, ScoredRowAgrees
    <2>6. ASSUME NEW i \in DOMAIN outcomes', ClosedWhenScored(signals[i], outcomes'[i])
          PROVE  ScoredFrom(signals[i], outcomes'[i], DaysTo(DayOf(signals[i].expires)))
        <3>1. CASE i \in DOMAIN outcomes
            <4>1. outcomes'[i] = outcomes[i]
                BY <2>1, <3>1 DEF With
            <4>2. QED BY <2>6, <3>1, <4>1 DEF LiveScored
        <3>2. CASE i \notin DOMAIN outcomes
            <4>1. i \in scored /\ outcomes'[i] = rows[i]
                BY <2>1, <2>4, <3>2 DEF With
            <4>2. QED BY <2>5, <2>6, <4>1
        <3>3. QED BY <3>1, <3>2
    <2>7. QED BY <2>1, <2>6, BarsKept, LiveScoredNext
<1>9. CASE ReadPage
    BY <1>2, <1>9 DEF ReadPage
<1>10. QED BY <1>3, <1>4, <1>5, <1>6, <1>7, <1>8, <1>9, StepKinds

LEMMA InitLiveScored == EvaluationInit => LiveScored
BY DEF EvaluationInit, LiveScored

\* The walk finds the analysis of the signal whose hit it is on.
LEMMA HitResolved ==
    ASSUME Base, Detected, NEW i \in Ids, signals[i].analysis \in Answers
    PROVE  Resolved(HitOf(signals[i])) = signals[i].analysis
<1> DEFINE hit == HitOf(signals[i])
           known == {j \in Ids : <<signals[j].date, signals[j].mark>> = <<hit.date, hit.mark>>
                                 /\ signals[j].analysis # Undecided}
<1>1. hit.date = signals[i].date /\ hit.mark = signals[i].mark
    BY DEF HitOf
<1>2. i \in known
    BY <1>1, AnswersDecided
<1>3. \A j \in known : j = i
    BY <1>1 DEF Detected, Distinct, Key
<1>4. known \in SUBSET Nat
    BY BaseFacts
<1>5. Resolved(hit) = IF known = {} THEN Undecided ELSE signals[Min(known)].analysis
    BY DEF Resolved
<1> HIDE DEF known, hit
<1>6. Min(known) \in known
    BY <1>2, <1>4, MinOfSet
<1>7. QED BY <1>2, <1>3, <1>5, <1>6 DEF hit

\* Replayed from the moment it was created at, over the bars to its last day, a signal
\* has the flags of its row, or is skipped for want of an entry.
LEMMA ReplayedFromBars ==
    ASSUME Base, NEW s \in SignalRecords, Expires(s), DayOf(s.expires) < DayOf(now), NEW o,
           ScoredFrom(s, o, DaysTo(DayOf(s.expires)))
    PROVE  LET replayed == ScoreSingle(s.analysis, s.created, WindowOf(s.created, s.expires))
           IN /\ replayed = Nothing \/ Agrees(o, replayed)
              /\ s.analysis.entry # NoPrice => Agrees(o, replayed)
<1> DEFINE window == WindowOf(s.created, s.expires)
           bars == Fetched(BarsOf("sosovalue"), s.created - BacktestPad, s.created + window + BacktestPad)
           entry == IF s.analysis.entry # NoPrice THEN s.analysis.entry ELSE PickCloseAt(bars, s.created)
           primary == DaysTo(DayOf(s.expires))
           replayed == ScoreSingle(s.analysis, s.created, window)
<1>1. BacktestPad \in Nat
    BY DEF BacktestPad, Hours
<1>2. Fetched(bars, s.created, s.created + window) = Fetched(primary, s.created, s.created + window)
    BY <1>1, PaddedBars
<1>3. replayed = IF bars = <<>> \/ entry = NoPrice THEN Nothing ELSE LiveMetrics(s, entry, bars)
    BY Zenon DEF ScoreSingle, LiveMetrics
<1>4. Agrees(o, LiveMetrics(s, 0, primary))
    BY DEF ScoredFrom
<1> HIDE DEF bars, primary
<1>5. bars # <<>>
    <2> SUFFICES ASSUME bars = <<>> PROVE FALSE
        OBVIOUS
    <2>1. DOMAIN Fetched(bars, s.created, s.created + window) = {}
        BY DEF Fetched
    <2>2. LiveMetrics(s, 0, primary) = Nothing
        BY <1>2, <2>1, Zenon DEF LiveMetrics, Metrics
    <2>3. Nothing.none
        BY DEF Nothing
    <2>4. LiveMetrics(s, 0, primary).none
        BY <2>2, <2>3, Zenon
    <2>5. QED BY <1>4, <2>4 DEF Agrees
<1>6. Agrees(o, LiveMetrics(s, entry, bars))
    <2> HIDE DEF entry
    <2>1. QED BY <1>2, <1>4, LiveMetricsSame
<1> HIDE DEF replayed, entry
<1>7. entry = NoPrice => s.analysis.entry = NoPrice
    BY DEF entry
<1>8. QED BY <1>3, <1>5, <1>6, <1>7, Zenon DEF replayed, window

LEMMA HorizonWindow ==
    ASSUME NEW a \in Answers, NEW created \in Nat, NEW expires, expires = created + HorizonLength[a.horizon]
    PROVE  WindowOf(created, expires) = HorizonLength[a.horizon]
<1>1. a.horizon \in {"scalp", "swing", "position"}
    BY DEF Answers, HorizonLength
<1>2. HorizonLength[a.horizon] \in {12, 144, 336}
    BY <1>1 DEF HorizonLength, Hours
<1> DEFINE h == HorizonLength[a.horizon]
<1> HIDE DEF h
<1>3. h \in {12, 144, 336} /\ expires - created = h
    BY <1>2 DEF h
<1>4. 2 * ((h + 1) \div 2) = h
    BY <1>3
<1>5. WindowOf(created, expires) = h
    BY <1>3, <1>4 DEF WindowOf, Hours
<1>6. QED BY <1>5 DEF h

LEMMA ReplaysLive ==
    Base /\ Detected /\ RowsReal /\ SignalsExpire /\ LiveScored => BacktestReplaysLive
<1> SUFFICES ASSUME Base, Detected, RowsReal, SignalsExpire, LiveScored, NEW i \in Ids, OnTime(i)
             PROVE  LET s == signals[i]
                        hit == HitOf(s)
                        live == outcomes[i]
                        Comparable == /\ i \in DOMAIN outcomes /\ s.source = "sosovalue"
                                      /\ s.expires = s.created + HorizonLength[s.analysis.horizon]
                                      /\ DayOf(live.at) > DayOf(s.expires)
                    IN /\ hit \in HitsOn(s.date)
                       /\ Comparable /\ s.analysis.entry # NoPrice => ~Replay(hit).none
                       /\ Comparable /\ ~Replay(hit).none =>
                             /\ <<live.hitTarget, live.hitStop>> = <<Replay(hit).hitTarget, Replay(hit).hitStop>>
                             /\ live.atEnd = Replay(hit).atEnd
    BY DEF BacktestReplaysLive, HitOf
<1> DEFINE s == signals[i]
           hit == HitOf(s)
           live == outcomes[i]
<1>1. hit \in HitsOn(s.date)
    BY HitIsReplayed
<1>2. ASSUME i \in DOMAIN outcomes, s.source = "sosovalue", DayOf(live.at) > DayOf(s.expires),
             s.expires = s.created + HorizonLength[s.analysis.horizon]
      PROVE  /\ Replay(hit) = Nothing \/ Agrees(live, Replay(hit))
             /\ s.analysis.entry # NoPrice => Agrees(live, Replay(hit))
    <2>1. s.asset # "MARKET" /\ s \in SignalRecords /\ s.created \in Nat
        <3>1. Asset = "BTC"
            BY DEF OnTime, Asset
        <3>2. QED BY <3>1, BaseFacts DEF Base, EvaluationTypeOK, SignalRecords
    <2>2. Settled(s, live) /\ live.at <= now
        BY <1>2, <2>1 DEF RowsReal
    <2>3. /\ s.analysis \in Answers /\ s.expires \in Nat /\ live.at \in Nat /\ now \in Nat
        BY <2>2, BaseFacts DEF Settled
    <2>4. s.expires # 0
        <3>1. HorizonLength[s.analysis.horizon] \in Nat \ {0}
            BY <2>3, HorizonType
        <3>2. QED BY <1>2, <2>1, <3>1
    <2>5. DayOf(s.expires) < DayOf(live.at) /\ DayOf(s.expires) < DayOf(now)
        <3>1. DayOf(s.expires) \in Nat /\ DayOf(live.at) \in Nat /\ DayOf(now) \in Nat
            BY <2>3, DayArithmetic
        <3>2. DayOf(live.at) <= DayOf(now)
            BY <2>2, <2>3, DayMonotone
        <3>3. QED BY <1>2, <3>1, <3>2
    <2>6. Expires(s)
        BY <2>4 DEF SignalsExpire
    <2>7. ScoredFrom(s, live, DaysTo(DayOf(s.expires)))
        BY <1>2, <2>1, <2>5 DEF LiveScored, ClosedWhenScored
    <2> DEFINE window == WindowOf(s.created, s.expires)
    <2>8. Resolved(hit) = s.analysis /\ s.analysis # Undecided
        BY <2>3, HitResolved, AnswersDecided
    <2>9. HorizonLength[s.analysis.horizon] = window
        BY <1>2, <2>1, <2>3, HorizonWindow
    <2>10. BacktestStart(hit) = s.created
        BY DEF BacktestStart, HitOf, OnTime
    <2>11. DirectionOf(s.analysis.action) # 0 /\ ~(window < MinScorable)
        BY <2>7 DEF ScoredFrom
    <2> HIDE DEF s, hit, window
    <2>12. Replay(hit) = ScoreSingle(s.analysis, s.created, window)
        BY <2>8, <2>9, <2>10, <2>11, Zenon DEF Replay
    <2>13. /\ ScoreSingle(s.analysis, s.created, window) = Nothing \/ Agrees(live, ScoreSingle(s.analysis, s.created, window))
           /\ s.analysis.entry # NoPrice => Agrees(live, ScoreSingle(s.analysis, s.created, window))
        BY <2>1, <2>5, <2>6, <2>7, ReplayedFromBars DEF window
    <2>14. QED BY <2>12, <2>13, Zenon
<1>3. Nothing.none
    BY DEF Nothing
<1> HIDE DEF s, hit, live
<1>4. ASSUME Replay(hit) = Nothing PROVE Replay(hit).none
    BY <1>3, <1>4, Zenon
<1>5. QED BY <1>1, <1>2, <1>4 DEF s, hit, live, Agrees

\* Every hit that the cron cycle raised on flows alone, with all rows of its day and of
\* the days before it stored by then and no other cycle beside it, is a hit of the replay
\* of its date; and a replay scored on bars that had all closed when the evaluator ran has
\* the evaluator's flags and last close (backtest.py 533-548, track_record.py
\* _compute_metrics).
THEOREM BacktestAlwaysReplays == EvaluationSpec => []BacktestReplaysLive
<1>1. EvaluationInit => RowsReal /\ SignalsExpire
    BY DEF EvaluationInit, RowsReal, SignalsExpire, Ids
<1>2. QED BY BaseInvariant, RowsStep, DetectedStep, LiveScoredStep, InitDetected, InitLiveScored,
             ReplaysLive, <1>1, PTL DEF EvaluationSpec

===========================================================================
