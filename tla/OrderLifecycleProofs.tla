----------------------- MODULE OrderLifecycleProofs -----------------------
(***************************************************************************)
(* OrderLifecycle for every number of orders, requests and overlapping      *)
(* transactions.  The inductive invariant is TypeOK, CopiesAgree and the    *)
(* two properties they support; Inductive is their conjunction.             *)
(***************************************************************************)
EXTENDS OrderLifecycle, NonceAllocation, FiniteSums

Inductive ==
    TypeOK /\ CopiesAgree /\ AtMostOneExecution /\ FilledNeverAheadOfVenue

---------------------------------------------------------------------------
\* Merging leaves a row, keeps every column the transaction did not change,
\* and takes the others from its copy.
LEMMA MergeType ==
    ASSUME NEW cur \in Row, NEW base \in Row, NEW view \in Row
    PROVE  Merge(cur, base, view) \in Row
BY DEF Merge, Column, Row

LEMMA MergeColumns ==
    ASSUME NEW cur, NEW base, NEW view
    PROVE  /\ Merge(cur, base, view).status
                 = IF view.status = base.status THEN cur.status ELSE view.status
           /\ Merge(cur, base, view).filled
                 = IF view.filled = base.filled THEN cur.filled ELSE view.filled
           /\ Merge(cur, base, view).nonce
                 = IF view.nonce = base.nonce THEN cur.nonce ELSE view.nonce
BY DEF Merge, Column

LEMMA NoTxIsIdle ==
    /\ NoTx \notin Tx
    /\ \A t \in Tx : t # NoTx /\ t.at \in RequestStep /\ t.order \in Orders
                     /\ t.base \in Row /\ t.view \in Row /\ t.answer \in Answer
BY DEF NoTx, Tx, RequestStep

\* A request that is at a step has a transaction.
LEMMA AtStep ==
    ASSUME TypeOK, NEW r \in Requests, NEW step \in RequestStep, At(r, step)
    PROVE  tx[r] \in Tx /\ tx[r] # NoTx
BY NoTxIsIdle DEF TypeOK, At, NoTx, RequestStep

LEMMA NoRowType == NoRow \in Row
BY DEF NoRow, Row, Status, Reconcilable, Terminal

LEMMA InitInductive == Init => Inductive
<1> SUFFICES ASSUME Init PROVE Inductive
    OBVIOUS
<1>1. TypeOK
    BY NoRowType DEF Init, TypeOK, IdleTick, TickStep
<1>2. CopiesAgree
    BY NoRowType DEF Init, CopiesAgree, RowAgrees, IdleTick, NoRow
<1>3. AtMostOneExecution
    BY DEF Init, AtMostOneExecution
<1>4. FilledNeverAheadOfVenue
    BY DEF Init, FilledNeverAheadOfVenue, NoRow
<1>5. QED BY <1>1, <1>2, <1>3, <1>4 DEF Inductive

---------------------------------------------------------------------------
\* The types of what the transaction operators change.
SessionTypes ==
    /\ row \in [Orders -> Row]
    /\ tx \in [Requests -> Tx \cup {NoTx}]
    /\ rowLock \in [Orders -> Requests \cup {Tick, Free}]
    /\ userLock \in Requests \cup {Tick, Free}

LEMMA UnlockType ==
    ASSUME NEW locks \in [Orders -> Requests \cup {Tick, Free}], NEW h
    PROVE  Unlock(locks, h) \in [Orders -> Requests \cup {Tick, Free}]
BY DEF Unlock

LEMMA CommitTypes ==
    ASSUME TypeOK, NEW r \in Requests, tx[r] \in Tx, NEW v \in Row, CommitRequest(r, v)
    PROVE  SessionTypes'
<1>1. tx[r].order \in Orders /\ tx[r].base \in Row
    BY DEF Tx
<1>2. Merge(row[tx[r].order], tx[r].base, v) \in Row
    BY <1>1, MergeType DEF TypeOK
<1>3. QED BY <1>1, <1>2, UnlockType DEF CommitRequest, SessionTypes, TypeOK

LEMMA RollbackTypes ==
    ASSUME TypeOK, NEW r \in Requests, RollbackRequest(r)
    PROVE  SessionTypes'
BY UnlockType DEF RollbackRequest, SessionTypes, TypeOK

LEMMA BeginTypes ==
    ASSUME TypeOK, NEW r \in Requests, NEW o \in Orders, NEW step \in RequestStep,
           Begin(r, o, step)
    PROVE  tx' \in [Requests -> Tx \cup {NoTx}]
<1>1. [at |-> step, order |-> o, base |-> row[o], view |-> row[o], answer |-> "none"] \in Tx
    BY DEF TypeOK, Tx, Answer
<1>2. QED BY <1>1 DEF Begin, TypeOK

LEMMA LockRowTypes ==
    ASSUME TypeOK, NEW r \in Requests, tx[r] \in Tx, NEW v \in Row, NEW step \in RequestStep,
           LockRowAndSet(r, v, step)
    PROVE  /\ tx' \in [Requests -> Tx \cup {NoTx}]
           /\ rowLock' \in [Orders -> Requests \cup {Tick, Free}]
<1>1. [tx[r] EXCEPT !.view = v, !.at = step] \in Tx
    BY DEF Tx
<1>2. tx' = [tx EXCEPT ![r] = [tx[r] EXCEPT !.view = v, !.at = step]]
    BY DEF LockRowAndSet, TypeOK
<1>3. tx' \in [Requests -> Tx \cup {NoTx}]
    BY <1>1, <1>2 DEF TypeOK
<1>4. rowLock' \in [Orders -> Requests \cup {Tick, Free}]
    BY DEF LockRowAndSet, TypeOK
<1>5. QED BY <1>3, <1>4

LEMMA AnsweredTypes ==
    ASSUME TypeOK, NEW r \in Requests, tx[r] \in Tx, NEW step \in RequestStep,
           NEW answer \in Answer, Answered(r, step, answer)
    PROVE  tx' \in [Requests -> Tx \cup {NoTx}]
<1>1. [tx[r] EXCEPT !.at = step, !.answer = answer] \in Tx
    BY DEF Tx
<1>2. tx' = [tx EXCEPT ![r] = [tx[r] EXCEPT !.at = step, !.answer = answer]]
    BY DEF Answered, TypeOK
<1>3. QED BY <1>1, <1>2 DEF TypeOK

---------------------------------------------------------------------------
\* Every step keeps the types.
LEMMA TypeStep == Inductive /\ [Next]_vars => TypeOK'
<1> SUFFICES ASSUME Inductive, [Next]_vars PROVE TypeOK'
    OBVIOUS
<1> USE DEF Inductive
<1>1. ASSUME NEW o \in Orders, PrepareNew(o) PROVE TypeOK'
    <2>1. [NoRow EXCEPT !.status = "pending", !.nonce = nextNonce] \in Row
        BY DEF TypeOK, Row, NoRow, Status, Reconcilable
    <2>2. QED BY <1>1, <2>1 DEF PrepareNew, TypeOK, lockVars, venueVars
<1>2. ASSUME NEW r \in Requests, NEW o \in Orders, SubmitLoad(r, o) PROVE TypeOK'
    <2>1. tx' \in [Requests -> Tx \cup {NoTx}]
        BY <1>2, BeginTypes DEF SubmitLoad, RequestStep
    <2>2. QED BY <1>2, <2>1 DEF SubmitLoad, TypeOK, dbVars, lockVars, venueVars
<1>3. ASSUME NEW r \in Requests, NEW o \in Orders, PrepareCancelLoad(r, o) PROVE TypeOK'
    <2>1. tx' \in [Requests -> Tx \cup {NoTx}]
        BY <1>3, BeginTypes DEF PrepareCancelLoad, RequestStep
    <2>2. QED BY <1>3, <2>1 DEF PrepareCancelLoad, TypeOK, dbVars, lockVars, venueVars
<1>4. ASSUME NEW r \in Requests, NEW o \in Orders, SubmitCancelLoad(r, o) PROVE TypeOK'
    <2>1. tx' \in [Requests -> Tx \cup {NoTx}]
        BY <1>4, BeginTypes DEF SubmitCancelLoad, RequestStep
    <2>2. QED BY <1>4, <2>1 DEF SubmitCancelLoad, TypeOK, dbVars, lockVars, venueVars
<1>5. ASSUME NEW r \in Requests, RequestContinues(r) PROVE TypeOK'
    <2>1. CASE SubmitReject(r)
        <3>1. tx[r] \in Tx
            BY <2>1, AtStep DEF SubmitReject, RequestStep
        <3>2. [tx[r].view EXCEPT !.status = "rejected"] \in Row
            BY <3>1 DEF Tx, Row, Status, Terminal
        <3>3. SessionTypes'
            BY <2>1, <3>1, <3>2, CommitTypes DEF SubmitReject
        <3>4. QED BY <2>1, <3>3 DEF SubmitReject, SessionTypes, TypeOK, venueVars
    <2>2. CASE SubmitSign(r)
        <3>1. tx[r] \in Tx
            BY <2>2, AtStep DEF SubmitSign, RequestStep
        <3>2. [tx[r].view EXCEPT !.status = "submitted"] \in Row
            BY <3>1 DEF Tx, Row, Status, Reconcilable
        <3>3. /\ tx' \in [Requests -> Tx \cup {NoTx}]
              /\ rowLock' \in [Orders -> Requests \cup {Tick, Free}]
            BY <2>2, <3>1, <3>2, LockRowTypes DEF SubmitSign, RequestStep
        <3>4. QED BY <2>2, <3>3 DEF SubmitSign, TypeOK, dbVars, venueVars
    <2>3. CASE SubmitPost(r)
        <3>1. tx[r] \in Tx
            BY <2>3, AtStep DEF SubmitPost, RequestStep
        <3>2. tx[r].order \in Orders /\ tx[r].view.nonce \in Nat
            BY <3>1 DEF Tx, Row
        <3>3. tx' \in [Requests -> Tx \cup {NoTx}]
            BY <2>3, <3>1, AnsweredTypes DEF SubmitPost, ReportOf, RequestStep, Answer
        <3>4. /\ venue' \in [Orders -> [state : {"unseen", "open", "filled", "cancelled"},
                                        filled : Nat]]
              /\ used' \in SUBSET Nat
              /\ execs' \in [Orders -> Nat]
            BY <2>3, <3>2 DEF SubmitPost, TypeOK
        <3>5. QED BY <2>3, <3>3, <3>4 DEF SubmitPost, TypeOK, dbVars, lockVars
    <2>4. CASE SubmitAnswer(r)
        <3>1. tx[r] \in Tx
            BY <2>4, AtStep DEF SubmitAnswer, RequestStep
        <3>2. /\ [tx[r].view EXCEPT !.status = "acked"] \in Row
              /\ [tx[r].view EXCEPT !.status = "rejected"] \in Row
              /\ tx[r].view \in Row
            BY <3>1 DEF Tx, Row, Status, Terminal, Reconcilable
        <3>3. SessionTypes'
            BY <2>4, <3>1, <3>2, CommitTypes, RollbackTypes DEF SubmitAnswer
        <3>4. QED BY <2>4, <3>3 DEF SubmitAnswer, SessionTypes, TypeOK, venueVars
    <2>5. CASE CancelLocally(r)
        <3>1. tx[r] \in Tx
            BY <2>5, AtStep DEF CancelLocally, RequestStep
        <3>2. [tx[r].view EXCEPT !.status = "cancelled"] \in Row
            BY <3>1 DEF Tx, Row, Status, Terminal
        <3>3. SessionTypes'
            BY <2>5, <3>1, <3>2, CommitTypes DEF CancelLocally
        <3>4. QED BY <2>5, <3>3 DEF CancelLocally, SessionTypes, TypeOK, venueVars
    <2>6. CASE PrepareCancelLockUser(r)
        <3>1. tx[r] \in Tx
            BY <2>6, AtStep DEF PrepareCancelLockUser, RequestStep
        <3> DEFINE v == [tx[r].view EXCEPT !.cnonce = nextNonce, !.csig = 0]
        <3>2. v \in Row
            BY <3>1 DEF Tx, Row, TypeOK
        <3>3. [tx[r] EXCEPT !.view = v, !.at = "flush"] \in Tx
            BY <3>1, <3>2 DEF Tx, RequestStep
        <3>4. tx' = [tx EXCEPT ![r] = [tx[r] EXCEPT !.view = v, !.at = "flush"]]
            BY <2>6, <3>1 DEF PrepareCancelLockUser, TypeOK, Tx, Row
        <3>5. tx' \in [Requests -> Tx \cup {NoTx}]
            BY <3>3, <3>4 DEF TypeOK
        <3>6. QED BY <2>6, <3>5 DEF PrepareCancelLockUser, TypeOK, venueVars
    <2>7. CASE PrepareCancelFlush(r)
        <3>1. tx[r] \in Tx
            BY <2>7, AtStep DEF PrepareCancelFlush, RequestStep
        <3>2. tx[r].view \in Row
            BY <3>1 DEF Tx
        <3>3. SessionTypes'
            BY <2>7, <3>1, <3>2, CommitTypes DEF PrepareCancelFlush
        <3>4. QED BY <2>7, <3>3 DEF PrepareCancelFlush, SessionTypes, TypeOK, venueVars
    <2>8. CASE SubmitCancelSign(r)
        <3>1. tx[r] \in Tx
            BY <2>8, AtStep DEF SubmitCancelSign, RequestStep
        <3>2. [tx[r].view EXCEPT !.csig = tx[r].view.cnonce] \in Row
            BY <3>1 DEF Tx, Row
        <3>3. /\ tx' \in [Requests -> Tx \cup {NoTx}]
              /\ rowLock' \in [Orders -> Requests \cup {Tick, Free}]
            BY <2>8, <3>1, <3>2, LockRowTypes DEF SubmitCancelSign, RequestStep
        <3>4. QED BY <2>8, <3>3 DEF SubmitCancelSign, TypeOK, dbVars, venueVars
    <2>9. CASE SubmitCancelPost(r)
        <3>1. tx[r] \in Tx
            BY <2>9, AtStep DEF SubmitCancelPost, RequestStep
        <3>2. tx[r].order \in Orders /\ tx[r].view.cnonce \in Nat
            BY <3>1 DEF Tx, Row
        <3>3. tx' \in [Requests -> Tx \cup {NoTx}]
            BY <2>9, <3>1, AnsweredTypes DEF SubmitCancelPost, ReportOf, RequestStep, Answer
        <3>4. /\ venue' \in [Orders -> [state : {"unseen", "open", "filled", "cancelled"},
                                        filled : Nat]]
              /\ used' \in SUBSET Nat
            BY <2>9, <3>2 DEF SubmitCancelPost, TypeOK
        <3>5. QED BY <2>9, <3>3, <3>4 DEF SubmitCancelPost, TypeOK, dbVars, lockVars
    <2>10. CASE SubmitCancelAnswer(r)
        <3>1. tx[r] \in Tx
            BY <2>10, AtStep DEF SubmitCancelAnswer, RequestStep
        <3>2. /\ [tx[r].view EXCEPT !.status = "cancelled"] \in Row
              /\ tx[r].view \in Row
            BY <3>1 DEF Tx, Row, Status, Terminal
        <3>3. SessionTypes'
            BY <2>10, <3>1, <3>2, CommitTypes, RollbackTypes DEF SubmitCancelAnswer
        <3>4. QED BY <2>10, <3>3 DEF SubmitCancelAnswer, SessionTypes, TypeOK, venueVars
    <2>11. QED
        BY <1>5, <2>1, <2>2, <2>3, <2>4, <2>5, <2>6, <2>7, <2>8, <2>9, <2>10
        DEF RequestContinues
<1>6. ASSUME TickLoad PROVE TypeOK'
    BY <1>6 DEF TickLoad, TypeOK, IdleTick, TickStep, dbVars, lockVars, venueVars
<1>7. ASSUME TickContinues PROVE TypeOK'
    <2>1. CASE TickList
        <3>1. \A o \in Orders : Listed(o) \in Nat
            BY DEF Listed, TypeOK
        <3>2. QED
            BY <2>1, <3>1
            DEF TickList, ListAndMark, TypeOK, TickStep, dbVars, lockVars, venueVars
    <2>2. CASE TickHttpError
        BY <2>2 DEF TickHttpError, TypeOK, TickStep, dbVars, lockVars, venueVars
    <2>3. CASE \E o \in Orders : TickFold(o)
        <3>1. PICK o \in Orders : TickFold(o)
            BY <2>3
        <3> DEFINE theirs == tick.listing[o]
                   status == FillStatus(theirs)
                   delta == theirs - tick.view[o].filled
                   v == [tick.view[o] EXCEPT !.filled = theirs, !.status = status]
        <3>2. tick.at = "folding" /\ o \in tick.todo
            BY <3>1 DEF TickFold, Fold
        <3>3. theirs \in Nat /\ tick.view[o] \in Row /\ tick.view[o].filled \in Nat
            BY DEF TypeOK, Row
        <3>4. delta \in Nat
            BY <3>2, <3>3 DEF CopiesAgree, TickAgrees
        <3>5. v \in Row
            BY <3>3 DEF Row, FillStatus, Status, Terminal, Reconcilable
        <3>6. tick' = [tick EXCEPT !.view = [@ EXCEPT ![o] = v],
                                   !.todo = @ \ {o},
                                   !.at = IF tick.pos = 0 THEN "opening" ELSE "folding",
                                   !.delta = delta,
                                   !.pos = IF @ = 0 THEN 0 ELSE @ + delta]
            BY <3>1, <3>3 DEF TickFold, Fold, TypeOK
        <3>7. rowLock' = [rowLock EXCEPT ![o] = Tick]
              /\ UNCHANGED <<dbVars, userLock, tx, venueVars, crashes>>
            BY <3>1 DEF TickFold, Fold
        <3> HIDE DEF v, delta
        <3>8. /\ [tick.view EXCEPT ![o] = v] \in [Orders -> Row]
              /\ tick.todo \ {o} \in SUBSET Orders
              /\ (IF tick.pos = 0 THEN 0 ELSE tick.pos + delta) \in Nat
            BY <3>4, <3>5 DEF TypeOK
        <3>9. tick' \in [at : TickStep, base : [Orders -> Row], view : [Orders -> Row],
                         listing : [Orders -> Nat], todo : SUBSET Orders, delta : Nat,
                         pos : Nat, writtenOff : Nat]
            BY <3>4, <3>6, <3>8 DEF TypeOK, TickStep
        <3>10. QED BY <3>7, <3>9 DEF TypeOK, dbVars, venueVars
    <2>4. CASE TickOpenPosition
        BY <2>4 DEF TickOpenPosition, TypeOK, TickStep, dbVars, venueVars
    <2>5. CASE TickBalances
        BY <2>5 DEF TickBalances, TypeOK, TickStep, dbVars, lockVars, venueVars
    <2>6. CASE TickCommit
        <3>1. \A o \in Orders : Merge(row[o], tick.base[o], tick.view[o]) \in Row
            BY MergeType DEF TypeOK
        <3>2. IdleTick \in [at : TickStep, base : [Orders -> Row], view : [Orders -> Row],
                            listing : [Orders -> Nat], todo : SUBSET Orders, delta : Nat,
                            pos : Nat, writtenOff : Nat]
            BY NoRowType DEF IdleTick, TickStep
        <3>3. rowLock' \in [Orders -> Requests \cup {Tick, Free}]
            BY <2>6, UnlockType DEF TickCommit, TypeOK
        <3>4. QED BY <2>6, <3>1, <3>2, <3>3 DEF TickCommit, TypeOK, venueVars
    <2>7. QED
        BY <1>7, <2>1, <2>2, <2>3, <2>4, <2>5, <2>6 DEF TickContinues
<1>8. ASSUME Reap PROVE TypeOK'
    <2>1. ASSUME NEW o \in Orders PROVE [row[o] EXCEPT !.status = "expired"] \in Row
        <3>1. row[o] \in Row
            BY DEF TypeOK
        <3>2. QED BY <3>1 DEF Row, Status, Terminal
    <2>2. QED BY <1>8, <2>1 DEF Reap, Expire, TypeOK, lockVars, venueVars
<1>9. ASSUME NEW o \in Orders, NonceWindowCloses(o) PROVE TypeOK'
    BY <1>9 DEF NonceWindowCloses, TypeOK, lockVars, venueVars
<1>10. ASSUME NEW o \in Orders, VenueFill(o) \/ VenueRemoves(o) \/ VenueCloses(o)
       PROVE  TypeOK'
    BY <1>10 DEF VenueFill, VenueRemoves, VenueCloses, TypeOK, dbVars, lockVars
<1>11. ASSUME ExternalSell PROVE TypeOK'
    BY <1>11 DEF ExternalSell, TypeOK, dbVars, lockVars
<1>12. ASSUME NEW r \in Requests, DeadlockAbort(r) PROVE TypeOK'
    <2>1. CASE RollbackRequest(r) /\ UNCHANGED tick
        <3>1. SessionTypes'
            BY <2>1, RollbackTypes
        <3>2. QED BY <1>12, <2>1, <3>1 DEF DeadlockAbort, SessionTypes, TypeOK, venueVars
    <2>2. CASE tick' = IdleTick /\ rowLock' = Unlock(rowLock, Tick)
               /\ UNCHANGED <<row, userLock, tx>>
        BY <1>12, <2>2, UnlockType, NoRowType
        DEF DeadlockAbort, TypeOK, IdleTick, TickStep, venueVars
    <2>3. QED BY <1>12, <2>1, <2>2 DEF DeadlockAbort
<1>13. ASSUME Crash PROVE TypeOK'
    BY <1>13, NoRowType DEF Crash, TypeOK, IdleTick, TickStep, dbVars, venueVars
<1>14. ASSUME UNCHANGED vars PROVE TypeOK'
    BY <1>14 DEF vars, TypeOK
<1>15. QED
    BY <1>1, <1>2, <1>3, <1>4, <1>5, <1>6, <1>7, <1>8, <1>9, <1>10, <1>11, <1>12,
       <1>13, <1>14
    DEF Next

---------------------------------------------------------------------------
\* What a step must keep beside the types; the last part is FilledMonotone's.
FilledKept == \A o \in Orders : row'[o].filled >= row[o].filled

\* Only the commit of a sweep changes filled_size.
OnlySweepFills == TickCommit \/ \A o \in Orders : row'[o].filled = row[o].filled

Preserved ==
    /\ CopiesAgree' /\ AtMostOneExecution' /\ FilledNeverAheadOfVenue'
    /\ FilledKept /\ OnlySweepFills

\* A row keeps what the invariant reads of it.
SameRow(o) ==
    /\ row'[o].nonce = row[o].nonce
    /\ row'[o].filled = row[o].filled
    /\ (row'[o].status = "absent") <=> (row[o].status = "absent")

\* A request's transaction ended, or went on with the copy it had.
SameRequest(r) ==
    tx'[r] # NoTx =>
        /\ tx[r] # NoTx
        /\ tx'[r].order = tx[r].order
        /\ tx'[r].base.nonce = tx[r].base.nonce
        /\ tx'[r].base.filled = tx[r].base.filled
        /\ tx'[r].view.nonce = tx[r].view.nonce
        /\ tx'[r].view.filled = tx[r].view.filled
        /\ tx'[r].view.status # "absent"

\* The sweep ended, or went on with the copies it had.
SameTick ==
    tick'.at # "idle" =>
        /\ tick.at # "idle"
        /\ tick'.base = tick.base
        /\ tick'.view = tick.view
        /\ tick'.listing = tick.listing
        /\ tick'.todo \subseteq tick.todo

\* The venue placed nothing; it may have filled more.
SameVenue ==
    /\ execs' = execs
    /\ used \subseteq used'
    /\ \A o \in Orders : venue'[o].filled >= venue[o].filled

\* Most steps leave everything the invariant speaks of as it is.
LEMMA Frame ==
    ASSUME Inductive, TypeOK',
           \A o \in Orders : SameRow(o),
           \A r \in Requests : SameRequest(r),
           SameTick,
           SameVenue
    PROVE  Preserved
<1> USE DEF Inductive
<1>1. \A o \in Orders : /\ row[o].filled \in Nat /\ row'[o].filled \in Nat
                        /\ venue[o].filled \in Nat /\ venue'[o].filled \in Nat
                        /\ tick.view[o].filled \in Nat /\ tick.listing[o] \in Nat
    BY DEF TypeOK, Row
<1>2. \A o \in Orders : RowAgrees(o)'
    BY DEF CopiesAgree, RowAgrees, SameRow, SameVenue
<1>3. ASSUME NEW r \in Requests, tx'[r] # NoTx PROVE RequestAgrees(r)'
    <2>1. tx[r] # NoTx /\ RequestAgrees(r) /\ SameRequest(r)
        BY <1>3 DEF SameRequest, CopiesAgree
    <2>2. tx[r].order \in Orders
        BY <2>1, NoTxIsIdle DEF TypeOK
    <2>3. QED BY <1>3, <2>1, <2>2 DEF RequestAgrees, SameRequest, SameRow
<1>4. ASSUME tick'.at # "idle", NEW o \in Orders PROVE TickAgrees(o)'
    <2>1. tick.at # "idle" /\ TickAgrees(o) /\ SameRow(o)
        BY <1>4 DEF SameTick, CopiesAgree
    <2>2. QED BY <1>1, <1>4, <2>1 DEF TickAgrees, SameTick, SameRow, SameVenue
<1>5. CopiesAgree'
    BY <1>2, <1>3, <1>4 DEF CopiesAgree
<1>6. AtMostOneExecution'
    BY DEF AtMostOneExecution, SameVenue
<1>7. FilledNeverAheadOfVenue' /\ FilledKept /\ OnlySweepFills
    BY <1>1 DEF FilledNeverAheadOfVenue, FilledKept, OnlySweepFills, SameRow, SameVenue
<1>8. QED BY <1>5, <1>6, <1>7 DEF Preserved

\* A commit that changes neither the nonce nor filled_size is such a step.
LEMMA CommitFrame ==
    ASSUME Inductive, TypeOK', NEW r \in Requests, tx[r] # NoTx, NEW v \in Row,
           v.nonce = tx[r].view.nonce, v.filled = tx[r].view.filled,
           v.status # "absent",
           CommitRequest(r, v)
    PROVE  /\ \A o \in Orders : SameRow(o)
           /\ \A q \in Requests : SameRequest(q)
<1> USE DEF Inductive
<1>1. tx[r] \in Tx /\ tx[r].order \in Orders /\ RequestAgrees(r)
    BY NoTxIsIdle DEF TypeOK, CopiesAgree
<1>2. ASSUME NEW o \in Orders PROVE SameRow(o)
    <2>1. CASE o = tx[r].order
        <3>1. row'[o] = Merge(row[o], tx[r].base, v)
            BY <2>1 DEF CommitRequest, TypeOK
        <3>2. QED BY <1>1, <2>1, <3>1, MergeColumns DEF SameRow, RequestAgrees
    <2>2. CASE o # tx[r].order
        BY <2>2 DEF CommitRequest, TypeOK, SameRow
    <2>3. QED BY <2>1, <2>2
<1>3. ASSUME NEW q \in Requests PROVE SameRequest(q)
    BY DEF CommitRequest, SameRequest, TypeOK, CopiesAgree, RequestAgrees
<1>4. QED BY <1>2, <1>3

\* Leaving the rows and the requests alone, and rolling a request back.
LEMMA SameRows == ASSUME UNCHANGED row PROVE \A o \in Orders : SameRow(o)
BY DEF SameRow

LEMMA SameRequests ==
    ASSUME CopiesAgree, UNCHANGED tx PROVE \A r \in Requests : SameRequest(r)
BY DEF SameRequest, CopiesAgree, RequestAgrees

LEMMA RollbackFrame ==
    ASSUME TypeOK, CopiesAgree, NEW r \in Requests, RollbackRequest(r)
    PROVE  /\ \A o \in Orders : SameRow(o)
           /\ \A q \in Requests : SameRequest(q)
BY DEF RollbackRequest, SameRow, SameRequest, TypeOK, CopiesAgree, RequestAgrees

LEMMA SameVenues ==
    ASSUME TypeOK, UNCHANGED <<venue, used, execs>> PROVE SameVenue
<1>1. \A o \in Orders : venue[o].filled \in Nat
    BY DEF TypeOK
<1>2. QED BY <1>1 DEF SameVenue

---------------------------------------------------------------------------
\* A transaction begins on the row as committed.
LEMMA BeginPreserves ==
    ASSUME Inductive, TypeOK', NEW r \in Requests, NEW o \in Orders, NEW step \in RequestStep,
           row[o].status # "absent", Begin(r, o, step),
           UNCHANGED <<row, tick, venue, used, execs>>
    PROVE  Preserved
<1> USE DEF Inductive
<1>1. /\ tx'[r].order = o /\ tx'[r].base = row[o] /\ tx'[r].view = row[o]
      /\ \A q \in Requests \ {r} : tx'[q] = tx[q]
    BY DEF Begin, TypeOK
<1>2. \A q \in Requests : tx'[q] # NoTx => RequestAgrees(q)'
    BY <1>1 DEF RequestAgrees, CopiesAgree
<1>3. CopiesAgree'
    BY <1>2 DEF CopiesAgree, RowAgrees, TickAgrees
<1>4. \A q \in Orders : row[q].filled \in Nat
    BY DEF TypeOK, Row
<1>5. QED
    BY <1>3, <1>4
    DEF Preserved, AtMostOneExecution, FilledNeverAheadOfVenue, FilledKept, OnlySweepFills

\* The venue places an order only for an unused nonce, and every nonce of a
\* placed order is used: so it was not placed before.
LEMMA PostPreserves ==
    ASSUME Inductive, TypeOK', NEW r \in Requests, SubmitPost(r)
    PROVE  Preserved
<1> USE DEF Inductive
<1> DEFINE o == tx[r].order
<1>1. tx[r] \in Tx /\ tx[r] # NoTx /\ o \in Orders /\ RequestAgrees(r)
    BY AtStep, NoTxIsIdle DEF SubmitPost, RequestStep, CopiesAgree
<1>2. PICK placed \in BOOLEAN : \E answer \in ReportOf(placed) :
          /\ placed => tx[r].view.nonce \notin used
          /\ Answered(r, "answer", answer)
          /\ venue' = IF placed THEN [venue EXCEPT ![o] = [@ EXCEPT !.state = "open"]]
                                ELSE venue
          /\ used' = IF placed THEN used \cup {tx[r].view.nonce} ELSE used
          /\ execs' = IF placed THEN [execs EXCEPT ![o] = @ + 1] ELSE execs
    BY DEF SubmitPost
<1>3. UNCHANGED <<row, tick>>
    BY DEF SubmitPost, dbVars
<1>4. \A q \in Requests : SameRequest(q)
    BY <1>1, <1>2 DEF Answered, SameRequest, TypeOK, CopiesAgree, RequestAgrees, Tx
<1>5. \A q \in Orders : venue'[q].filled = venue[q].filled
    BY <1>1, <1>2 DEF TypeOK
<1>6. \A q \in Orders : execs[q] \in Nat /\ row[q].filled \in Nat /\ row[q].nonce \in Nat
    BY DEF TypeOK, Row
<1>7. placed => execs[o] = 0
    BY <1>1, <1>2, <1>6 DEF RequestAgrees, CopiesAgree, RowAgrees
<1>8. \A q \in Orders : RowAgrees(q)'
    BY <1>1, <1>2, <1>3, <1>6 DEF CopiesAgree, RowAgrees, RequestAgrees, TypeOK
<1>9. ASSUME NEW q \in Requests, tx'[q] # NoTx PROVE RequestAgrees(q)'
    <2>1. tx[q] # NoTx /\ RequestAgrees(q) /\ SameRequest(q)
        BY <1>4, <1>9 DEF SameRequest, CopiesAgree
    <2>2. QED BY <1>3, <1>9, <2>1 DEF RequestAgrees, SameRequest
<1>10. tick'.at # "idle" => \A q \in Orders : TickAgrees(q)'
    BY <1>3, <1>5 DEF CopiesAgree, TickAgrees
<1>11. AtMostOneExecution'
    BY <1>1, <1>2, <1>6, <1>7 DEF AtMostOneExecution, TypeOK
<1>12. FilledNeverAheadOfVenue' /\ FilledKept /\ OnlySweepFills
    BY <1>3, <1>5, <1>6 DEF FilledNeverAheadOfVenue, FilledKept, OnlySweepFills
<1>13. QED BY <1>8, <1>9, <1>10, <1>11, <1>12 DEF Preserved, CopiesAgree

\* The steps of a request that has begun.
LEMMA RequestPreserves ==
    ASSUME Inductive, TypeOK', NEW r \in Requests, RequestContinues(r)
    PROVE  Preserved
<1> USE DEF Inductive
<1> DEFINE Frames == (\A o \in Orders : SameRow(o)) /\ (\A q \in Requests : SameRequest(q))
<1>1. ASSUME tx[r] \in Tx, tx[r] # NoTx, NEW s \in Status \ {"absent"},
             CommitRequest(r, [tx[r].view EXCEPT !.status = s])
      PROVE  Frames
    <2>1. tx[r].view \in Row
        BY <1>1, NoTxIsIdle
    <2>2. [tx[r].view EXCEPT !.status = s] \in Row
        BY <2>1 DEF Row
    <2>3. QED BY <1>1, <2>1, <2>2, CommitFrame DEF Row
<1>2. ASSUME tx[r] \in Tx, tx[r] # NoTx, CommitRequest(r, tx[r].view) PROVE Frames
    <2>1. tx[r].view \in Row /\ tx[r].view.status # "absent"
        BY <1>2, NoTxIsIdle DEF CopiesAgree, RequestAgrees
    <2>2. QED BY <1>2, <2>1, CommitFrame
<1>3. {"acked", "rejected", "cancelled"} \subseteq Status \ {"absent"}
    BY DEF Status, Terminal, Reconcilable
<1>4. CASE SubmitReject(r)
    <2>1. tx[r] \in Tx /\ tx[r] # NoTx
        BY <1>4, AtStep DEF SubmitReject, RequestStep
    <2>2. Frames
        BY <1>1, <1>3, <1>4, <2>1 DEF SubmitReject
    <2>3. SameTick /\ SameVenue
        BY <1>4, SameVenues DEF SubmitReject, SameTick, venueVars
    <2>4. QED BY <2>2, <2>3, Frame
<1>5. CASE SubmitSign(r)
    <2>1. tx[r] \in Tx /\ tx[r] # NoTx
        BY <1>5, AtStep DEF SubmitSign, RequestStep
    <2>2. Frames
        BY <1>5, <2>1, SameRows
        DEF SubmitSign, LockRowAndSet, dbVars, SameRequest, TypeOK, CopiesAgree, RequestAgrees,
            Tx, Row
    <2>3. SameTick /\ SameVenue
        BY <1>5, SameVenues DEF SubmitSign, SameTick, venueVars
    <2>4. QED BY <2>2, <2>3, Frame
<1>6. CASE SubmitPost(r)
    BY <1>6, PostPreserves
<1>7. CASE SubmitAnswer(r)
    <2>1. tx[r] \in Tx /\ tx[r] # NoTx
        BY <1>7, AtStep DEF SubmitAnswer, RequestStep
    <2>2. Frames
        BY <1>1, <1>2, <1>3, <1>7, <2>1, RollbackFrame DEF SubmitAnswer
    <2>3. SameTick /\ SameVenue
        BY <1>7, SameVenues DEF SubmitAnswer, SameTick, venueVars
    <2>4. QED BY <2>2, <2>3, Frame
<1>8. CASE CancelLocally(r)
    <2>1. tx[r] \in Tx /\ tx[r] # NoTx
        BY <1>8, AtStep DEF CancelLocally, RequestStep
    <2>2. Frames
        BY <1>1, <1>3, <1>8, <2>1 DEF CancelLocally
    <2>3. SameTick /\ SameVenue
        BY <1>8, SameVenues DEF CancelLocally, SameTick, venueVars
    <2>4. QED BY <2>2, <2>3, Frame
<1>9. CASE PrepareCancelLockUser(r)
    <2>1. tx[r] \in Tx /\ tx[r] # NoTx
        BY <1>9, AtStep DEF PrepareCancelLockUser, RequestStep
    <2>2. Frames
        BY <1>9, <2>1, SameRows
        DEF PrepareCancelLockUser, SameRequest, TypeOK, CopiesAgree, RequestAgrees, Tx, Row
    <2>3. SameTick /\ SameVenue
        BY <1>9, SameVenues DEF PrepareCancelLockUser, SameTick, venueVars
    <2>4. QED BY <2>2, <2>3, Frame
<1>10. CASE PrepareCancelFlush(r)
    <2>1. tx[r] \in Tx /\ tx[r] # NoTx
        BY <1>10, AtStep DEF PrepareCancelFlush, RequestStep
    <2>2. Frames
        BY <1>2, <1>10, <2>1 DEF PrepareCancelFlush
    <2>3. SameTick /\ SameVenue
        BY <1>10, SameVenues DEF PrepareCancelFlush, SameTick, venueVars
    <2>4. QED BY <2>2, <2>3, Frame
<1>11. CASE SubmitCancelSign(r)
    <2>1. tx[r] \in Tx /\ tx[r] # NoTx
        BY <1>11, AtStep DEF SubmitCancelSign, RequestStep
    <2>2. Frames
        BY <1>11, <2>1, SameRows
        DEF SubmitCancelSign, LockRowAndSet, dbVars, SameRequest, TypeOK, CopiesAgree,
            RequestAgrees, Tx, Row
    <2>3. SameTick /\ SameVenue
        BY <1>11, SameVenues DEF SubmitCancelSign, SameTick, venueVars
    <2>4. QED BY <2>2, <2>3, Frame
<1>12. CASE SubmitCancelPost(r)
    <2>1. tx[r] \in Tx /\ tx[r] # NoTx /\ tx[r].order \in Orders
        BY <1>12, AtStep, NoTxIsIdle DEF SubmitCancelPost, RequestStep
    <2>2. PICK done \in BOOLEAN, answer \in Answer :
              /\ Answered(r, "answer_cancel", answer)
              /\ venue' = IF done THEN [venue EXCEPT ![tx[r].order] =
                                            [@ EXCEPT !.state = "cancelled"]]
                                  ELSE venue
              /\ used' = IF done THEN used \cup {tx[r].view.cnonce} ELSE used
        BY <1>12 DEF SubmitCancelPost, ReportOf, Answer
    <2>3. UNCHANGED <<row, tick, execs>>
        BY <1>12 DEF SubmitCancelPost, dbVars
    <2>4. Frames
        BY <2>1, <2>2, <2>3, SameRows
        DEF Answered, SameRequest, TypeOK, CopiesAgree, RequestAgrees, Tx
    <2>5. \A o \in Orders : venue'[o].filled = venue[o].filled /\ venue[o].filled \in Nat
        BY <2>1, <2>2 DEF TypeOK
    <2>6. SameTick /\ SameVenue
        BY <2>2, <2>3, <2>5 DEF SameTick, SameVenue
    <2>7. QED BY <2>4, <2>6, Frame
<1>13. CASE SubmitCancelAnswer(r)
    <2>1. tx[r] \in Tx /\ tx[r] # NoTx
        BY <1>13, AtStep DEF SubmitCancelAnswer, RequestStep
    <2>2. Frames
        BY <1>1, <1>2, <1>3, <1>13, <2>1, RollbackFrame DEF SubmitCancelAnswer
    <2>3. SameTick /\ SameVenue
        BY <1>13, SameVenues DEF SubmitCancelAnswer, SameTick, venueVars
    <2>4. QED BY <2>2, <2>3, Frame
<1>14. QED
    BY <1>4, <1>5, <1>6, <1>7, <1>8, <1>9, <1>10, <1>11, <1>12, <1>13 DEF RequestContinues

\* The steps of the sweep that has begun.
LEMMA TickPreserves ==
    ASSUME Inductive, TypeOK', TickContinues
    PROVE  Preserved
<1> USE DEF Inductive
<1>1. \A o \in Orders : /\ row[o].filled \in Nat /\ row[o].nonce \in Nat
                        /\ venue[o].filled \in Nat
                        /\ tick.view[o].filled \in Nat /\ tick.base[o].filled \in Nat
                        /\ tick.listing[o] \in Nat
    BY DEF TypeOK, Row
<1>2. CASE TickList
    <2>1. UNCHANGED <<row, tx, venue, used, execs>>
        BY <1>2 DEF TickList, ListAndMark, dbVars, venueVars
    <2>2. /\ tick.at # "idle"
          /\ tick'.base = tick.base /\ tick'.view = tick.view
          /\ \A o \in Orders : tick'.listing[o] = Listed(o)
          /\ \A o \in tick'.todo : /\ Listed(o) > tick.view[o].filled
                                   /\ tick.view[o].status # "absent"
        BY <1>2 DEF TickList, ListAndMark, TypeOK, Reconcilable
    <2>3. ASSUME NEW o \in Orders PROVE TickAgrees(o)'
        <3>1. TickAgrees(o) /\ Listed(o) <= venue[o].filled
            BY <1>1, <2>2 DEF CopiesAgree, Listed
        <3>2. QED BY <2>1, <2>2, <3>1 DEF TickAgrees
    <2>4. QED
        BY <1>1, <2>1, <2>3
        DEF Preserved, CopiesAgree, RowAgrees, RequestAgrees, AtMostOneExecution,
            FilledNeverAheadOfVenue, FilledKept, OnlySweepFills
<1>3. CASE TickHttpError
    <2>1. SameTick
        BY <1>3 DEF TickHttpError, SameTick, TypeOK
    <2>2. QED
        BY <1>3, <2>1, SameRows, SameRequests, SameVenues, Frame
        DEF TickHttpError, dbVars, venueVars
<1>4. CASE \E o \in Orders : TickFold(o)
    <2>1. PICK o \in Orders : TickFold(o)
        BY <1>4
    <2>2. UNCHANGED <<row, tx, venue, used, execs>>
        BY <2>1 DEF TickFold, Fold, dbVars, venueVars
    <2>3. /\ tick.at # "idle" /\ o \in tick.todo
          /\ tick'.base = tick.base /\ tick'.listing = tick.listing
          /\ tick'.todo = tick.todo \ {o}
          /\ tick'.view[o].filled = tick.listing[o]
          /\ tick'.view[o].nonce = tick.view[o].nonce
          /\ tick'.view[o].status # "absent"
          /\ \A q \in Orders \ {o} : tick'.view[q] = tick.view[q]
        <3> DEFINE v == [tick.view[o] EXCEPT !.filled = tick.listing[o],
                                             !.status = FillStatus(tick.listing[o])]
        <3>1. /\ tick.at = "folding" /\ o \in tick.todo
              /\ tick'.base = tick.base /\ tick'.listing = tick.listing
              /\ tick'.todo = tick.todo \ {o}
            BY <2>1 DEF TickFold, Fold, TypeOK
        <3>2. tick'.view = [tick.view EXCEPT ![o] = v]
            BY <2>1 DEF TickFold, Fold, TypeOK
        <3>3. /\ v.filled = tick.listing[o] /\ v.nonce = tick.view[o].nonce
              /\ v.status # "absent"
            BY DEF FillStatus, TypeOK, Row
        <3>4. QED BY <3>1, <3>2, <3>3 DEF TypeOK
    <2>4. ASSUME NEW q \in Orders PROVE TickAgrees(q)'
        <3>1. TickAgrees(q)
            BY <2>3 DEF CopiesAgree
        <3>2. CASE q = o
            BY <1>1, <2>2, <2>3, <3>1, <3>2 DEF TickAgrees
        <3>3. CASE q # o
            BY <2>2, <2>3, <3>1, <3>3 DEF TickAgrees
        <3>4. QED BY <3>2, <3>3
    <2>5. QED
        BY <1>1, <2>2, <2>4
        DEF Preserved, CopiesAgree, RowAgrees, RequestAgrees, AtMostOneExecution,
            FilledNeverAheadOfVenue, FilledKept, OnlySweepFills
<1>5. CASE TickOpenPosition
    <2>1. SameTick
        BY <1>5 DEF TickOpenPosition, SameTick, TypeOK
    <2>2. QED
        BY <1>5, <2>1, SameRows, SameRequests, SameVenues, Frame
        DEF TickOpenPosition, dbVars, venueVars
<1>6. CASE TickBalances
    <2>1. SameTick
        BY <1>6 DEF TickBalances, SameTick, TypeOK
    <2>2. QED
        BY <1>6, <2>1, SameRows, SameRequests, SameVenues, Frame
        DEF TickBalances, dbVars, venueVars
<1>7. CASE TickCommit
    <2>1. UNCHANGED <<tx, venue, used, execs>> /\ tick.at # "idle" /\ tick'.at = "idle"
        BY <1>7 DEF TickCommit, venueVars, IdleTick
    <2>2. ASSUME NEW o \in Orders
          PROVE  /\ row'[o].nonce = row[o].nonce
                 /\ row'[o].filled = tick.view[o].filled
                 /\ row'[o].status = "absent" <=> row[o].status = "absent"
                 /\ TickAgrees(o)
        <3>1. TickAgrees(o)
            BY <2>1 DEF CopiesAgree
        <3>2. row'[o] = Merge(row[o], tick.base[o], tick.view[o])
            BY <1>7 DEF TickCommit
        <3>3. QED BY <3>1, <3>2, MergeColumns DEF TickAgrees
    <2>3. ASSUME NEW o \in Orders PROVE RowAgrees(o)'
        <3>1. RowAgrees(o) /\ TickAgrees(o)
            BY <2>2 DEF CopiesAgree
        <3>2. QED BY <2>1, <2>2, <3>1 DEF RowAgrees, TickAgrees
    <2>4. ASSUME NEW r \in Requests, tx[r] # NoTx PROVE RequestAgrees(r)'
        <3>1. tx[r].order \in Orders /\ RequestAgrees(r)
            BY <2>4, NoTxIsIdle DEF TypeOK, CopiesAgree
        <3>2. QED BY <2>1, <2>2, <3>1 DEF RequestAgrees
    <2>5. \A o \in Orders : row'[o].filled <= venue'[o].filled /\ row'[o].filled >= row[o].filled
        BY <1>1, <2>1, <2>2 DEF TickAgrees
    <2>6. QED
        BY <1>7, <2>1, <2>3, <2>4, <2>5
        DEF Preserved, CopiesAgree, AtMostOneExecution, FilledNeverAheadOfVenue, FilledKept,
            OnlySweepFills
<1>8. QED
    BY <1>2, <1>3, <1>4, <1>5, <1>6, <1>7 DEF TickContinues

---------------------------------------------------------------------------
\* Every step keeps the invariant and takes no fill back.
LEMMA StepPreserves == Inductive /\ [Next]_vars => TypeOK' /\ Preserved
<1> SUFFICES ASSUME Inductive, [Next]_vars PROVE Preserved
    BY TypeStep
<1> USE DEF Inductive
<1>0. TypeOK'
    BY TypeStep
<1>1. ASSUME NEW o \in Orders, PrepareNew(o) PROVE Preserved
    <2>1. /\ row[o].status = "absent" /\ row'[o].status = "pending" /\ row'[o].filled = 0
          /\ \A q \in Orders \ {o} : row'[q] = row[q]
          /\ UNCHANGED <<tx, tick, venue, used, execs>>
        BY <1>1 DEF PrepareNew, NoRow, TypeOK, venueVars
    <2>2. \A q \in Orders : row'[q].filled = row[q].filled /\ row[q].filled \in Nat
        BY <2>1 DEF CopiesAgree, RowAgrees, TypeOK, Row
    <2>3. \A q \in Orders : RowAgrees(q)'
        BY <2>1 DEF CopiesAgree, RowAgrees
    <2>4. ASSUME NEW r \in Requests, tx[r] # NoTx PROVE RequestAgrees(r)'
        <3>1. tx[r].order \in Orders /\ RequestAgrees(r)
            BY <2>4, NoTxIsIdle DEF TypeOK, CopiesAgree
        <3>2. tx[r].order # o
            BY <2>1, <3>1 DEF RequestAgrees
        <3>3. QED BY <2>1, <3>1, <3>2 DEF RequestAgrees
    <2>5. ASSUME tick.at # "idle", NEW q \in Orders PROVE TickAgrees(q)'
        BY <2>1, <2>2, <2>5 DEF CopiesAgree, TickAgrees
    <2>6. QED
        BY <2>1, <2>2, <2>3, <2>4, <2>5
        DEF Preserved, CopiesAgree, AtMostOneExecution, FilledNeverAheadOfVenue, FilledKept,
            OnlySweepFills
<1>2. ASSUME NEW r \in Requests, NEW o \in Orders,
             SubmitLoad(r, o) \/ PrepareCancelLoad(r, o) \/ SubmitCancelLoad(r, o)
      PROVE  Preserved
    <2>1. \E step \in RequestStep : Begin(r, o, step)
        BY <1>2 DEF SubmitLoad, PrepareCancelLoad, SubmitCancelLoad, RequestStep
    <2>2. row[o].status # "absent" /\ UNCHANGED <<row, tick, venue, used, execs>>
        BY <1>2
        DEF SubmitLoad, PrepareCancelLoad, SubmitCancelLoad, dbVars, venueVars, Reconcilable
    <2>3. QED BY <1>0, <2>1, <2>2, BeginPreserves
<1>3. ASSUME NEW r \in Requests, RequestContinues(r) PROVE Preserved
    BY <1>0, <1>3, RequestPreserves
<1>4. ASSUME TickLoad PROVE Preserved
    <2>1. UNCHANGED <<row, tx, venue, used, execs>>
        BY <1>4 DEF TickLoad, dbVars, venueVars
    <2>2. /\ tick'.base = row /\ tick'.view = row /\ tick'.todo = {}
          /\ \A o \in Orders : tick'.listing[o] = 0
        BY <1>4 DEF TickLoad, IdleTick
    <2>3. \A o \in Orders : row[o].filled \in Nat /\ venue[o].filled \in Nat
        BY DEF TypeOK, Row
    <2>4. \A o \in Orders : TickAgrees(o)'
        BY <2>1, <2>2, <2>3 DEF TickAgrees, FilledNeverAheadOfVenue
    <2>5. QED
        BY <2>1, <2>3, <2>4
        DEF Preserved, CopiesAgree, RowAgrees, RequestAgrees, AtMostOneExecution,
            FilledNeverAheadOfVenue, FilledKept, OnlySweepFills
<1>5. ASSUME TickContinues PROVE Preserved
    BY <1>0, <1>5, TickPreserves
<1>6. ASSUME Reap PROVE Preserved
    <2>1. \A o \in Orders : SameRow(o)
        BY <1>6 DEF Reap, Expire, SameRow, Overdue, TypeOK, Row
    <2>2. UNCHANGED <<tx, tick, venue, used, execs>>
        BY <1>6 DEF Reap, Expire, venueVars
    <2>3. QED BY <1>0, <2>1, <2>2, SameRequests, SameVenues, Frame DEF SameTick
<1>7. ASSUME NEW o \in Orders, NonceWindowCloses(o) PROVE Preserved
    <2>1. UNCHANGED <<row, tx, tick, venue, used, execs>>
        BY <1>7 DEF NonceWindowCloses, venueVars
    <2>2. QED BY <1>0, <2>1, SameRows, SameRequests, SameVenues, Frame DEF SameTick
<1>8. ASSUME NEW o \in Orders, VenueFill(o) \/ VenueRemoves(o) \/ VenueCloses(o)
      PROVE  Preserved
    <2>1. UNCHANGED <<row, tx, tick, used, execs>>
        BY <1>8 DEF VenueFill, VenueRemoves, VenueCloses, dbVars
    <2>2. \A q \in Orders : venue'[q].filled >= venue[q].filled
        BY <1>8 DEF VenueFill, VenueRemoves, VenueCloses, TypeOK
    <2>3. SameVenue /\ SameTick
        BY <2>1, <2>2 DEF SameVenue, SameTick
    <2>4. QED BY <1>0, <2>1, <2>3, SameRows, SameRequests, Frame
<1>9. ASSUME ExternalSell PROVE Preserved
    <2>1. UNCHANGED <<row, tx, tick, venue, used, execs>>
        BY <1>9 DEF ExternalSell, dbVars
    <2>2. QED BY <1>0, <2>1, SameRows, SameRequests, SameVenues, Frame DEF SameTick
<1>10. ASSUME NEW r \in Requests, DeadlockAbort(r) PROVE Preserved
    <2>1. UNCHANGED <<venue, used, execs>>
        BY <1>10 DEF DeadlockAbort, venueVars
    <2>2. SameTick
        BY <1>10 DEF DeadlockAbort, SameTick, IdleTick
    <2>3. (\A o \in Orders : SameRow(o)) /\ (\A q \in Requests : SameRequest(q))
        BY <1>10, RollbackFrame, SameRows, SameRequests DEF DeadlockAbort
    <2>4. QED BY <1>0, <2>1, <2>2, <2>3, SameVenues, Frame
<1>11. ASSUME Crash PROVE Preserved
    <2>1. UNCHANGED <<row, venue, used, execs>>
        BY <1>11 DEF Crash, dbVars, venueVars
    <2>2. SameTick /\ \A r \in Requests : SameRequest(r)
        BY <1>11 DEF Crash, SameTick, SameRequest, IdleTick
    <2>3. QED BY <1>0, <2>1, <2>2, SameRows, SameVenues, Frame
<1>12. ASSUME UNCHANGED vars PROVE Preserved
    BY <1>0, <1>12, SameRows, SameRequests, SameVenues, Frame DEF vars, SameTick
<1>13. QED
    BY <1>1, <1>2, <1>3, <1>4, <1>5, <1>6, <1>7, <1>8, <1>9, <1>10, <1>11, <1>12 DEF Next

---------------------------------------------------------------------------
\* The invariant, for every number of orders, requests and open transactions.
THEOREM InductiveInvariant == Spec => []Inductive
<1>1. Inductive /\ [Next]_vars => Inductive'
    BY StepPreserves DEF Inductive, Preserved
<1>2. QED BY InitInductive, <1>1, PTL DEF Spec

\* Type correctness, and with it that the sweep folds no negative delta and the
\* position never goes below nothing.
THEOREM TypeCorrect == Spec => []TypeOK
<1>1. Inductive => TypeOK
    BY DEF Inductive
<1>2. QED BY InductiveInvariant, <1>1, PTL

\* The copies open transactions hold agree with the committed rows on what the
\* merge at commit relies on (pipeline.py's and reconcile.py's stale loads).
THEOREM CopiesAlwaysAgree == Spec => []CopiesAgree
<1>1. Inductive => CopiesAgree
    BY DEF Inductive
<1>2. QED BY InductiveInvariant, <1>1, PTL

\* However submissions of an order are repeated, overlapped, rolled back or
\* crashed, the venue places it at most once (submit_new's stored nonce).
THEOREM PlacedAtMostOnce == Spec => []AtMostOneExecution
<1>1. Inductive => AtMostOneExecution
    BY DEF Inductive
<1>2. QED BY InductiveInvariant, <1>1, PTL

\* filled_size never claims more than the venue filled (reconcile.py).
THEOREM FilledIsReal == Spec => []FilledNeverAheadOfVenue
<1>1. Inductive => FilledNeverAheadOfVenue
    BY DEF Inductive
<1>2. QED BY InductiveInvariant, <1>1, PTL

\* No commit, however stale its copy, takes back a recorded fill.
THEOREM FillsNeverTakenBack == Spec => FilledMonotone
<1>1. Inductive /\ [Next]_vars => [\A o \in Orders : row'[o].filled >= row[o].filled]_vars
    BY StepPreserves DEF Preserved, FilledKept
<1>2. QED BY InductiveInvariant, <1>1, PTL DEF Spec, FilledMonotone

---------------------------------------------------------------------------
\* Fills and positions.  A sweep that has begun adds up as well: what it has in
\* hand for the positions, with what was written off before, is the total of
\* filled_size in its copies of the rows.
Filled(rows) == [o \in Orders |-> rows[o].filled]
Total(rows) == SumFunctionOnSet(Filled(rows), Orders)

SweepAddsUp ==
    /\ tick.at # "commit" => tick.writtenOff = 0
    /\ tick.at = "opening" => tick.pos = 0
    /\ tick.pos + tick.writtenOff + (IF tick.at = "opening" THEN tick.delta ELSE 0)
         + writtenOff = Total(tick.view)

AddsUp == FillsFoldedOnce /\ (tick.at # "idle" => SweepAddsUp)

LEMMA TotalSame ==
    ASSUME NEW rows, NEW rows2,
           \A o \in Orders : rows[o].filled \in Nat /\ rows2[o].filled = rows[o].filled
    PROVE  Total(rows2) = Total(rows)
BY OrdersAssumption, SumAgree DEF Total, Filled

LEMMA InitAddsUp == Init => AddsUp
<1> SUFFICES ASSUME Init PROVE AddsUp
    OBVIOUS
<1>1. \A o \in Orders : Filled(row)[o] = 0
    BY DEF Init, NoRow, Filled
<1>2. Total(row) = 0
    <2> DEFINE zero == [o \in Orders |-> 0]
    <2>1. \A T \in SUBSET Orders : IsFiniteSet(T)
        BY OrdersAssumption, FS_Subset
    <2> DEFINE P == {T \in SUBSET Orders : SumFunctionOnSet(Filled(row), T) = 0}
    <2>2. {} \in P
        BY SumEmpty
    <2>3. ASSUME NEW T \in SUBSET Orders, NEW o \in Orders \ T, T \in P PROVE T \cup {o} \in P
        <3>1. SumFunctionOnSet(Filled(row), T \cup {o})
                  = SumFunctionOnSet(Filled(row), T) + Filled(row)[o]
            BY <1>1, OrdersAssumption, SumAddElement
        <3>2. QED BY <1>1, <2>3, <3>1
    <2> HIDE DEF P
    <2>4. Orders \in P
        BY <2>2, <2>3, OrdersAssumption, SubsetInduction
    <2>5. QED BY <2>4 DEF P, Total
<1>3. QED BY <1>2 DEF Init, IdleTick, AddsUp, FillsFoldedOnce, Total, Filled

LEMMA TotalType ==
    ASSUME NEW rows, \A o \in Orders : rows[o].filled \in Nat
    PROVE  Total(rows) \in Nat
<1>1. \A o \in Orders : Filled(rows)[o] \in Nat
    BY DEF Filled
<1>2. QED BY <1>1, OrdersAssumption, SumType DEF Total

\* Folding one order's new fill moves the total by what its fill grew.
LEMMA FoldMovesTotal ==
    ASSUME TypeOK, NEW o \in Orders, TickFold(o)
    PROVE  Total(tick'.view) = Total(tick.view) - tick.view[o].filled + tick.listing[o]
<1> DEFINE v == [tick.view[o] EXCEPT !.filled = tick.listing[o],
                                     !.status = FillStatus(tick.listing[o])]
<1>1. tick'.view = [tick.view EXCEPT ![o] = v]
    BY DEF TickFold, Fold, TypeOK
<1>2. v.filled = tick.listing[o]
    BY DEF TypeOK, Row
<1>3. /\ \A q \in Orders : tick.view[q].filled \in Nat /\ tick.listing[q] \in Nat
      /\ tick'.view[o].filled = tick.listing[o]
      /\ \A q \in Orders \ {o} : tick'.view[q] = tick.view[q]
    BY <1>1, <1>2 DEF TypeOK, Row
<1>4. /\ \A q \in Orders : Filled(tick.view)[q] = tick.view[q].filled
      /\ \A q \in Orders : Filled(tick'.view)[q] = tick'.view[q].filled
      /\ \A q \in Orders : Filled(tick.view)[q] \in Int
      /\ \A q \in Orders \ {o} : Filled(tick'.view)[q] = Filled(tick.view)[q]
      /\ Filled(tick'.view)[o] \in Int
    BY <1>3 DEF Filled
<1> HIDE DEF v
<1>5. SumFunctionOnSet(Filled(tick'.view), Orders)
        = SumFunctionOnSet(Filled(tick.view), Orders) - Filled(tick.view)[o] + Filled(tick'.view)[o]
    BY <1>4, OrdersAssumption, SumUpdate
<1>6. QED BY <1>3, <1>4, <1>5 DEF Total

\* A step that leaves the position and filled_size alone keeps their balance.
LEMMA BalanceKept ==
    ASSUME TypeOK, FillsFoldedOnce, UNCHANGED <<pos, writtenOff>>,
           \A o \in Orders : row'[o].filled = row[o].filled
    PROVE  FillsFoldedOnce'
<1>1. Total(row') = Total(row)
    BY TotalSame DEF TypeOK, Row
<1>2. QED BY <1>1 DEF FillsFoldedOnce, Total, Filled

\* The steps of a sweep up to its commit.
LEMMA SweepKeepsAddingUp ==
    ASSUME Inductive, AddsUp, TypeOK', TickContinues, ~TickCommit
    PROVE  UNCHANGED <<row, pos, writtenOff>> /\ SweepAddsUp'
<1> USE DEF Inductive
<1>1. /\ \A o \in Orders : tick.view[o].filled \in Nat /\ tick.listing[o] \in Nat
      /\ tick.pos \in Nat /\ tick.writtenOff \in Nat /\ tick.delta \in Nat
      /\ writtenOff \in Nat /\ pos \in Nat
      /\ Total(tick.view) \in Nat
    BY TotalType DEF TypeOK, Row
<1>2. CASE TickList \/ TickHttpError
    <2>1. /\ UNCHANGED <<row, pos, writtenOff>>
          /\ tick.at \in {"loaded", "folding"} /\ tick'.at \in {"folding", "commit"}
          /\ tick'.pos = tick.pos /\ tick'.writtenOff = tick.writtenOff
          /\ tick'.view = tick.view
        BY <1>2 DEF TickList, ListAndMark, TickHttpError, dbVars, TypeOK
    <2>2. QED BY <1>1, <2>1 DEF AddsUp, SweepAddsUp
<1>3. ASSUME NEW o \in Orders, TickFold(o)
      PROVE  UNCHANGED <<row, pos, writtenOff>> /\ SweepAddsUp'
    <2> DEFINE delta == tick.listing[o] - tick.view[o].filled
    <2>1. /\ UNCHANGED <<row, pos, writtenOff>>
          /\ tick.at = "folding" /\ o \in tick.todo
          /\ tick'.at = IF tick.pos = 0 THEN "opening" ELSE "folding"
          /\ tick'.delta = delta
          /\ tick'.pos = IF tick.pos = 0 THEN 0 ELSE tick.pos + delta
          /\ tick'.writtenOff = tick.writtenOff
        BY <1>3 DEF TickFold, Fold, dbVars, TypeOK
    <2>2. tick.listing[o] > tick.view[o].filled
        BY <2>1 DEF CopiesAgree, TickAgrees
    <2>3. Total(tick'.view) = Total(tick.view) + delta /\ delta \in Nat
        BY <1>1, <1>3, <2>2, FoldMovesTotal
    <2>4. tick.pos + tick.writtenOff + writtenOff = Total(tick.view) /\ tick.writtenOff = 0
        BY <1>1, <2>1 DEF AddsUp, SweepAddsUp
    <2> HIDE DEF delta
    <2>5. QED BY <1>1, <2>1, <2>3, <2>4 DEF SweepAddsUp
<1>4. CASE TickOpenPosition
    <2>1. /\ UNCHANGED <<row, pos, writtenOff>>
          /\ tick.at = "opening" /\ tick'.at = "folding" /\ tick'.pos = tick.delta
          /\ tick'.view = tick.view /\ tick'.writtenOff = tick.writtenOff
        BY <1>4 DEF TickOpenPosition, dbVars, TypeOK
    <2>2. QED BY <1>1, <2>1 DEF AddsUp, SweepAddsUp
<1>5. CASE TickBalances
    <2>1. /\ UNCHANGED <<row, pos, writtenOff>>
          /\ tick.at = "folding" /\ tick'.at = "commit" /\ tick'.view = tick.view
          /\ tick'.pos = IF holding = 0 THEN 0 ELSE tick.pos
          /\ tick'.writtenOff = IF holding = 0 THEN tick.pos ELSE 0
        BY <1>5 DEF TickBalances, dbVars, TypeOK
    <2>2. QED BY <1>1, <2>1 DEF AddsUp, SweepAddsUp
<1>6. QED BY <1>2, <1>3, <1>4, <1>5 DEF TickContinues

LEMMA AddsUpStep == Inductive /\ AddsUp /\ [Next]_vars => AddsUp'
<1> SUFFICES ASSUME Inductive, AddsUp, [Next]_vars PROVE AddsUp'
    OBVIOUS
<1> USE DEF Inductive
<1>1. TypeOK' /\ (TickCommit \/ \A o \in Orders : row'[o].filled = row[o].filled)
    BY StepPreserves DEF Preserved, OnlySweepFills
<1>2. CASE TickCommit
    <2>1. /\ tick.at = "commit" /\ tick'.at = "idle"
          /\ pos' = tick.pos /\ writtenOff' = writtenOff + tick.writtenOff
        BY <1>2 DEF TickCommit, IdleTick
    <2>2. \A o \in Orders : row'[o].filled = tick.view[o].filled /\ tick.view[o].filled \in Nat
        BY <1>2, <2>1, MergeColumns DEF TickCommit, CopiesAgree, TickAgrees, TypeOK, Row
    <2>3. Total(row') = Total(tick.view)
        BY <2>2, TotalSame
    <2>4. pos' + writtenOff' = Total(row')
        BY <2>1, <2>3 DEF AddsUp, SweepAddsUp, TypeOK
    <2>5. QED BY <2>1, <2>4 DEF AddsUp, FillsFoldedOnce, Total, Filled
<1>3. CASE ~TickCommit /\ TickContinues
    BY <1>1, <1>3, SweepKeepsAddingUp, BalanceKept DEF AddsUp
<1>4. CASE TickLoad
    <2>1. /\ UNCHANGED <<row, pos, writtenOff>>
          /\ tick'.at = "loaded" /\ tick'.view = row /\ tick'.pos = pos /\ tick'.writtenOff = 0
        BY <1>4 DEF TickLoad, IdleTick, dbVars
    <2>2. pos \in Nat /\ writtenOff \in Nat /\ pos + writtenOff = Total(row)
        BY DEF AddsUp, FillsFoldedOnce, Total, Filled, TypeOK
    <2>3. SweepAddsUp'
        BY <2>1, <2>2 DEF SweepAddsUp
    <2>4. FillsFoldedOnce'
        BY <2>1, BalanceKept DEF AddsUp
    <2>5. QED BY <2>3, <2>4 DEF AddsUp
<1>5. CASE ~TickCommit /\ ~TickContinues /\ ~TickLoad
    <2> DEFINE Aside == UNCHANGED <<pos, writtenOff>> /\ (tick' = tick \/ tick'.at = "idle")
    <2>1. Aside
        <3>1. ASSUME NEW r \in Requests, RequestContinues(r) PROVE Aside
            BY <3>1 DEF RequestContinues, SubmitReject, SubmitSign, SubmitPost, SubmitAnswer,
                CancelLocally, PrepareCancelLockUser, PrepareCancelFlush, SubmitCancelSign,
                SubmitCancelPost, SubmitCancelAnswer, dbVars
        <3>2. ASSUME NEW r \in Requests, NEW o \in Orders,
                     SubmitLoad(r, o) \/ PrepareCancelLoad(r, o) \/ SubmitCancelLoad(r, o)
              PROVE  Aside
            BY <3>2 DEF SubmitLoad, PrepareCancelLoad, SubmitCancelLoad, dbVars
        <3>3. ASSUME NEW o \in Orders, PrepareNew(o) \/ NonceWindowCloses(o)
              PROVE  Aside
            BY <3>3 DEF PrepareNew, NonceWindowCloses
        <3>4. ASSUME NEW o \in Orders, VenueFill(o) \/ VenueRemoves(o) \/ VenueCloses(o)
              PROVE  Aside
            BY <3>4 DEF VenueFill, VenueRemoves, VenueCloses, dbVars
        <3>5. ASSUME Reap \/ ExternalSell \/ Crash \/ UNCHANGED vars PROVE Aside
            BY <3>5 DEF Reap, Expire, ExternalSell, Crash, dbVars, vars, IdleTick
        <3>6. ASSUME NEW r \in Requests, DeadlockAbort(r) PROVE Aside
            BY <3>6 DEF DeadlockAbort, IdleTick
        <3> HIDE DEF Aside
        <3>7. QED BY <1>5, <3>1, <3>2, <3>3, <3>4, <3>5, <3>6 DEF Next
    <2>2. FillsFoldedOnce'
        BY <1>1, <1>5, <2>1, BalanceKept DEF AddsUp
    <2>3. QED BY <2>1, <2>2 DEF AddsUp, SweepAddsUp
<1>6. QED BY <1>2, <1>3, <1>4, <1>5

\* Every recorded fill went into the position exactly once, whatever other
\* transactions committed during the sweep and however many sweeps were rolled
\* back: what is open and what was written off is what the orders have filled.
THEOREM FillsAlwaysFoldedOnce == Spec => []FillsFoldedOnce
<1>1. AddsUp => FillsFoldedOnce
    BY DEF AddsUp
<1>2. QED BY InductiveInvariant, InitAddsUp, AddsUpStep, <1>1, PTL DEF Spec

---------------------------------------------------------------------------
\* One transaction at a time.  The copy a transaction holds is then the row as
\* committed, and where a request is tells what it has changed in its copy.
Acked == {"acked", "partially_filled"}

Fits(t) ==
    /\ t.view.filled = t.base.filled
    /\ t.at \in {"reject", "sign", "cancel_local"} =>
          t.view = t.base /\ t.base.status = "pending"
    /\ t.at \in {"post", "answer"} =>
          /\ t.base.status = "pending" /\ t.view.status = "submitted"
          /\ t.view.cnonce = t.base.cnonce /\ t.view.csig = t.base.csig
    /\ t.at \in {"lock_user", "sign_cancel"} => t.view = t.base /\ t.base.status \in Acked
    /\ t.at \in {"flush", "post_cancel", "answer_cancel"} =>
          /\ t.view.status = t.base.status /\ t.base.status \in Acked
          /\ t.view.csig \in {0, t.view.cnonce}

\* Only an order the venue acknowledged has a cancel payload, and a cancel
\* signature signs the payload beside it.
CancelFits(c) ==
    /\ c.cnonce # 0 => c.status \notin {"absent", "pending", "submitted"}
    /\ c.csig \in {0, c.cnonce}

\* What the sweep made of its copy of a row: nothing, or one fill.
Refilled(base, view) ==
    /\ base.status \in Reconcilable
    /\ view.filled \in base.filled + 1 .. Size /\ view.status = FillStatus(view.filled)

TickFits(o) ==
    LET base == tick.base[o]  view == tick.view[o] IN
    /\ base = row[o] /\ view.cnonce = base.cnonce /\ view.csig = base.csig
    /\ (view.status = base.status /\ view.filled = base.filled) \/ Refilled(base, view)
    /\ tick.at = "loaded" => view = base
    /\ o \in tick.todo => base.status \in Reconcilable /\ view = base
    /\ tick.listing[o] <= Size

Alone ==
    \A r \in Requests : tx[r] # NoTx =>
        tick.at = "idle" /\ \A q \in Requests \ {r} : tx[q] = NoTx

Serial ==
    /\ Alone
    /\ \A r \in Requests : tx[r] # NoTx => tx[r].base = row[tx[r].order] /\ Fits(tx[r])
    /\ \A o \in Orders : CancelFits(row[o])
    /\ tick.at # "idle" => \A o \in Orders : TickFits(o)
    /\ \A o \in Orders : venue[o].filled <= Size

\* What one step does to the row of an order, as OrderStatusMachine has it.
Advances(old, new) ==
    \/ new.status = old.status /\ new.filled = old.filled
    \/ new.status \in Machine!Successors(old.status) /\ new.filled = old.filled
    \/ Refilled(old, new)

RowsAdvance == \A o \in Orders : Advances(row[o], row'[o])

LEMMA InitSerial == Init => Serial
<1> SUFFICES ASSUME Init PROVE Serial
    OBVIOUS
<1>1. tick.at = "idle" /\ \A r \in Requests : tx[r] = NoTx
    BY DEF Init, IdleTick
<1>2. \A o \in Orders : CancelFits(row[o])
    BY DEF Init, NoRow, CancelFits
<1>3. \A o \in Orders : venue[o].filled <= Size
    BY SizeAssumption DEF Init
<1>4. QED BY <1>1, <1>2, <1>3 DEF Serial, Alone

\* The steps that map to each kind of step of the machine.
LEMMA InitMaps == Init => Machine!Init
BY DEF Init, Machine!Init, NoRow

LEMMA AdvanceMaps ==
    ASSUME Inductive, TypeOK', RowsAdvance
    PROVE  Machine!Next
<1> DEFINE status == [o \in Orders |-> row[o].status]
           filled == [o \in Orders |-> row[o].filled]
<1> SUFFICES ASSUME NEW o \in Orders
             PROVE  Machine!Keep(o) \/ Machine!MoveStatus(o) \/ Machine!Fill(o)
    BY DEF Machine!Next
<1>1. Advances(row[o], row'[o])
    BY DEF RowsAdvance
<1>2. row'[o].filled \in Nat /\ Size \in Nat
    BY SizeAssumption DEF TypeOK, Row
<1>3. CASE row'[o].status = row[o].status /\ row'[o].filled = row[o].filled
    BY <1>3 DEF Machine!Keep
<1>4. CASE row'[o].status \in Machine!Successors(row[o].status)
           /\ row'[o].filled = row[o].filled
    BY <1>4 DEF Machine!MoveStatus
<1>5. CASE Refilled(row[o], row'[o])
    BY <1>2, <1>5 DEF Refilled, FillStatus, Reconcilable, Machine!Fill
<1>6. QED BY <1>1, <1>3, <1>4, <1>5 DEF Advances

---------------------------------------------------------------------------
\* The kinds of steps.  A transaction begins only when none is open.
LEMMA NothingOpen ==
    ASSUME MaxOpen <= 1, Alone, MayBegin
    PROVE  tick.at = "idle" /\ \A r \in Requests : tx[r] = NoTx
<1> DEFINE busy == IF tick.at = "idle" THEN 0 ELSE 1
<1>1. Cardinality(OpenRequests) + busy < MaxOpen /\ MaxOpen \in Nat
    BY BoundAssumption DEF MayBegin
<1>2. CASE OpenRequests = {}
    BY <1>1, <1>2, FS_EmptySet DEF OpenRequests
<1>3. CASE OpenRequests # {}
  <2>1. PICK r \in Requests : tx[r] # NoTx
      BY <1>3 DEF OpenRequests
  <2>2. OpenRequests = {r}
      BY <2>1 DEF Alone, OpenRequests
  <2>3. Cardinality(OpenRequests) = 1
      BY <2>2, FS_Singleton
  <2>4. QED BY <1>1, <2>3
<1>4. QED BY <1>2, <1>3

\* A step that changes no row and leaves request r with transaction t.
LEMMA RequestKind ==
    ASSUME Inductive, Serial, NEW r \in Requests, NEW t \in Tx,
           tx' = [tx EXCEPT ![r] = t], UNCHANGED <<row, tick>>,
           tick.at = "idle", \A q \in Requests \ {r} : tx[q] = NoTx,
           t.base = row[t.order], Fits(t),
           \A o \in Orders : venue'[o].filled <= Size
    PROVE  Serial' /\ RowsAdvance
<1>1. tx'[r] = t /\ \A q \in Requests \ {r} : tx'[q] = NoTx
    BY DEF Inductive, TypeOK
<1>2. Alone'
    BY <1>1 DEF Alone
<1>3. \A q \in Requests : tx'[q] # NoTx => tx'[q].base = row'[tx'[q].order] /\ Fits(tx'[q])
    BY <1>1
<1>4. RowsAdvance
    BY DEF RowsAdvance, Advances
<1>5. QED BY <1>2, <1>3, <1>4 DEF Serial

\* A step that changes no row and opens no transaction, though it may end some.
LEMMA QuietKind ==
    ASSUME Inductive, Serial, UNCHANGED row, \A r \in Requests : tx'[r] \in {tx[r], NoTx},
           tick' = tick \/ tick'.at = "idle", \A o \in Orders : venue'[o].filled <= Size
    PROVE  Serial' /\ RowsAdvance
<1>1. Alone'
    BY DEF Serial, Alone
<1>2. ASSUME NEW r \in Requests, tx'[r] # NoTx
      PROVE  tx'[r].base = row'[tx'[r].order] /\ Fits(tx'[r])
    BY <1>2 DEF Serial
<1>3. tick'.at # "idle" => \A o \in Orders : TickFits(o)'
    BY DEF Serial, TickFits
<1>4. RowsAdvance
    BY DEF RowsAdvance, Advances
<1>5. QED BY <1>1, <1>2, <1>3, <1>4 DEF Serial

\* A request commits v.
LEMMA CommitKind ==
    ASSUME Inductive, Serial, NEW r \in Requests, tx[r] # NoTx, NEW v \in Row,
           CommitRequest(r, v), UNCHANGED <<tick, venue>>,
           CancelFits(v), Advances(tx[r].base, v)
    PROVE  Serial' /\ RowsAdvance
<1> DEFINE o == tx[r].order
<1>1. tx[r] \in Tx /\ o \in Orders /\ tx[r].base \in Row /\ row \in [Orders -> Row]
    BY NoTxIsIdle DEF Inductive, TypeOK
<1>2. tx[r].base = row[o] /\ tick.at = "idle" /\ \A q \in Requests \ {r} : tx[q] = NoTx
    BY DEF Serial, Alone
<1>3. Merge(row[o], tx[r].base, v) = v
    BY <1>1, <1>2 DEF Merge, Column, Row
<1>4. /\ row'[o] = v /\ \A q \in Orders \ {o} : row'[q] = row[q]
      /\ \A q \in Requests : tx'[q] = NoTx
    BY <1>1, <1>2, <1>3 DEF CommitRequest, Inductive, TypeOK
<1>5. Alone' /\ \A q \in Orders : CancelFits(row'[q])
    BY <1>4 DEF Alone, Serial
<1>6. RowsAdvance
    BY <1>2, <1>4 DEF RowsAdvance, Advances
<1>7. QED BY <1>2, <1>4, <1>5, <1>6 DEF Serial

\* The sweep goes on, or begins, with copies that fit.
LEMMA TickKind ==
    ASSUME Inductive, Serial, UNCHANGED <<row, tx, venue>>,
           \A r \in Requests : tx[r] = NoTx, \A o \in Orders : TickFits(o)'
    PROVE  Serial' /\ RowsAdvance
BY DEF Serial, Alone, RowsAdvance, Advances

\* Rows are written by a step that is a transaction of its own.
LEMMA WriteKind ==
    ASSUME Inductive, Serial, MaxOpen <= 1, MayBegin, UNCHANGED <<tx, tick, venue>>,
           \A o \in Orders : CancelFits(row'[o]), RowsAdvance
    PROVE  Serial'
<1>1. tick.at = "idle" /\ \A r \in Requests : tx[r] = NoTx
    BY NothingOpen DEF Serial
<1>2. QED BY <1>1 DEF Serial, Alone

---------------------------------------------------------------------------
\* A transaction begins.
LEMMA BeginSerial ==
    ASSUME Inductive, Serial, MaxOpen <= 1, NEW r \in Requests, NEW o \in Orders,
           NEW step \in {"reject", "sign", "cancel_local", "lock_user", "sign_cancel"},
           Begin(r, o, step), UNCHANGED <<row, tick, venue>>,
           IF step \in {"lock_user", "sign_cancel"} THEN row[o].status \in Acked
                                                    ELSE row[o].status = "pending"
    PROVE  Serial' /\ RowsAdvance
<1> DEFINE t == [at |-> step, order |-> o, base |-> row[o], view |-> row[o], answer |-> "none"]
<1>1. t \in Tx /\ tx' = [tx EXCEPT ![r] = t]
    BY DEF Begin, Inductive, TypeOK, Tx, RequestStep, Answer
<1>2. tick.at = "idle" /\ \A q \in Requests : tx[q] = NoTx
    BY NothingOpen DEF Begin, Serial
<1>3. t.base = row[t.order] /\ Fits(t)
    BY DEF Fits
<1>4. \A q \in Orders : venue'[q].filled <= Size
    BY DEF Serial
<1>5. QED BY <1>1, <1>2, <1>3, <1>4, RequestKind

\* A request goes on, with v as its copy; the venue may have answered.
LEMMA GoesOnSerial ==
    ASSUME Inductive, Serial, NEW r \in Requests, tx[r] # NoTx, NEW t \in Tx,
           tx' = [tx EXCEPT ![r] = t], t.order = tx[r].order, t.base = tx[r].base, Fits(t),
           UNCHANGED <<row, tick>>, \A o \in Orders : venue'[o].filled = venue[o].filled
    PROVE  Serial' /\ RowsAdvance
<1>1. /\ tick.at = "idle" /\ \A q \in Requests \ {r} : tx[q] = NoTx
      /\ tx[r].base = row[tx[r].order]
    BY DEF Serial, Alone
<1>2. \A o \in Orders : venue'[o].filled <= Size
    BY DEF Serial
<1>3. QED BY <1>1, <1>2, RequestKind

LEMMA Answering ==
    ASSUME TypeOK, NEW r \in Requests, tx[r] \in Tx, NEW step \in RequestStep,
           NEW answer \in Answer, Answered(r, step, answer)
    PROVE  \E t \in Tx : /\ tx' = [tx EXCEPT ![r] = t] /\ t.at = step
                         /\ t.order = tx[r].order /\ t.base = tx[r].base /\ t.view = tx[r].view
<1> DEFINE t == [tx[r] EXCEPT !.at = step, !.answer = answer]
<1>1. t \in Tx /\ t.at = step /\ t.order = tx[r].order /\ t.base = tx[r].base
      /\ t.view = tx[r].view
    BY DEF Tx
<1>2. tx' = [tx EXCEPT ![r] = t]
    BY DEF Answered, TypeOK
<1>3. QED BY <1>1, <1>2

LEMMA Locking ==
    ASSUME TypeOK, NEW r \in Requests, tx[r] \in Tx, NEW v \in Row, NEW step \in RequestStep,
           LockRowAndSet(r, v, step)
    PROVE  \E t \in Tx : /\ tx' = [tx EXCEPT ![r] = t] /\ t.at = step
                         /\ t.order = tx[r].order /\ t.base = tx[r].base /\ t.view = v
<1> DEFINE t == [tx[r] EXCEPT !.view = v, !.at = step]
<1>1. t \in Tx /\ t.at = step /\ t.order = tx[r].order /\ t.base = tx[r].base /\ t.view = v
    BY DEF Tx
<1>2. tx' = [tx EXCEPT ![r] = t]
    BY DEF LockRowAndSet, TypeOK
<1>3. QED BY <1>1, <1>2

---------------------------------------------------------------------------
\* Committing a copy with another status, or as it is.
LEMMA StatusCommit ==
    ASSUME Inductive, Serial, NEW r \in Requests, tx[r] # NoTx, NEW s \in Status,
           CommitRequest(r, [tx[r].view EXCEPT !.status = s]), UNCHANGED <<tick, venue>>,
           tx[r].view.csig \in {0, tx[r].view.cnonce},
           s \in Terminal \/ tx[r].view.cnonce = 0,
           s \in Machine!Successors(tx[r].base.status)
    PROVE  Serial' /\ RowsAdvance
<1> DEFINE v == [tx[r].view EXCEPT !.status = s]
<1>1. tx[r].view \in Row /\ tx[r].view.filled = tx[r].base.filled
    BY NoTxIsIdle DEF Inductive, TypeOK, Serial, Fits
<1>2. /\ v \in Row /\ v.status = s /\ v.filled = tx[r].base.filled
      /\ v.cnonce = tx[r].view.cnonce /\ v.csig = tx[r].view.csig
    BY <1>1 DEF Row
<1>3. CancelFits(v)
    BY <1>2 DEF CancelFits, Terminal
<1>4. Advances(tx[r].base, v)
    BY <1>2 DEF Advances
<1>5. QED BY <1>2, <1>3, <1>4, CommitKind

LEMMA PlainCommit ==
    ASSUME Inductive, Serial, NEW r \in Requests, tx[r] # NoTx,
           CommitRequest(r, tx[r].view), UNCHANGED <<tick, venue>>,
           CancelFits(tx[r].view),
           \/ tx[r].view.status = tx[r].base.status
           \/ tx[r].view.status \in Machine!Successors(tx[r].base.status)
    PROVE  Serial' /\ RowsAdvance
<1>1. tx[r].view \in Row /\ tx[r].view.filled = tx[r].base.filled
    BY NoTxIsIdle DEF Inductive, TypeOK, Serial, Fits
<1>2. Advances(tx[r].base, tx[r].view)
    BY <1>1 DEF Advances
<1>3. QED BY <1>1, <1>2, CommitKind

LEMMA RollbackSerial ==
    ASSUME Inductive, Serial, NEW r \in Requests, RollbackRequest(r), UNCHANGED <<tick, venue>>
    PROVE  Serial' /\ RowsAdvance
<1>1. \A q \in Requests : tx'[q] \in {tx[q], NoTx}
    BY DEF RollbackRequest, Inductive, TypeOK
<1>2. \A o \in Orders : venue'[o].filled <= Size
    BY DEF Serial
<1>3. QED BY <1>1, <1>2, QuietKind DEF RollbackRequest

\* What is known of request r at each of its steps.
LEMMA Known ==
    ASSUME Inductive, Serial, NEW r \in Requests, NEW step \in RequestStep, At(r, step)
    PROVE  /\ tx[r] \in Tx /\ tx[r] # NoTx /\ tx[r].at = step
           /\ tx[r].view \in Row /\ tx[r].base \in Row
           /\ Fits(tx[r]) /\ CancelFits(tx[r].base)
<1>1. tx[r] \in Tx /\ tx[r] # NoTx
    BY AtStep DEF Inductive
<1>2. tx[r].base = row[tx[r].order] /\ Fits(tx[r])
    BY <1>1 DEF Serial
<1>3. QED BY <1>1, <1>2, NoTxIsIdle DEF At, Serial

\* The steps of a request that has begun.
LEMMA RequestSerial ==
    ASSUME Inductive, Serial, NEW r \in Requests, RequestContinues(r)
    PROVE  Serial' /\ RowsAdvance
<1> DEFINE view == tx[r].view
<1>1. /\ {"rejected", "acked", "cancelled"} \subseteq Status
      /\ {"rejected", "cancelled"} \subseteq Terminal
    BY DEF Status, Terminal, Reconcilable
<1>2. ASSUME NEW c \in Row, CancelFits(c), c.status \in {"pending", "submitted", "absent"}
      PROVE  c.cnonce = 0 /\ c.csig = 0
    BY <1>2 DEF CancelFits
<1>3. CASE SubmitReject(r)
  <2>1. At(r, "reject") /\ UNCHANGED <<tick, venue>>
        /\ CommitRequest(r, [view EXCEPT !.status = "rejected"])
      BY <1>3 DEF SubmitReject, venueVars
  <2>2. /\ tx[r] # NoTx /\ view = tx[r].base /\ tx[r].base.status = "pending"
        /\ CancelFits(view) /\ view \in Row
      BY <2>1, Known DEF RequestStep, Fits
  <2>3. view.csig \in {0, view.cnonce} /\ "rejected" \in Machine!Successors(tx[r].base.status)
      BY <2>2 DEF CancelFits, Machine!Successors
  <2>4. QED BY <1>1, <2>1, <2>2, <2>3, StatusCommit
<1>4. CASE SubmitSign(r)
  <2> DEFINE v == [view EXCEPT !.status = "submitted"]
  <2>1. At(r, "sign") /\ LockRowAndSet(r, v, "post") /\ UNCHANGED <<row, tick, venue>>
      BY <1>4 DEF SubmitSign, dbVars, venueVars
  <2>2. /\ tx[r] # NoTx /\ tx[r] \in Tx /\ view = tx[r].base /\ tx[r].base.status = "pending"
        /\ view \in Row
      BY <2>1, Known DEF RequestStep, Fits
  <2>3. /\ v \in Row /\ v.status = "submitted" /\ v.filled = view.filled
        /\ v.cnonce = view.cnonce /\ v.csig = view.csig
      BY <2>2 DEF Row, Status, Reconcilable
  <2> HIDE DEF v
  <2>4. PICK t \in Tx : /\ tx' = [tx EXCEPT ![r] = t] /\ t.at = "post"
                        /\ t.order = tx[r].order /\ t.base = tx[r].base /\ t.view = v
      BY <2>1, <2>2, <2>3, Locking DEF RequestStep, Inductive
  <2>5. Fits(t)
      BY <2>2, <2>3, <2>4 DEF Fits
  <2>6. QED BY <2>1, <2>2, <2>4, <2>5, GoesOnSerial
<1>5. CASE SubmitPost(r)
  <2>1. At(r, "post") /\ UNCHANGED <<row, tick>>
      BY <1>5 DEF SubmitPost, dbVars
  <2>2. tx[r] # NoTx /\ tx[r] \in Tx /\ Fits(tx[r]) /\ tx[r].at = "post" /\ tx[r].order \in Orders
      BY <2>1, Known DEF RequestStep, Tx
  <2>3. \E answer \in Answer : Answered(r, "answer", answer)
      BY <1>5 DEF SubmitPost, ReportOf, Answer
  <2>4. PICK t \in Tx : /\ tx' = [tx EXCEPT ![r] = t] /\ t.at = "answer"
                        /\ t.order = tx[r].order /\ t.base = tx[r].base /\ t.view = view
      BY <2>2, <2>3, Answering DEF RequestStep, Inductive
  <2>5. Fits(t)
      BY <2>2, <2>4 DEF Fits
  <2>6. \A o \in Orders : venue'[o].filled = venue[o].filled
      BY <1>5, <2>2 DEF SubmitPost, Inductive, TypeOK
  <2>7. QED BY <2>1, <2>2, <2>4, <2>5, <2>6, GoesOnSerial
<1>6. CASE SubmitAnswer(r)
  <2>1. At(r, "answer") /\ UNCHANGED <<tick, venue>>
      BY <1>6 DEF SubmitAnswer, venueVars
  <2>2. /\ tx[r] # NoTx /\ tx[r].base.status = "pending" /\ view.status = "submitted"
        /\ view.cnonce = tx[r].base.cnonce /\ view.csig = tx[r].base.csig
        /\ CancelFits(tx[r].base) /\ tx[r].base \in Row
      BY <2>1, Known DEF RequestStep, Fits
  <2>3. view.cnonce = 0 /\ view.csig = 0
      BY <1>2, <2>2
  <2>4. {"acked", "rejected", "submitted"} \subseteq Machine!Successors(tx[r].base.status)
      BY <2>2 DEF Machine!Successors
  <2>5. CancelFits(view)
      BY <2>3 DEF CancelFits
  <2>6. CASE CommitRequest(r, [view EXCEPT !.status = "acked"])
      BY <1>1, <2>1, <2>2, <2>3, <2>4, <2>6, StatusCommit
  <2>7. CASE CommitRequest(r, [view EXCEPT !.status = "rejected"])
      BY <1>1, <2>1, <2>2, <2>3, <2>4, <2>7, StatusCommit
  <2>8. CASE CommitRequest(r, view)
      BY <2>1, <2>2, <2>4, <2>5, <2>8, PlainCommit
  <2>9. CASE RollbackRequest(r)
      BY <2>1, <2>9, RollbackSerial
  <2>10. QED BY <1>6, <2>6, <2>7, <2>8, <2>9 DEF SubmitAnswer
<1>7. CASE CancelLocally(r)
  <2>1. At(r, "cancel_local") /\ UNCHANGED <<tick, venue>>
        /\ CommitRequest(r, [view EXCEPT !.status = "cancelled"])
      BY <1>7 DEF CancelLocally, venueVars
  <2>2. /\ tx[r] # NoTx /\ view = tx[r].base /\ tx[r].base.status = "pending"
        /\ CancelFits(view) /\ view \in Row
      BY <2>1, Known DEF RequestStep, Fits
  <2>3. view.csig \in {0, view.cnonce} /\ "cancelled" \in Machine!Successors(tx[r].base.status)
      BY <2>2 DEF CancelFits, Machine!Successors
  <2>4. QED BY <1>1, <2>1, <2>2, <2>3, StatusCommit
<1>8. CASE PrepareCancelLockUser(r)
  <2> DEFINE v == [view EXCEPT !.cnonce = nextNonce, !.csig = 0]
             t == [tx[r] EXCEPT !.view = v, !.at = "flush"]
  <2>1. At(r, "lock_user") /\ UNCHANGED <<row, tick, venue>>
      BY <1>8 DEF PrepareCancelLockUser, venueVars
  <2>2. /\ tx[r] # NoTx /\ tx[r] \in Tx /\ view = tx[r].base /\ tx[r].base.status \in Acked
        /\ view \in Row
      BY <2>1, Known DEF RequestStep, Fits
  <2>3. v \in Row /\ v.status = view.status /\ v.filled = view.filled /\ v.csig = 0
      BY <2>2 DEF Row, Inductive, TypeOK
  <2>4. tx' = [tx EXCEPT ![r] = t]
      BY <1>8, <2>2 DEF PrepareCancelLockUser, Inductive, TypeOK, Tx, Row
  <2> HIDE DEF v
  <2>5. t \in Tx /\ t.at = "flush" /\ t.order = tx[r].order /\ t.base = tx[r].base /\ t.view = v
      BY <2>2, <2>3 DEF Tx, RequestStep
  <2> HIDE DEF t
  <2>6. Fits(t)
      BY <2>2, <2>3, <2>5 DEF Fits
  <2>7. QED BY <2>1, <2>2, <2>4, <2>5, <2>6, GoesOnSerial
<1>9. CASE PrepareCancelFlush(r)
  <2>1. At(r, "flush") /\ CommitRequest(r, view) /\ UNCHANGED <<tick, venue>>
      BY <1>9 DEF PrepareCancelFlush, venueVars
  <2>2. /\ tx[r] # NoTx /\ view.status = tx[r].base.status /\ view.status \in Acked
        /\ view.csig \in {0, view.cnonce}
      BY <2>1, Known DEF RequestStep, Fits
  <2>3. CancelFits(view)
      BY <2>2 DEF CancelFits, Acked
  <2>4. QED BY <2>1, <2>2, <2>3, PlainCommit
<1>10. CASE SubmitCancelSign(r)
  <2> DEFINE v == [view EXCEPT !.csig = view.cnonce]
  <2>1. At(r, "sign_cancel") /\ LockRowAndSet(r, v, "post_cancel")
        /\ UNCHANGED <<row, tick, venue>>
      BY <1>10 DEF SubmitCancelSign, dbVars, venueVars
  <2>2. /\ tx[r] # NoTx /\ tx[r] \in Tx /\ view = tx[r].base /\ tx[r].base.status \in Acked
        /\ view \in Row
      BY <2>1, Known DEF RequestStep, Fits
  <2>3. /\ v \in Row /\ v.status = view.status /\ v.filled = view.filled
        /\ v.cnonce = view.cnonce /\ v.csig = view.cnonce
      BY <2>2 DEF Row
  <2> HIDE DEF v
  <2>4. PICK t \in Tx : /\ tx' = [tx EXCEPT ![r] = t] /\ t.at = "post_cancel"
                        /\ t.order = tx[r].order /\ t.base = tx[r].base /\ t.view = v
      BY <2>1, <2>2, <2>3, Locking DEF RequestStep, Inductive
  <2>5. Fits(t)
      BY <2>2, <2>3, <2>4 DEF Fits
  <2>6. QED BY <2>1, <2>2, <2>4, <2>5, GoesOnSerial
<1>11. CASE SubmitCancelPost(r)
  <2>1. At(r, "post_cancel") /\ UNCHANGED <<row, tick>>
      BY <1>11 DEF SubmitCancelPost, dbVars
  <2>2. /\ tx[r] # NoTx /\ tx[r] \in Tx /\ Fits(tx[r]) /\ tx[r].at = "post_cancel"
        /\ tx[r].order \in Orders
      BY <2>1, Known DEF RequestStep, Tx
  <2>3. \E answer \in Answer : Answered(r, "answer_cancel", answer)
      BY <1>11 DEF SubmitCancelPost, ReportOf, Answer
  <2>4. PICK t \in Tx : /\ tx' = [tx EXCEPT ![r] = t] /\ t.at = "answer_cancel"
                        /\ t.order = tx[r].order /\ t.base = tx[r].base /\ t.view = view
      BY <2>2, <2>3, Answering DEF RequestStep, Inductive
  <2>5. Fits(t)
      BY <2>2, <2>4 DEF Fits
  <2>6. \A o \in Orders : venue'[o].filled = venue[o].filled
      BY <1>11, <2>2 DEF SubmitCancelPost, Inductive, TypeOK
  <2>7. QED BY <2>1, <2>2, <2>4, <2>5, <2>6, GoesOnSerial
<1>12. CASE SubmitCancelAnswer(r)
  <2>1. At(r, "answer_cancel") /\ UNCHANGED <<tick, venue>>
      BY <1>12 DEF SubmitCancelAnswer, venueVars
  <2>2. /\ tx[r] # NoTx /\ view.status = tx[r].base.status /\ view.status \in Acked
        /\ view.csig \in {0, view.cnonce}
      BY <2>1, Known DEF RequestStep, Fits
  <2>3. CancelFits(view) /\ "cancelled" \in Machine!Successors(tx[r].base.status)
      BY <2>2 DEF CancelFits, Acked, Machine!Successors
  <2>4. CASE CommitRequest(r, [view EXCEPT !.status = "cancelled"])
      BY <1>1, <2>1, <2>2, <2>3, <2>4, StatusCommit
  <2>5. CASE CommitRequest(r, view)
      BY <2>1, <2>2, <2>3, <2>5, PlainCommit
  <2>6. CASE RollbackRequest(r)
      BY <2>1, <2>6, RollbackSerial
  <2>7. QED BY <1>12, <2>4, <2>5, <2>6 DEF SubmitCancelAnswer
<1>13. QED
    BY <1>3, <1>4, <1>5, <1>6, <1>7, <1>8, <1>9, <1>10, <1>11, <1>12 DEF RequestContinues

---------------------------------------------------------------------------
\* The sweep.
LEMMA TickLoadSerial ==
    ASSUME Inductive, Serial, MaxOpen <= 1, TickLoad
    PROVE  Serial' /\ RowsAdvance
<1>1. /\ UNCHANGED <<row, tx, venue>> /\ MayBegin
      /\ tick' = [IdleTick EXCEPT !.at = "loaded", !.base = row, !.view = row, !.pos = pos]
    BY DEF TickLoad, dbVars, venueVars
<1>2. \A r \in Requests : tx[r] = NoTx
    BY <1>1, NothingOpen DEF Serial
<1>3. /\ tick'.base = row /\ tick'.view = row /\ tick'.todo = {}
      /\ \A o \in Orders : tick'.listing[o] = 0
    BY <1>1 DEF IdleTick
<1>4. \A o \in Orders : TickFits(o)'
    BY <1>1, <1>3, SizeAssumption DEF TickFits
<1>5. QED BY <1>1, <1>2, <1>4, TickKind

LEMMA TickFoldSerial ==
    ASSUME Inductive, Serial, NEW o \in Orders, TickFold(o)
    PROVE  Serial' /\ RowsAdvance
<1> DEFINE theirs == tick.listing[o]
           v == [tick.view[o] EXCEPT !.filled = theirs, !.status = FillStatus(theirs)]
<1>1. /\ tick.at = "folding" /\ o \in tick.todo /\ UNCHANGED <<row, tx, venue>>
      /\ (\A r \in Requests : tx[r] = NoTx) /\ \A q \in Orders : TickFits(q)
    BY DEF TickFold, Fold, dbVars, venueVars, Serial, Alone
<1>2. /\ tick.view[o] \in Row /\ tick.view[o].filled \in Nat /\ theirs \in Nat /\ Size \in Nat
      /\ theirs > tick.view[o].filled
    BY <1>1, SizeAssumption DEF Inductive, TypeOK, Row, CopiesAgree, TickAgrees
<1>3. /\ v.filled = theirs /\ v.status = FillStatus(theirs)
      /\ v.cnonce = tick.view[o].cnonce /\ v.csig = tick.view[o].csig
    BY <1>2 DEF Row
<1>4. /\ tick'.base = tick.base /\ tick'.listing = tick.listing /\ tick'.view[o] = v
      /\ \A q \in Orders \ {o} : tick'.view[q] = tick.view[q]
      /\ tick'.todo = tick.todo \ {o} /\ tick'.at # "loaded"
    BY <1>2 DEF TickFold, Fold, Inductive, TypeOK
<1> HIDE DEF v
<1>5. ASSUME NEW q \in Orders PROVE TickFits(q)'
  <2>1. TickFits(q)
      BY <1>1
  <2>2. CASE q = o
    <3>1. /\ tick.base[o].status \in Reconcilable /\ tick.view[o] = tick.base[o]
          /\ tick.base[o] = row[o] /\ theirs <= Size
        BY <1>1, <2>1, <2>2 DEF TickFits
    <3>2. Refilled(tick.base[o], v)
        BY <1>2, <1>3, <3>1 DEF Refilled
    <3>3. QED BY <1>1, <1>3, <1>4, <2>2, <3>1, <3>2 DEF TickFits
  <2>3. CASE q # o
      BY <1>1, <1>4, <2>1, <2>3 DEF TickFits
  <2>4. QED BY <2>2, <2>3
<1>6. QED BY <1>1, <1>5, TickKind

LEMMA TickCommitSerial ==
    ASSUME Inductive, Serial, TickCommit
    PROVE  Serial' /\ RowsAdvance
<1>1. /\ tick.at = "commit" /\ tick' = IdleTick /\ UNCHANGED <<tx, venue>>
      /\ \A o \in Orders : row'[o] = Merge(row[o], tick.base[o], tick.view[o])
    BY DEF TickCommit, venueVars
<1>2. (\A r \in Requests : tx[r] = NoTx) /\ \A o \in Orders : TickFits(o)
    BY <1>1 DEF Serial, Alone
<1>3. ASSUME NEW o \in Orders PROVE row'[o] = tick.view[o]
  <2>1. row[o] \in Row /\ tick.view[o] \in Row /\ tick.base[o] = row[o]
      BY <1>2 DEF Inductive, TypeOK, TickFits
  <2>2. QED BY <1>1, <2>1 DEF Merge, Column, Row
<1>4. \A o \in Orders : Advances(row[o], row'[o])
    BY <1>2, <1>3 DEF TickFits, Advances
<1>5. ASSUME NEW o \in Orders PROVE CancelFits(row'[o])
  <2>1. CancelFits(row[o]) /\ TickFits(o)
      BY <1>2 DEF Serial
  <2>2. QED BY <1>3, <2>1 DEF TickFits, CancelFits, Refilled, FillStatus
<1>6. tick'.at = "idle"
    BY <1>1 DEF IdleTick
<1>7. QED BY <1>1, <1>2, <1>4, <1>5, <1>6 DEF Serial, Alone, RowsAdvance

LEMMA TickSerial ==
    ASSUME Inductive, Serial, TickContinues
    PROVE  Serial' /\ RowsAdvance
<1>1. ASSUME tick.at # "idle"
      PROVE  (\A r \in Requests : tx[r] = NoTx) /\ \A o \in Orders : TickFits(o)
    BY <1>1 DEF Serial, Alone
<1>2. CASE TickList
  <2>1. /\ tick.at = "loaded" /\ UNCHANGED <<row, tx, venue>>
        /\ tick'.base = tick.base /\ tick'.view = tick.view /\ tick'.at = "folding"
        /\ \A o \in Orders : tick'.listing[o] = Listed(o)
        /\ tick'.todo = {o \in Orders : /\ tick.view[o].status \in Reconcilable
                                        /\ Listed(o) > tick.view[o].filled}
      BY <1>2 DEF TickList, ListAndMark, dbVars, venueVars, Inductive, TypeOK
  <2>2. \A o \in Orders : Listed(o) <= Size
      BY SizeAssumption DEF Listed, Serial
  <2>3. \A o \in Orders : TickFits(o) /\ tick.view[o] = tick.base[o]
      BY <1>1, <2>1 DEF TickFits
  <2>4. \A o \in Orders : TickFits(o)'
      BY <2>1, <2>2, <2>3 DEF TickFits
  <2>5. QED BY <1>1, <2>1, <2>4, TickKind
<1>3. CASE TickHttpError \/ TickOpenPosition \/ TickBalances
  <2>1. /\ tick.at # "idle" /\ UNCHANGED <<row, tx, venue>> /\ tick'.at # "loaded"
        /\ tick'.base = tick.base /\ tick'.view = tick.view
        /\ tick'.listing = tick.listing /\ tick'.todo = tick.todo
      BY <1>3
      DEF TickHttpError, TickOpenPosition, TickBalances, dbVars, venueVars, Inductive, TypeOK
  <2>2. \A o \in Orders : TickFits(o)'
      BY <1>1, <2>1 DEF TickFits
  <2>3. QED BY <1>1, <2>1, <2>2, TickKind
<1>4. ASSUME NEW o \in Orders, TickFold(o) PROVE Serial' /\ RowsAdvance
    BY <1>4, TickFoldSerial
<1>5. CASE TickCommit
    BY <1>5, TickCommitSerial
<1>6. QED BY <1>2, <1>3, <1>4, <1>5 DEF TickContinues

---------------------------------------------------------------------------
LEMMA SerialStep ==
    ASSUME MaxOpen <= 1, Inductive, Serial, [Next]_vars
    PROVE  Serial' /\ RowsAdvance
<1>1. ASSUME NEW o \in Orders, PrepareNew(o) PROVE Serial' /\ RowsAdvance
  <2>1. /\ row[o].status = "absent" /\ MayBegin /\ UNCHANGED <<tx, tick, venue>>
        /\ row'[o].status = "pending" /\ row'[o].filled = 0
        /\ row'[o].cnonce = 0 /\ row'[o].csig = 0
        /\ \A q \in Orders \ {o} : row'[q] = row[q]
      BY <1>1 DEF PrepareNew, venueVars, NoRow, Inductive, TypeOK
  <2>2. row[o].filled = 0
      BY <2>1 DEF Inductive, CopiesAgree, RowAgrees
  <2>3. RowsAdvance
      BY <2>1, <2>2 DEF RowsAdvance, Advances, Machine!Successors
  <2>4. \A q \in Orders : CancelFits(row'[q])
      BY <2>1 DEF Serial, CancelFits
  <2>5. QED BY <2>1, <2>3, <2>4, WriteKind
<1>2. ASSUME NEW r \in Requests, NEW o \in Orders, SubmitLoad(r, o)
      PROVE  Serial' /\ RowsAdvance
  <2>1. /\ row[o].status = "pending" /\ UNCHANGED <<row, tick, venue>>
        /\ Begin(r, o, "sign") \/ Begin(r, o, "reject")
      BY <1>2 DEF SubmitLoad, dbVars, venueVars
  <2>2. QED BY <2>1, BeginSerial
<1>3. ASSUME NEW r \in Requests, NEW o \in Orders, PrepareCancelLoad(r, o)
      PROVE  Serial' /\ RowsAdvance
  <2>1. /\ UNCHANGED <<row, tick, venue>>
        /\ \/ row[o].status = "pending" /\ Begin(r, o, "cancel_local")
           \/ row[o].status \in Acked /\ Begin(r, o, "lock_user")
      BY <1>3 DEF PrepareCancelLoad, dbVars, venueVars, Acked
  <2>2. QED BY <2>1, BeginSerial
<1>4. ASSUME NEW r \in Requests, NEW o \in Orders, SubmitCancelLoad(r, o)
      PROVE  Serial' /\ RowsAdvance
  <2>1. /\ UNCHANGED <<row, tick, venue>> /\ Begin(r, o, "sign_cancel")
        /\ row[o].status \in Reconcilable /\ row[o].cnonce # 0
      BY <1>4 DEF SubmitCancelLoad, dbVars, venueVars
  <2>2. row[o].status \in Acked
      BY <2>1 DEF Serial, CancelFits, Reconcilable, Acked
  <2>3. QED BY <2>1, <2>2, BeginSerial
<1>5. ASSUME NEW r \in Requests, RequestContinues(r) PROVE Serial' /\ RowsAdvance
    BY <1>5, RequestSerial
<1>6. CASE TickLoad
    BY <1>6, TickLoadSerial
<1>7. CASE TickContinues
    BY <1>7, TickSerial
<1>8. CASE Reap
  <2>1. /\ MayBegin /\ UNCHANGED <<tx, tick, venue>>
        /\ \A o \in Orders : row'[o] = IF o \in expired /\ row[o].status \in Overdue
                                       THEN [row[o] EXCEPT !.status = "expired"] ELSE row[o]
      BY <1>8 DEF Reap, Expire, venueVars
  <2>2. ASSUME NEW o \in Orders PROVE Advances(row[o], row'[o]) /\ CancelFits(row'[o])
    <3>1. row[o] \in Row /\ CancelFits(row[o])
        BY DEF Inductive, TypeOK, Serial
    <3>2. CASE row'[o] = row[o]
        BY <3>1, <3>2 DEF Advances
    <3>3. CASE row'[o] = [row[o] EXCEPT !.status = "expired"] /\ row[o].status \in Overdue
      <4>1. /\ row'[o].status = "expired" /\ row'[o].filled = row[o].filled
            /\ row'[o].cnonce = row[o].cnonce /\ row'[o].csig = row[o].csig
          BY <3>1, <3>3 DEF Row
      <4>2. "expired" \in Machine!Successors(row[o].status)
          BY <3>3 DEF Overdue, Machine!Successors
      <4>3. QED BY <3>1, <4>1, <4>2 DEF Advances, CancelFits
    <3>4. QED BY <2>1, <3>2, <3>3
  <2>3. QED BY <2>1, <2>2, WriteKind DEF RowsAdvance
<1>9. CASE (\E o \in Orders : NonceWindowCloses(o)) \/ ExternalSell \/ UNCHANGED vars
  <2>1. UNCHANGED <<row, tx, tick, venue>>
      BY <1>9 DEF NonceWindowCloses, ExternalSell, dbVars, venueVars, vars
  <2>2. QED BY <2>1, QuietKind DEF Serial
<1>10. ASSUME NEW o \in Orders, VenueFill(o) \/ VenueRemoves(o) \/ VenueCloses(o)
       PROVE  Serial' /\ RowsAdvance
  <2>1. UNCHANGED <<row, tx, tick>>
      BY <1>10 DEF VenueFill, VenueRemoves, VenueCloses, dbVars
  <2>2. \A q \in Orders : venue'[q].filled <= Size
      BY <1>10, SizeAssumption
      DEF VenueFill, VenueRemoves, VenueCloses, Live, Serial, Inductive, TypeOK
  <2>3. QED BY <2>1, <2>2, QuietKind
<1>11. ASSUME NEW r \in Requests, DeadlockAbort(r) PROVE Serial' /\ RowsAdvance
  <2>1. /\ UNCHANGED <<row, venue>> /\ (tick' = tick \/ tick' = IdleTick)
        /\ \A q \in Requests : tx'[q] \in {tx[q], NoTx}
      BY <1>11 DEF DeadlockAbort, RollbackRequest, venueVars, Inductive, TypeOK
  <2>2. QED BY <2>1, QuietKind DEF Serial, IdleTick
<1>12. CASE Crash
  <2>1. /\ UNCHANGED <<row, venue>> /\ tick'.at = "idle"
        /\ \A q \in Requests : tx'[q] = NoTx
      BY <1>12 DEF Crash, IdleTick, dbVars, venueVars
  <2>2. QED BY <2>1, QuietKind DEF Serial
<1>13. QED
    BY <1>1, <1>2, <1>3, <1>4, <1>5, <1>6, <1>7, <1>8, <1>9, <1>10, <1>11, <1>12 DEF Next

LEMMA SerialInvariant == ASSUME MaxOpen <= 1 PROVE Spec => [](Inductive /\ Serial)
<1>1. Inductive /\ Serial /\ [Next]_vars => (Inductive /\ Serial)'
    BY StepPreserves, SerialStep DEF Inductive, Preserved
<1>2. QED BY InitInductive, InitSerial, <1>1, PTL DEF Spec

\* When transactions do not overlap, the orders table behaves as documented at
\* the head of pipeline.py and in models/order.py, for any number of orders of
\* any size, failed sweeps, lost answers and crashes: a terminal status is
\* final, and what the venue acknowledged is never expired.
THEOREM ImplementsStatusMachine ==
    ASSUME MaxOpen <= 1 PROVE Spec => FollowsStatusMachine
<1>1. Inductive /\ Serial /\ [Next]_vars
          => [Machine!Next]_<<[o \in Orders |-> row[o].status],
                              [o \in Orders |-> row[o].filled]>>
    BY SerialStep, StepPreserves, AdvanceMaps
<1>2. QED
    BY InitMaps, <1>1, SerialInvariant, PTL DEF Spec, FollowsStatusMachine, Machine!Spec

\* When transactions do not overlap, the cancel signature on a row signs the
\* payload on the row, however cancels are prepared, refused and prepared again.
THEOREM CancelSignaturesFit ==
    ASSUME MaxOpen <= 1 PROVE Spec => []CancelSignatureFitsPayload
<1>1. Inductive /\ Serial => CancelSignatureFitsPayload
    BY DEF Serial, CancelFits, CancelSignatureFitsPayload
<1>2. QED BY <1>1, SerialInvariant, PTL

---------------------------------------------------------------------------
\* NonceAllocation, for any number of calls and any clock: the nonces of orders
\* are distinct because the lock makes a drawn nonce exceed every committed one
\* until it is committed itself.
NonceInductive == NonceTypeOK /\ LockGuardsDraw /\ OrderNoncesDistinct

\* The nonce computed from the last one exceeds it, and is a number.
LEMMA NextNonceGrows ==
    ASSUME NonceTypeOK, NEW last \in Nat
    PROVE  NextNonce(last) \in Nat /\ NextNonce(last) > last
BY DEF NextNonce, NonceTypeOK

LEMMA NonceInitInductive == NonceInit => NonceInductive
BY ClockAssumption, LockAssumption
DEF NonceInit, NonceInductive, NonceTypeOK, LockGuardsDraw, OrderNoncesDistinct

\* A drawn nonce exceeds every committed one.
LEMMA DrawIsFresh ==
    ASSUME NonceTypeOK, NEW r \in Callers, Draw(r)
    PROVE  /\ drawn'[r] \in Nat
           /\ \A q \in NewRequests : drawn'[r] > orderNonce[q]
           /\ \A q \in Callers \ {r} : drawn'[q] = drawn[q]
<1>1. PICK last \in {0} \cup {orderNonce[q] : q \in NewRequests} :
          IsLast(last) /\ drawn' = [drawn EXCEPT ![r] = NextNonce(last)]
    BY DEF Draw
<1>2. last \in Nat /\ \A q \in NewRequests : orderNonce[q] \in Nat
    BY <1>1 DEF NonceTypeOK
<1>3. drawn'[r] = NextNonce(last) /\ \A q \in Callers \ {r} : drawn'[q] = drawn[q]
    BY <1>1 DEF NonceTypeOK
<1>4. QED BY <1>1, <1>2, <1>3, NextNonceGrows DEF IsLast

\* A step commits at most one order nonce, and one above all the others.
OrdersGrow ==
    \A r \in NewRequests : orderNonce'[r] # orderNonce[r] =>
        /\ \A q \in NewRequests : orderNonce'[r] > orderNonce[q]
        /\ \A q \in NewRequests \ {r} : orderNonce'[q] = orderNonce[q]

LEMMA NonceStepPreserves ==
    ASSUME NonceInductive, [NonceNext]_nonceVars
    PROVE  NonceInductive' /\ OrdersGrow
<1> USE DEF NonceInductive
<1>1. ASSUME NEW r \in Callers, LockUser(r) PROVE NonceInductive' /\ OrdersGrow
    <2>1. NonceTypeOK'
        BY <1>1 DEF LockUser, NonceTypeOK
    <2>2. LockGuardsDraw'
        BY <1>1, LockAssumption DEF LockUser, NonceTypeOK, LockGuardsDraw
    <2>3. QED BY <1>1, <2>1, <2>2 DEF LockUser, OrderNoncesDistinct, OrdersGrow
<1>2. ASSUME NEW r \in Callers, Draw(r) PROVE NonceInductive' /\ OrdersGrow
    <2>1. /\ at[r] = "locked" /\ at' = [at EXCEPT ![r] = "drawn"]
          /\ UNCHANGED <<clock, highest, lock, orderNonce, cancelNonce>>
        BY <1>2 DEF Draw
    <2>2. drawn' \in [Callers -> Nat]
        <3>1. PICK n : drawn' = [drawn EXCEPT ![r] = n]
            BY <1>2 DEF Draw
        <3>2. n \in Nat
            BY <1>2, <3>1, DrawIsFresh DEF NonceTypeOK
        <3>3. QED BY <3>1, <3>2 DEF NonceTypeOK
    <2>3. NonceTypeOK'
        BY <2>1, <2>2 DEF NonceTypeOK
    <2>4. LockGuardsDraw'
        BY <1>2, <2>1, DrawIsFresh DEF NonceTypeOK, LockGuardsDraw
    <2>5. QED BY <2>1, <2>3, <2>4 DEF OrderNoncesDistinct, OrdersGrow
<1>3. ASSUME NEW r \in Callers, Commit(r) PROVE NonceInductive' /\ OrdersGrow
    <2>1. /\ at[r] = "drawn" /\ at' = [at EXCEPT ![r] = "done"]
          /\ lock = r /\ lock' = Unlocked
          /\ UNCHANGED <<clock, highest, drawn>>
          /\ \A q \in NewRequests : drawn[r] > orderNonce[q] /\ orderNonce[q] \in Nat
          /\ drawn[r] \in Nat
        BY <1>3 DEF Commit, LockGuardsDraw, NonceTypeOK
    <2>2. NonceTypeOK'
        BY <1>3, <2>1 DEF Commit, NonceTypeOK
    <2>3. \A q \in NewRequests :
              orderNonce'[q] = IF q = r THEN drawn[r] ELSE orderNonce[q]
        BY <1>3 DEF Commit, NonceTypeOK
    <2>4. LockGuardsDraw'
        <3>1. ASSUME NEW q \in Callers, q # r
              PROVE at'[q] = at[q] /\ at'[q] \notin {"locked", "drawn"} /\ lock' # q
            BY <2>1, <3>1, LockAssumption DEF NonceTypeOK, LockGuardsDraw
        <3>2. at'[r] = "done" /\ lock' # r
            BY <2>1, LockAssumption DEF NonceTypeOK
        <3>3. QED BY <2>3, <3>1, <3>2 DEF LockGuardsDraw
    <2>5. OrderNoncesDistinct' /\ OrdersGrow
        BY <2>1, <2>3 DEF OrderNoncesDistinct, OrdersGrow
    <2>6. QED BY <2>2, <2>4, <2>5
<1>4. ASSUME NEW r \in Callers, Rollback(r) PROVE NonceInductive' /\ OrdersGrow
    <2>1. NonceTypeOK'
        BY <1>4 DEF Rollback, NonceTypeOK
    <2>2. LockGuardsDraw'
        BY <1>4, LockAssumption DEF Rollback, NonceTypeOK, LockGuardsDraw
    <2>3. QED BY <1>4, <2>1, <2>2 DEF Rollback, OrderNoncesDistinct, OrdersGrow
<1>5. ASSUME ClockMoves PROVE NonceInductive' /\ OrdersGrow
    <2>1. NonceTypeOK'
        BY <1>5, ClockAssumption DEF ClockMoves, NonceTypeOK
    <2>2. LockGuardsDraw' /\ OrderNoncesDistinct' /\ OrdersGrow
        BY <1>5 DEF ClockMoves, LockGuardsDraw, OrderNoncesDistinct, OrdersGrow
    <2>3. QED BY <2>1, <2>2
<1>6. ASSUME UNCHANGED nonceVars PROVE NonceInductive' /\ OrdersGrow
    BY <1>6 DEF nonceVars, NonceTypeOK, LockGuardsDraw, OrderNoncesDistinct, OrdersGrow
<1>7. QED BY <1>1, <1>2, <1>3, <1>4, <1>5, <1>6 DEF NonceNext

---------------------------------------------------------------------------
LEMMA NonceInductiveInvariant == NonceSpec => []NonceInductive
<1>1. NonceInductive /\ [NonceNext]_nonceVars => NonceInductive'
    BY NonceStepPreserves
<1>2. QED BY NonceInitInductive, <1>1, PTL DEF NonceSpec

\* No two orders of a user ever carry the same nonce, whatever the clock does
\* and however many calls of prepare_new and prepare_cancel run at once.
THEOREM OrderNoncesAlwaysDistinct == NonceSpec => []OrderNoncesDistinct
<1>1. NonceInductive => OrderNoncesDistinct
    BY DEF NonceInductive
<1>2. QED BY NonceInductiveInvariant, <1>1, PTL

\* An order's nonce exceeds those of all orders committed before it.
THEOREM OrderNoncesAlwaysIncrease == NonceSpec => OrderNoncesIncrease
<1>1. NonceInductive /\ [NonceNext]_nonceVars
      => [\A r, q \in NewRequests :
            orderNonce'[r] # orderNonce[r] => orderNonce'[r] > orderNonce[q]]_nonceVars
    BY NonceStepPreserves DEF OrdersGrow
<1>2. QED BY NonceInductiveInvariant, <1>1, PTL DEF NonceSpec, OrderNoncesIncrease

---------------------------------------------------------------------------
\* How far nonces run ahead of the clock.  A drawn nonce is at most one beyond
\* what the committed ones are bounded by, and its commit is one more of them.
Committed == {q \in NewRequests : orderNonce[q] # 0}

NearClock ==
    /\ \A r \in NewRequests : orderNonce[r] <= highest + Cardinality(Committed)
    /\ \A r \in Callers :
          at[r] = "drawn" => drawn[r] <= highest + Cardinality(Committed) + 1

LEMMA NearClockStep ==
    ASSUME IsFiniteSet(NewRequests), NonceInductive, NonceInductive', NearClock,
           [NonceNext]_nonceVars
    PROVE  NearClock'
<1> USE DEF NonceInductive
<1>1. /\ IsFiniteSet(Committed) /\ Cardinality(Committed) \in Nat
      /\ IsFiniteSet(Committed') /\ Cardinality(Committed') \in Nat
    BY FS_Subset, FS_CardinalityType DEF Committed
<1>2. /\ highest \in Nat /\ highest' \in Nat /\ clock <= highest /\ clock \in Nat
      /\ \A r \in Callers : drawn[r] \in Nat /\ drawn'[r] \in Nat
      /\ \A r \in NewRequests : orderNonce[r] \in Nat /\ orderNonce'[r] \in Nat /\ r \in Callers
    BY DEF NonceTypeOK, Callers
<1>3. \A r \in NewRequests : orderNonce[r] <= highest + Cardinality(Committed)
    BY DEF NearClock
<1>4. ASSUME UNCHANGED orderNonce, highest' >= highest,
             \A r \in Callers : at'[r] = "drawn" => at[r] = "drawn" /\ drawn'[r] = drawn[r]
      PROVE  NearClock'
    <2>1. Committed' = Committed
        BY <1>4 DEF Committed
    <2>2. QED BY <1>1, <1>2, <1>3, <1>4, <2>1 DEF NearClock
<1>5. CASE \E r \in Callers : LockUser(r)
    <2>1. PICK r \in Callers : LockUser(r)
        BY <1>5
    <2>2. QED BY <1>2, <1>4, <2>1 DEF LockUser, NonceTypeOK, NearClock
<1>6. CASE \E r \in Callers : Draw(r)
    <2>1. PICK r \in Callers : Draw(r)
        BY <1>6
    <2>2. UNCHANGED <<orderNonce, highest>> /\ Committed' = Committed
        BY <2>1 DEF Draw, Committed
    <2>3. PICK last \in {0} \cup {orderNonce[q] : q \in NewRequests} :
              drawn' = [drawn EXCEPT ![r] = NextNonce(last)]
        BY <2>1 DEF Draw
    <2>4. last \in Nat /\ last <= highest + Cardinality(Committed)
        BY <1>1, <1>2, <1>3
    <2>5. drawn'[r] <= highest + Cardinality(Committed) + 1
        <3>1. drawn'[r] = NextNonce(last)
            BY <2>3 DEF NonceTypeOK
        <3>2. QED BY <1>1, <1>2, <2>4, <3>1 DEF NextNonce
    <2>6. \A q \in Callers \ {r} : at'[q] = at[q] /\ drawn'[q] = drawn[q]
        BY <2>1, <2>3 DEF Draw, NonceTypeOK
    <2>7. QED BY <1>3, <2>2, <2>5, <2>6 DEF NearClock
<1>7. CASE \E r \in Callers : Commit(r)
    <2>1. PICK r \in Callers : Commit(r)
        BY <1>7
    <2>2. /\ at[r] = "drawn" /\ at' = [at EXCEPT ![r] = "done"]
          /\ UNCHANGED <<highest, drawn>>
          /\ drawn[r] <= highest + Cardinality(Committed) + 1
        BY <2>1 DEF Commit, NearClock
    <2>3. CASE r \notin NewRequests
        <3>1. UNCHANGED orderNonce
            BY <2>1, <2>3 DEF Commit
        <3>2. QED
            BY <1>2, <1>4, <2>2, <3>1
            DEF NonceTypeOK, NearClock
    <2>4. CASE r \in NewRequests
        <3>1. /\ orderNonce[r] = 0 /\ drawn[r] > 0
              /\ orderNonce'[r] = drawn[r]
              /\ \A q \in NewRequests \ {r} : orderNonce'[q] = orderNonce[q]
            BY <1>2, <2>1, <2>2, <2>4 DEF Commit, LockGuardsDraw, NonceTypeOK
        <3>2. Committed' = Committed \cup {r} /\ r \notin Committed
            BY <2>4, <3>1 DEF Committed
        <3>3. Cardinality(Committed') = Cardinality(Committed) + 1
            BY <1>1, <3>2, FS_AddElement
        <3>4. \A q \in Callers : at'[q] # "drawn"
            BY <2>1, <2>2, LockAssumption DEF NonceTypeOK, LockGuardsDraw
        <3>5. QED BY <1>1, <1>2, <1>3, <2>2, <3>1, <3>3, <3>4 DEF NearClock
    <2>5. QED BY <2>3, <2>4
<1>8. CASE \E r \in Callers : Rollback(r)
    <2>1. PICK r \in Callers : Rollback(r)
        BY <1>8
    <2>2. QED BY <1>2, <1>4, <2>1 DEF Rollback, NonceTypeOK, NearClock
<1>9. CASE ClockMoves
    <2>1. highest' >= highest
        BY <1>2, <1>9 DEF ClockMoves
    <2>2. QED BY <1>4, <1>9, <2>1 DEF ClockMoves, NearClock
<1>10. CASE UNCHANGED nonceVars
    BY <1>2, <1>4, <1>10 DEF nonceVars, NearClock
<1>11. QED BY <1>5, <1>6, <1>7, <1>8, <1>9, <1>10 DEF NonceNext

\* A user's nonces exceed the highest clock reading by at most a millisecond per
\* committed order, although the clock is set back: the venue takes none a day ahead.
THEOREM NoncesStayNearClock ==
    ASSUME IsFiniteSet(NewRequests) PROVE NonceSpec => []NoncesNearClock
<1>1. NonceInit => NearClock
    BY ClockAssumption, FS_CardinalityType, FS_Subset
    DEF NonceInit, NearClock, Committed
<1>2. NonceInductive /\ NonceInductive' /\ NearClock /\ [NonceNext]_nonceVars => NearClock'
    BY NearClockStep
<1>3. NearClock => NoncesNearClock
    BY DEF NearClock, NoncesNearClock, Committed
<1>4. QED BY NonceInductiveInvariant, <1>1, <1>2, <1>3, PTL DEF NonceSpec

===========================================================================
