-------------------------- MODULE OrderLifecycle --------------------------
(***************************************************************************)
(* The life of real (not paper) SoDEX orders of one user on one venue and   *)
(* asset: pipeline/execution/pipeline.py (prepare_new, submit_new,          *)
(* prepare_cancel, submit_cancel), the reconcile job and the order reaper.  *)
(*                                                                          *)
(* Each HTTP request and each reconcile sweep is ONE database transaction,  *)
(* committed by its caller when the pipeline function returns (rule D14).   *)
(* It loads the order, computes on the loaded copy, takes the row lock with *)
(* its first UPDATE, may talk to the venue while it holds that lock, and    *)
(* becomes visible to the others only when it commits.  PostgreSQL runs at  *)
(* READ COMMITTED and an UPDATE names the row by its id alone, writing the  *)
(* columns that differ from the loaded copy: `base' and `view' below are    *)
(* the copy as loaded and as changed, and Merge is what the commit leaves.  *)
(*                                                                          *)
(* Orders buy on the spot market.  Prices, symbols and payload bytes are    *)
(* left out; a nonce is a number drawn from one increasing sequence (how    *)
(* nonces are allocated from the clock is module NonceAllocation).          *)
(***************************************************************************)
EXTENDS Naturals, FiniteSets, Functions

CONSTANTS
    Orders,      \* the orders the user may prepare
    Requests,    \* the submit/cancel HTTP requests that may be in progress
    Size,        \* requested_size of every order, in lots
    MaxOpen,     \* how many transactions may overlap (1: they are serial)
    MaxNonce,    \* bound: nonces handed out in one behaviour
    MaxCrashes   \* bound: process crashes in one behaviour

Tick == "tick"       \* the reconcile sweep, as the holder of a lock
Free == "free"       \* nobody holds the lock

ASSUME OrdersAssumption == IsFiniteSet(Orders)
ASSUME SizeAssumption == Size \in Nat \ {0}
ASSUME BoundAssumption == MaxOpen \in Nat /\ MaxNonce \in Nat /\ MaxCrashes \in Nat
ASSUME HolderAssumption == Tick \notin Requests /\ Free \notin Requests

Terminal == {"filled", "cancelled", "rejected", "expired"}
Reconcilable == {"pending", "submitted", "acked", "partially_filled"}
Overdue == {"pending", "submitted"}
Status == Terminal \cup Reconcilable \cup {"absent"}

\* The columns of an orders row the transitions read or write; 0 is NULL.
\* csig is the nonce of the cancel payload that the stored signature signs.
Row == [status : Status, filled : Nat, nonce : Nat, cnonce : Nat, csig : Nat]
NoRow == [status |-> "absent", filled |-> 0, nonce |-> 0, cnonce |-> 0, csig |-> 0]

VARIABLES
    row,        \* [Orders -> Row], as committed
    expired,    \* orders whose nonce_expires_at has passed
    nextNonce,  \* the next nonce to hand out
    userLock,   \* who holds the lock on the users row
    rowLock,    \* who holds the lock on each orders row
    tx,         \* the transaction of each request
    tick,       \* the transaction of the reconcile sweep
    pos,        \* size of the OPEN position, 0 when there is none
    writtenOff, \* sizes of the positions the sweep closed as sold elsewhere
    venue,      \* the venue's record of each order
    used,       \* nonces the venue has accepted
    execs,      \* how many times the venue placed each order
    holding,    \* the user's balance of the asset at the venue
    crashes     \* process crashes so far

dbVars == <<row, expired, nextNonce, pos, writtenOff>>
lockVars == <<userLock, rowLock>>
venueVars == <<venue, used, execs, holding>>
vars == <<row, expired, nextNonce, userLock, rowLock, tx, tick, pos, writtenOff,
          venue, used, execs, holding, crashes>>

RequestStep == {"reject", "sign", "post", "answer", "cancel_local", "lock_user",
                "flush", "sign_cancel", "post_cancel", "answer_cancel"}
Answer == {"none", "ack", "refused", "odd", "lost"}
NoTx == [at |-> "idle"]
Tx == [at : RequestStep, order : Orders, base : Row, view : Row, answer : Answer]

TickStep == {"idle", "loaded", "folding", "opening", "commit"}
IdleTick == [at |-> "idle", base |-> [o \in Orders |-> NoRow],
             view |-> [o \in Orders |-> NoRow], listing |-> [o \in Orders |-> 0],
             todo |-> {}, delta |-> 0, pos |-> 0, writtenOff |-> 0]

TypeOK ==
    /\ row \in [Orders -> Row]
    /\ expired \in SUBSET Orders
    /\ nextNonce \in Nat \ {0}
    /\ userLock \in Requests \cup {Tick, Free}
    /\ rowLock \in [Orders -> Requests \cup {Tick, Free}]
    /\ tx \in [Requests -> Tx \cup {NoTx}]
    /\ tick \in [at : TickStep, base : [Orders -> Row], view : [Orders -> Row],
                 listing : [Orders -> Nat], todo : SUBSET Orders, delta : Nat,
                 pos : Nat, writtenOff : Nat]
    /\ pos \in Nat /\ writtenOff \in Nat /\ holding \in Nat /\ crashes \in Nat
    /\ venue \in [Orders -> [state : {"unseen", "open", "filled", "cancelled"},
                             filled : Nat]]
    /\ used \in SUBSET Nat
    /\ execs \in [Orders -> Nat]

Init ==
    /\ row = [o \in Orders |-> NoRow]
    /\ expired = {}
    /\ nextNonce = 1
    /\ userLock = Free
    /\ rowLock = [o \in Orders |-> Free]
    /\ tx = [r \in Requests |-> NoTx]
    /\ tick = IdleTick
    /\ pos = 0 /\ writtenOff = 0
    /\ venue = [o \in Orders |-> [state |-> "unseen", filled |-> 0]]
    /\ used = {}
    /\ execs = [o \in Orders |-> 0]
    /\ holding = 0 /\ crashes = 0

---------------------------------------------------------------------------
\* What committing `view', loaded as `base', makes of the committed row cur:
\* the changed columns are written, the others keep what is there by now.
Column(cur, base, view) == IF view = base THEN cur ELSE view

Merge(cur, base, view) ==
    [status |-> Column(cur.status, base.status, view.status),
     filled |-> Column(cur.filled, base.filled, view.filled),
     nonce  |-> Column(cur.nonce, base.nonce, view.nonce),
     cnonce |-> Column(cur.cnonce, base.cnonce, view.cnonce),
     csig   |-> Column(cur.csig, base.csig, view.csig)]

OpenRequests == {r \in Requests : tx[r] # NoTx}

\* A transaction begins: at most MaxOpen of them are open at once, those that
\* are one step here included.
MayBegin ==
    Cardinality(OpenRequests) + (IF tick.at = "idle" THEN 0 ELSE 1) < MaxOpen

\* Bound: every nonce already promised to a waiting prepare_cancel counts.
NonceLeft ==
    nextNonce + Cardinality({r \in OpenRequests : tx[r].at = "lock_user"}) <= MaxNonce

Begin(r, o, step) ==
    /\ tx[r] = NoTx
    /\ MayBegin
    /\ tx' = [tx EXCEPT ![r] = [at |-> step, order |-> o, base |-> row[o],
                                view |-> row[o], answer |-> "none"]]

At(r, step) == tx[r].at = step

Unlock(locks, h) == [o \in Orders |-> IF locks[o] = h THEN Free ELSE locks[o]]

\* The transaction of r commits with v as its copy of the row.
CommitRequest(r, v) ==
    LET o == tx[r].order IN
    /\ row' = [row EXCEPT ![o] = Merge(row[o], tx[r].base, v)]
    /\ tx' = [tx EXCEPT ![r] = NoTx]
    /\ rowLock' = Unlock(rowLock, r)
    /\ userLock' = IF userLock = r THEN Free ELSE userLock

\* The transaction of r rolls back.
RollbackRequest(r) ==
    /\ tx' = [tx EXCEPT ![r] = NoTx]
    /\ rowLock' = Unlock(rowLock, r)
    /\ userLock' = IF userLock = r THEN Free ELSE userLock
    /\ UNCHANGED row

\* The first UPDATE of r's transaction waits for the row lock and keeps it.
LockRowAndSet(r, v, step) ==
    LET o == tx[r].order IN
    /\ rowLock[o] = Free
    /\ rowLock' = [rowLock EXCEPT ![o] = r]
    /\ tx' = [tx EXCEPT ![r].view = v, ![r].at = step]

---------------------------------------------------------------------------
\* POST /prepare.  prepare_new runs under the user's FOR UPDATE lock from the
\* risk gate to the commit, so the insert is one step that needs that lock.
PrepareNew(o) ==
    /\ row[o].status = "absent"
    /\ MayBegin /\ NonceLeft
    /\ userLock = Free
    /\ row' = [row EXCEPT ![o] = [NoRow EXCEPT !.status = "pending", !.nonce = nextNonce]]
    /\ nextNonce' = nextNonce + 1
    /\ UNCHANGED <<expired, pos, writtenOff, lockVars, tx, tick, venueVars, crashes>>

\* POST /submit.  Any status past PENDING is answered as a replay and changes
\* nothing.  The signature's format and the nonce window are judged now, on
\* the row as loaded.
SubmitLoad(r, o) ==
    /\ row[o].status = "pending"
    /\ \E wellFormed \in BOOLEAN :
          Begin(r, o, IF wellFormed /\ o \notin expired THEN "sign" ELSE "reject")
    /\ UNCHANGED <<dbVars, lockVars, tick, venueVars, crashes>>

\* _reject_submission, then the route's commit.
SubmitReject(r) ==
    /\ At(r, "reject")
    /\ rowLock[tx[r].order] = Free
    /\ CommitRequest(r, [tx[r].view EXCEPT !.status = "rejected"])
    /\ UNCHANGED <<expired, nextNonce, pos, writtenOff, tick, venueVars, crashes>>

\* (mutant) The submission signs the clock's reading, a nonce new to the venue,
\* in place of the stored one.
SubmitSignFreshNonce(r) ==
    LET reading == MaxNonce + 1 + Cardinality(used) IN
    /\ At(r, "sign")
    /\ LockRowAndSet(r, [tx[r].view EXCEPT !.status = "submitted", !.nonce = reading], "post")
    /\ UNCHANGED <<dbVars, userLock, tick, venueVars, crashes>>

\* Signature and SUBMITTED are flushed: visible to no one else before the commit.
SubmitSign(r) ==
    /\ At(r, "sign")
    /\ LockRowAndSet(r, [tx[r].view EXCEPT !.status = "submitted"], "post")
    /\ UNCHANGED <<dbVars, userLock, tick, venueVars, crashes>>

Answered(r, step, answer) ==
    tx' = [tx EXCEPT ![r].at = step, ![r].answer = answer]

\* What the HTTP client may report of a request the venue carried out or not.
\* A request that was carried out can still look refused: its response is
\* lost, the client repeats it, and the venue refuses the repeated nonce.
\* "odd" is a batch reply without exactly one item.
ReportOf(done) == IF done THEN {"ack", "odd", "lost", "refused"}
                          ELSE {"odd", "lost", "refused"}

\* _dispatch_real_submission: the POST.  The venue places an order only for a
\* nonce it has not accepted before.
SubmitPost(r) ==
    LET o == tx[r].order
        nonce == tx[r].view.nonce
    IN
    /\ At(r, "post")
    /\ \E placed \in BOOLEAN : \E answer \in ReportOf(placed) :
          /\ placed => nonce \notin used
          /\ Answered(r, "answer", answer)
          /\ venue' = IF placed THEN [venue EXCEPT ![o] = [@ EXCEPT !.state = "open"]]
                                ELSE venue
          /\ used' = IF placed THEN used \cup {nonce} ELSE used
          /\ execs' = IF placed THEN [execs EXCEPT ![o] = @ + 1] ELSE execs
    /\ UNCHANGED <<dbVars, lockVars, tick, holding, crashes>>

\* (mutant) The HTTP client waits for ever for a lost answer.
SubmitAnswerNoTimeout(r) ==
    /\ At(r, "answer") /\ tx[r].answer # "lost"
    /\ CommitRequest(r, [tx[r].view EXCEPT !.status =
                            CASE tx[r].answer = "ack" -> "acked"
                              [] tx[r].answer = "refused" -> "rejected"
                              [] OTHER -> @])
    /\ UNCHANGED <<expired, nextNonce, pos, writtenOff, tick, venueVars, crashes>>

\* _dispatch_real_submission: the outcome.  A timeout raises, and the route
\* rolls back; a reply without exactly one item leaves SUBMITTED.
SubmitAnswer(r) ==
    LET view == tx[r].view IN
    /\ At(r, "answer")
    /\ \/ tx[r].answer = "ack" /\ CommitRequest(r, [view EXCEPT !.status = "acked"])
       \/ tx[r].answer = "refused" /\ CommitRequest(r, [view EXCEPT !.status = "rejected"])
       \/ tx[r].answer = "odd" /\ CommitRequest(r, view)
       \/ tx[r].answer = "lost" /\ RollbackRequest(r)
    /\ UNCHANGED <<expired, nextNonce, pos, writtenOff, tick, venueVars, crashes>>

---------------------------------------------------------------------------
\* POST /cancel/prepare.  A terminal order is a replay, a SUBMITTED one is
\* denied, and neither changes anything.
PrepareCancelLoad(r, o) ==
    /\ \/ row[o].status = "pending" /\ Begin(r, o, "cancel_local")
       \/ /\ row[o].status \in {"acked", "partially_filled"}
          /\ NonceLeft
          /\ Begin(r, o, "lock_user")
    /\ UNCHANGED <<dbVars, lockVars, tick, venueVars, crashes>>

\* The PENDING branch: CANCELLED without a word to the venue.
CancelLocally(r) ==
    /\ At(r, "cancel_local")
    /\ rowLock[tx[r].order] = Free
    /\ CommitRequest(r, [tx[r].view EXCEPT !.status = "cancelled"])
    /\ UNCHANGED <<expired, nextNonce, pos, writtenOff, tick, venueVars, crashes>>

\* (mutant) A fresh cancel payload keeps the signature of the last one.
PrepareCancelKeepsSignature(r) ==
    /\ At(r, "lock_user")
    /\ userLock = Free
    /\ userLock' = r
    /\ nextNonce' = nextNonce + 1
    /\ tx' = [tx EXCEPT ![r].view.cnonce = nextNonce, ![r].at = "flush"]
    /\ UNCHANGED <<row, expired, pos, writtenOff, rowLock, tick, venueVars, crashes>>

\* SELECT users FOR UPDATE, a fresh nonce, and the new cancel payload on the
\* loaded order with no signature yet.
PrepareCancelLockUser(r) ==
    /\ At(r, "lock_user")
    /\ userLock = Free
    /\ userLock' = r
    /\ nextNonce' = nextNonce + 1
    /\ tx' = [tx EXCEPT ![r].view.cnonce = nextNonce, ![r].view.csig = 0,
                        ![r].at = "flush"]
    /\ UNCHANGED <<row, expired, pos, writtenOff, rowLock, tick, venueVars, crashes>>

\* The flush waits for the row while the user stays locked; then the commit.
PrepareCancelFlush(r) ==
    /\ At(r, "flush")
    /\ rowLock[tx[r].order] = Free
    /\ CommitRequest(r, tx[r].view)
    /\ UNCHANGED <<expired, nextNonce, pos, writtenOff, tick, venueVars, crashes>>

\* POST /cancel/submit.  A terminal order, an order whose cancel is signed, and
\* one whose cancel was never prepared are answered without a state change.  (A
\* malformed signature only records an error text.)
SubmitCancelLoad(r, o) ==
    /\ row[o].status \in Reconcilable
    /\ row[o].csig = 0 /\ row[o].cnonce # 0
    /\ Begin(r, o, "sign_cancel")
    /\ UNCHANGED <<dbVars, lockVars, tick, venueVars, crashes>>

SubmitCancelSign(r) ==
    /\ At(r, "sign_cancel")
    /\ LockRowAndSet(r, [tx[r].view EXCEPT !.csig = tx[r].view.cnonce], "post_cancel")
    /\ UNCHANGED <<dbVars, userLock, tick, venueVars, crashes>>

\* The order can still be filled at the venue.
Live(o) == venue[o].state = "open" /\ venue[o].filled < Size

\* _dispatch_real_cancel: the DELETE, of the payload as loaded.  Only a
\* live order can be cancelled.
SubmitCancelPost(r) ==
    LET o == tx[r].order
        nonce == tx[r].view.cnonce
    IN
    /\ At(r, "post_cancel")
    /\ \E done \in BOOLEAN : \E answer \in ReportOf(done) :
          /\ done => nonce \notin used /\ Live(o)
          /\ Answered(r, "answer_cancel", answer)
          /\ venue' = IF done THEN [venue EXCEPT ![o] = [@ EXCEPT !.state = "cancelled"]]
                              ELSE venue
          /\ used' = IF done THEN used \cup {nonce} ELSE used
    /\ UNCHANGED <<dbVars, lockVars, tick, execs, holding, crashes>>

\* _dispatch_real_cancel: the outcome.  A refusal and an odd reply only record
\* an error text, but the cancel signature stays on the row.
SubmitCancelAnswer(r) ==
    LET view == tx[r].view IN
    /\ At(r, "answer_cancel")
    /\ \/ tx[r].answer = "ack" /\ CommitRequest(r, [view EXCEPT !.status = "cancelled"])
       \/ tx[r].answer \in {"refused", "odd"} /\ CommitRequest(r, view)
       \/ tx[r].answer = "lost" /\ RollbackRequest(r)
    /\ UNCHANGED <<expired, nextNonce, pos, writtenOff, tick, venueVars, crashes>>

---------------------------------------------------------------------------
\* reconcile_open_orders.  A sweep visits the user only when some order is
\* reconcilable; it loads them all, each as committed now.
TickLoad ==
    /\ tick.at = "idle"
    /\ MayBegin
    /\ \E o \in Orders : row[o].status \in Reconcilable
    /\ tick' = [IdleTick EXCEPT !.at = "loaded", !.base = row, !.view = row, !.pos = pos]
    /\ UNCHANGED <<dbVars, lockVars, tx, venueVars, crashes>>

\* GET open orders.  An order that is not open at the venue is not listed, and
\* like one that shows no new fill it is left alone: listing 0 stands for both.
Listed(o) == IF venue[o].state = "open" THEN venue[o].filled ELSE 0

ListAndMark(marked) ==
    /\ tick.at = "loaded"
    /\ tick' = [tick EXCEPT !.at = "folding", !.listing = [o \in Orders |-> Listed(o)],
                            !.todo = marked]
    /\ UNCHANGED <<dbVars, lockVars, tx, venueVars, crashes>>

\* (mutant) Orders that show no new fill are folded too.
TickListAll == ListAndMark({o \in Orders : tick.view[o].status \in Reconcilable})

\* (mutant) Only acknowledged orders are looked at, not partly filled ones.
TickListAckedOnly ==
    ListAndMark({o \in Orders : /\ tick.view[o].status = "acked"
                                /\ Listed(o) > tick.view[o].filled})

TickList ==
    ListAndMark({o \in Orders : /\ tick.view[o].status \in Reconcilable
                                /\ Listed(o) > tick.view[o].filled})

\* A failed GET is swallowed for this user; what was folded is still committed.
TickHttpError ==
    /\ tick.at = "loaded" \/ (tick.at = "folding" /\ tick.todo = {})
    /\ tick' = [tick EXCEPT !.at = "commit"]
    /\ UNCHANGED <<dbVars, lockVars, tx, venueVars, crashes>>

Fold(o, filled, status, delta) ==
    /\ tick.at = "folding" /\ o \in tick.todo
    /\ rowLock[o] = Free
    /\ rowLock' = [rowLock EXCEPT ![o] = Tick]
    /\ tick' = [tick EXCEPT
          !.view[o].filled = filled, !.view[o].status = status,
          !.todo = @ \ {o},
          !.at = IF tick.pos = 0 THEN "opening" ELSE "folding",
          !.delta = delta,
          !.pos = IF @ = 0 THEN 0 ELSE @ + delta]
    /\ UNCHANGED <<dbVars, userLock, tx, venueVars, crashes>>

FillStatus(filled) == IF filled >= Size THEN "filled" ELSE "partially_filled"

\* (mutants) The venue's cumulative fill is added to ours; judged by the delta;
\* folded into the position whole.
TickFoldAdds(o) ==
    LET ours == tick.view[o].filled  theirs == tick.listing[o] IN
    Fold(o, ours + theirs, FillStatus(ours + theirs), theirs)

TickFoldJudgesDelta(o) ==
    LET ours == tick.view[o].filled  theirs == tick.listing[o] IN
    Fold(o, theirs, FillStatus(theirs - ours), theirs - ours)

TickFoldWhole(o) == Fold(o, tick.listing[o], FillStatus(tick.listing[o]), tick.listing[o])

\* _process_one_order_fill: the new cumulative fill and status of one order are
\* flushed, and the delta extends the OPEN position; a first position is
\* inserted by the next step.
TickFold(o) ==
    LET ours == tick.view[o].filled  theirs == tick.listing[o] IN
    Fold(o, theirs, FillStatus(theirs), theirs - ours)

\* _apply_spot_buy without a position: the INSERT's foreign key needs a share
\* of the users row, which it keeps until the commit.
TickOpenPosition ==
    /\ tick.at = "opening"
    /\ userLock \in {Free, Tick}
    /\ userLock' = Tick
    /\ tick' = [tick EXCEPT !.at = "folding", !.pos = tick.delta]
    /\ UNCHANGED <<dbVars, rowLock, tx, venueVars, crashes>>

\* GET balances and spot_reconcile_positions: a position of an asset the user
\* holds nothing of is closed.
TickBalances ==
    /\ tick.at = "folding" /\ tick.todo = {}
    /\ tick' = [tick EXCEPT !.at = "commit",
                            !.pos = IF holding = 0 THEN 0 ELSE @,
                            !.writtenOff = IF holding = 0 THEN tick.pos ELSE 0]
    /\ UNCHANGED <<dbVars, lockVars, tx, venueVars, crashes>>

TickCommit ==
    /\ tick.at = "commit"
    /\ row' = [o \in Orders |-> Merge(row[o], tick.base[o], tick.view[o])]
    /\ pos' = tick.pos
    /\ writtenOff' = writtenOff + tick.writtenOff
    /\ tick' = IdleTick
    /\ rowLock' = Unlock(rowLock, Tick)
    /\ userLock' = IF userLock = Tick THEN Free ELSE userLock
    /\ UNCHANGED <<expired, nextNonce, tx, venueVars, crashes>>

---------------------------------------------------------------------------
Expire(overdue) ==
    /\ MayBegin
    /\ overdue # {}
    /\ \A o \in overdue : rowLock[o] = Free
    /\ row' = [o \in Orders |-> IF o \in overdue THEN [row[o] EXCEPT !.status = "expired"]
                                ELSE row[o]]
    /\ UNCHANGED <<expired, nextNonce, pos, writtenOff, lockVars, tx, tick, venueVars, crashes>>

\* (mutants) SUBMITTED is forgotten; live orders are reaped too, as before REAP-2.
ReapPendingOnly == Expire({o \in expired : row[o].status = "pending"})

ReapLive == Expire({o \in expired : row[o].status \in Reconcilable})

\* expire_overdue_orders: one UPDATE over the orders that were never accepted
\* and whose nonce window has passed.  It waits for locked rows, judges them as
\* committed by then, and is committed by its wrapper at once.
Reap == Expire({o \in expired : row[o].status \in Overdue})

\* The clock passes nonce_expires_at (24 hours after the prepare).
NonceWindowCloses(o) ==
    /\ row[o].status # "absent" /\ o \notin expired
    /\ expired' = expired \cup {o}
    /\ UNCHANGED <<row, nextNonce, pos, writtenOff, lockVars, tx, tick, venueVars, crashes>>

---------------------------------------------------------------------------
\* The venue and the user's other tools.

\* A lot of a live order is filled: the user holds it.
VenueFill(o) ==
    /\ Live(o)
    /\ venue' = [venue EXCEPT ![o].filled = @ + 1]
    /\ holding' = holding + 1
    /\ UNCHANGED <<dbVars, lockVars, tx, tick, used, execs, crashes>>

\* A completely filled order leaves the book, perhaps after a sweep listed it.
VenueRemoves(o) ==
    /\ venue[o].state = "open" /\ venue[o].filled = Size
    /\ venue' = [venue EXCEPT ![o].state = "filled"]
    /\ UNCHANGED <<dbVars, lockVars, tx, tick, used, execs, holding, crashes>>

\* The order ends at the venue without us: its own time in force, or the user.
VenueCloses(o) ==
    /\ Live(o)
    /\ venue' = [venue EXCEPT ![o].state = "cancelled"]
    /\ UNCHANGED <<dbVars, lockVars, tx, tick, used, execs, holding, crashes>>

\* The user sells the whole balance at the venue, outside this program.
ExternalSell ==
    /\ holding > 0
    /\ holding' = 0
    /\ UNCHANGED <<dbVars, lockVars, tx, tick, venue, used, execs, crashes>>

---------------------------------------------------------------------------
\* PostgreSQL breaks a cycle of waits by failing one of the two transactions.
\* A prepare_cancel holds the user and waits for the order; the sweep holds
\* the order and waits for the user to insert a position.
DeadlockAbort(r) ==
    /\ At(r, "flush") /\ rowLock[tx[r].order] = Tick
    /\ tick.at = "opening" /\ userLock = r
    /\ \/ RollbackRequest(r) /\ UNCHANGED tick
       \/ /\ tick' = IdleTick
          /\ rowLock' = Unlock(rowLock, Tick)
          /\ UNCHANGED <<row, userLock, tx>>
    /\ UNCHANGED <<expired, nextNonce, pos, writtenOff, venueVars, crashes>>

\* The process dies: every open transaction is rolled back.
Crash ==
    /\ crashes < MaxCrashes
    /\ OpenRequests # {} \/ tick.at # "idle"
    /\ crashes' = crashes + 1
    /\ tx' = [r \in Requests |-> NoTx]
    /\ tick' = IdleTick
    /\ rowLock' = [o \in Orders |-> Free]
    /\ userLock' = Free
    /\ UNCHANGED <<dbVars, venueVars>>

---------------------------------------------------------------------------
RequestContinues(r) ==
    \/ SubmitReject(r) \/ SubmitSign(r) \/ SubmitPost(r) \/ SubmitAnswer(r)
    \/ CancelLocally(r) \/ PrepareCancelLockUser(r) \/ PrepareCancelFlush(r)
    \/ SubmitCancelSign(r) \/ SubmitCancelPost(r) \/ SubmitCancelAnswer(r)

TickContinues ==
    \/ TickList \/ TickHttpError \/ \E o \in Orders : TickFold(o)
    \/ TickOpenPosition \/ TickBalances \/ TickCommit

Next ==
    \/ \E o \in Orders : PrepareNew(o)
    \/ \E r \in Requests, o \in Orders :
          SubmitLoad(r, o) \/ PrepareCancelLoad(r, o) \/ SubmitCancelLoad(r, o)
    \/ \E r \in Requests : RequestContinues(r)
    \/ TickLoad
    \/ TickContinues
    \/ Reap
    \/ \E o \in Orders : NonceWindowCloses(o)
    \/ \E o \in Orders : VenueFill(o) \/ VenueRemoves(o) \/ VenueCloses(o)
    \/ ExternalSell
    \/ \E r \in Requests : DeadlockAbort(r)
    \/ Crash

Spec == Init /\ [][Next]_vars

\* What the program and its database do go on doing.  A begun request ends: the
\* HTTP client has a timeout and lock queues are first come first served (hence
\* strong fairness: others may take the lock in between).  APScheduler runs the
\* sweep and the reaper for ever, a sweep's GETs do not fail for ever, the
\* clock advances, and PostgreSQL breaks deadlocks.  Users and the venue's
\* market need never act.
Fairness ==
    /\ \A r \in Requests : SF_vars(RequestContinues(r)) /\ WF_vars(DeadlockAbort(r))
    /\ SF_vars(TickLoad) /\ SF_vars(TickContinues) /\ SF_vars(TickList)
    /\ SF_vars(Reap)
    /\ \A o \in Orders : WF_vars(NonceWindowCloses(o))

FairSpec == Spec /\ Fairness

---------------------------------------------------------------------------
\* Safety.

\* An order is placed at the venue at most once, however its submissions are
\* repeated, retried, overlapped, rolled back or crashed (submit_new's stored
\* nonce is what makes a second POST harmless).
AtMostOneExecution == \A o \in Orders : execs[o] <= 1

\* A status that claims the venue took the order is never shown for one it
\* never placed.
AckedOnlyIfPlaced ==
    \A o \in Orders :
        row[o].status \in {"acked", "partially_filled", "filled"} => execs[o] = 1

\* filled_size never claims more than the venue has filled.
FilledNeverAheadOfVenue == \A o \in Orders : row[o].filled <= venue[o].filled

\* A fill status agrees with filled_size, although the two columns are merged
\* separately into whatever other transactions committed meanwhile.
FillStatusAgreesWithSize ==
    \A o \in Orders :
        /\ row[o].status = "filled" => row[o].filled = Size
        /\ row[o].status = "partially_filled" => row[o].filled \in 1 .. Size - 1

\* Every recorded fill went into the position exactly once: what is open and
\* what the sweep wrote off add up to the filled_size of all orders.
FillsFoldedOnce ==
    pos + writtenOff = SumFunctionOnSet([o \in Orders |-> row[o].filled], Orders)

\* What makes the merging of stale copies harmless for nonces and fills: no
\* transaction changes a nonce; none but the sweep changes filled_size, which
\* is therefore still what the sweep loaded; and the sweep raises it, to
\* something the venue has reported.
RowAgrees(o) ==
    /\ row[o].status = "absent" => row[o].filled = 0 /\ execs[o] = 0
    /\ execs[o] > 0 => row[o].nonce \in used

RequestAgrees(r) ==
    LET o == tx[r].order  base == tx[r].base  view == tx[r].view IN
    /\ row[o].status # "absent" /\ view.status # "absent"
    /\ base.nonce = row[o].nonce /\ view.nonce = base.nonce
    /\ view.filled = base.filled

TickAgrees(o) ==
    LET base == tick.base[o]  view == tick.view[o] IN
    /\ row[o].status = "absent" => base.status = "absent"
    /\ (view.status = "absent") <=> (base.status = "absent")
    /\ base.status = "absent" => view.filled = base.filled
    /\ view.nonce = base.nonce
    /\ base.filled = row[o].filled
    /\ base.filled <= view.filled
    /\ view.filled <= venue[o].filled
    /\ tick.listing[o] <= venue[o].filled
    /\ o \in tick.todo => view.status # "absent" /\ tick.listing[o] > view.filled

CopiesAgree ==
    /\ \A o \in Orders : RowAgrees(o)
    /\ \A r \in Requests : tx[r] # NoTx => RequestAgrees(r)
    /\ tick.at # "idle" => \A o \in Orders : TickAgrees(o)

\* A recorded fill is never taken back by a stale copy of the row.
FilledMonotone == [][\A o \in Orders : row'[o].filled >= row[o].filled]_vars

\* The stored cancel signature signs the stored cancel payload.  prepare_cancel
\* clears the signature when it stores a fresh payload for this very reason.
CancelSignatureFitsPayload ==
    \A o \in Orders : row[o].csig # 0 => row[o].csig = row[o].cnonce

\* The rows as committed, read as the documented machine of statuses.
Machine == INSTANCE OrderStatusMachine WITH
    status <- [o \in Orders |-> row[o].status],
    filled <- [o \in Orders |-> row[o].filled]

\* With one transaction at a time the rows follow that machine: a terminal
\* status is final, and a live order is never expired.
FollowsStatusMachine == Machine!Spec

\* Liveness.

\* Every request's transaction ends, deadlocks and lock queues included.
RequestsEnd == \A r \in Requests : (tx[r] # NoTx) ~> (tx[r] = NoTx)

\* An order whose nonce window has passed does not stay PENDING or SUBMITTED.
OverdueLeavesFlight ==
    \A o \in Orders : (o \in expired /\ row[o].status \in Overdue)
                      ~> row[o].status \notin Overdue

\* A fill of an order that stays open at the venue is recorded in the end,
\* unless its row has left the set the sweep looks at.
FillsEventuallyRecorded ==
    \A o \in Orders :
        (venue[o].state = "open" /\ venue[o].filled > 0)
        ~> \/ venue[o].state # "open"
           \/ row[o].status \in Terminal
           \/ row[o].filled = venue[o].filled

---------------------------------------------------------------------------
\* What the documentation says and the code does not do: each is refuted.

\* models/order.py: "terminal states are never re-opened".
TerminalNeverReopened ==
    [][\A o \in Orders : row[o].status \in Terminal => row'[o].status = row[o].status]_vars

\* No request is in progress that could still correct the row it is about.
Settled == \A r \in Requests : tx[r] = NoTx

\* reapers.py: the reaper terminalises orders "never accepted by the venue".
ExpiredNeverLive ==
    Settled => \A o \in Orders : row[o].status = "expired" => ~Live(o)

\* reconcile.py on an order missing at the venue: "nonce expiry will
\* terminalise".
MissingEventuallyTerminal ==
    \A o \in Orders : (row[o].status = "acked" /\ venue[o].state # "open")
                      ~> row[o].status \in Terminal

===========================================================================
