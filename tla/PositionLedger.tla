-------------------------- MODULE PositionLedger --------------------------
(***************************************************************************)
(* The positions of one user in one asset on one venue, spot or perps:      *)
(* spot_apply_fill and perps_apply_fill (pipeline/execution/positions_*.py) *)
(* as they are called by paper submissions (_simulate_paper_fill, one HTTP  *)
(* transaction each) and by the reconcile sweep for real orders.            *)
(*                                                                          *)
(* A submission reads the order, locks its row with its first UPDATE, and   *)
(* locks no row of positions: apply_fill selects the OPEN row, computes,    *)
(* and updates that row by its id with the columns that changed, or inserts *)
(* a row.  No constraint of the table keeps a second OPEN row out.          *)
(*                                                                          *)
(* Sizes are lots; prices are left out.  So are conditional orders, which   *)
(* rest ACKED and never fill on paper, and the ways a PENDING order ends    *)
(* without a fill, which leave positions alone (see OrderLifecycle).        *)
(***************************************************************************)
EXTENDS Integers, Sequences, FiniteSets

CONSTANTS
    Orders,       \* the orders the user may have filled
    Submissions,  \* the submit requests that may be in progress at once
    MaxSize       \* bound: lots of one order

NoOrder == "no order"  \* the order of a request that is not in progress

ASSUME SizeAssumption == MaxSize \in Nat
ASSUME NoOrderAssumption == NoOrder \notin Orders

Sides == {"long", "short"}
Order == [status : {"absent", "pending", "filled", "rejected"}, side : Sides,
          size : Nat, filled : Nat, reduceOnly : BOOLEAN, paper : BOOLEAN]
Position == [status : {"none", "open", "closed"}, side : Sides, size : Nat, paper : BOOLEAN]

\* A request that has loaded its order is "loaded"; once it holds the order's row
\* lock and has read position row (0: none) as base, it is "read".
Request == [at : {"idle", "loaded", "read"}, order : Orders \cup {NoOrder},
            row : Nat, base : Position]

Unprepared == [status |-> "absent", side |-> "long", size |-> 0, filled |-> 0,
               reduceOnly |-> FALSE, paper |-> FALSE]
NoPosition == [status |-> "none", side |-> "long", size |-> 0, paper |-> FALSE]
Idle == [at |-> "idle", order |-> NoOrder, row |-> 0, base |-> NoPosition]

VARIABLES
    perps,  \* TRUE for the perps venue, FALSE for spot; never changes
    order,  \* [Orders -> Order]: the orders; side is the side a fill pushes to
    pos,    \* the rows of positions, in the order of their ids
    tx,     \* [Submissions -> Request]: the submit requests
    ideal,  \* by paper flag, the signed exposure if each order filled once, in turn
    overlapped  \* two submissions have been in progress at once

vars == <<perps, order, pos, tx, ideal, overlapped>>

TypeOK ==
    /\ order \in [Orders -> Order]
    /\ pos \in Seq(Position)
    /\ tx \in [Submissions -> Request]
    /\ ideal \in [BOOLEAN -> Int]
    /\ perps \in BOOLEAN /\ overlapped \in BOOLEAN

Init ==
    /\ order = [o \in Orders |-> Unprepared]
    /\ pos = << >>
    /\ tx = [s \in Submissions |-> Idle]
    /\ ideal = [paper \in BOOLEAN |-> 0]
    /\ perps \in BOOLEAN /\ overlapped = FALSE

---------------------------------------------------------------------------
OpenRows(paper) == {p \in DOMAIN pos : pos[p].status = "open" /\ pos[p].paper = paper}

\* scalar_one_or_none finds row p, or none (0); it raises on several rows.
IsExisting(p, paper) == IF p = 0 THEN OpenRows(paper) = {} ELSE OpenRows(paper) = {p}

RowAt(p) == IF p = 0 THEN NoPosition ELSE pos[p]

\* (mutant) A fill without a position to reduce, or on its side, goes through.
RefusesNothing(o, row) == ~perps /\ row = NoPosition /\ order[o].side = "short"

\* A reduce-only perps fill needs an opposite position.
PerpsRefuses(o, row) == order[o].reduceOnly /\ (row = NoPosition \/ row.side = order[o].side)

\* _apply_spot_sell: a sale without a position.
SpotRefuses(o, row) == row = NoPosition /\ order[o].side = "short"

\* A fill that is dropped.
Refuses(o, row) == IF perps THEN PerpsRefuses(o, row) ELSE SpotRefuses(o, row)

\* _perps_reduce_or_close, _apply_spot_sell: what exceeds the position is
\* dropped, and a position of nothing is closed.
Reduced(row, n) ==
    IF n < row.size THEN [row EXCEPT !.size = @ - n]
                    ELSE [row EXCEPT !.size = 0, !.status = "closed"]

\* _perps_extend, _apply_spot_buy
Extended(row, n) == [row EXCEPT !.size = @ + n]

\* The row after n more lots of order o: spot_apply_fill goes by the order's side,
\* perps_apply_fill by whether the two sides agree.
SpotAfter(o, row, n) == IF order[o].side = "long" THEN Extended(row, n) ELSE Reduced(row, n)
PerpsAfter(o, row, n) == IF row.side = order[o].side THEN Extended(row, n) ELSE Reduced(row, n)
After(o, row, n) == IF perps THEN PerpsAfter(o, row, n) ELSE SpotAfter(o, row, n)

\* _perps_open, _apply_spot_buy
Opened(o, n) ==
    [status |-> "open", side |-> order[o].side, size |-> n, paper |-> order[o].paper]

\* UPDATE ... WHERE id: the columns that changed since the row was loaded.
Merge(cur, base, view) ==
    [cur EXCEPT !.size = IF view.size = base.size THEN @ ELSE view.size,
                !.status = IF view.status = base.status THEN @ ELSE view.status]

\* The committed fill of order o by n lots, when p was found and read as base.
ApplyFill(o, n, p, base) ==
    pos' = IF Refuses(o, base) THEN pos
           ELSE IF p = 0 THEN Append(pos, Opened(o, n))
           ELSE [pos EXCEPT ![p] = Merge(@, base, After(o, base, n))]

---------------------------------------------------------------------------
\* The reference: one signed number per book, settled fill by fill.
Signed(side, n) == IF side = "long" THEN n ELSE 0 - n

Settled(exposure, o, n) ==
    LET delta == Signed(order[o].side, n)
        opposite == IF delta < 0 THEN exposure > 0 ELSE exposure < 0
    IN  CASE opposite /\ n < exposure -> exposure + delta
          [] opposite /\ n < 0 - exposure -> exposure + delta
          [] opposite /\ ~(n < exposure) /\ ~(n < 0 - exposure) -> 0
          [] ~opposite /\ perps /\ order[o].reduceOnly -> exposure
          [] ~opposite /\ ~perps /\ delta < 0 -> exposure
          [] OTHER -> exposure + delta

---------------------------------------------------------------------------
\* simulate_fill: always the whole order.
PaperFill(o) == order[o].size

\* prepare_new commits a PENDING order in the user's current mode.  The risk
\* gate lets only perps orders be reduce-only.
Prepare(o) ==
    /\ order[o].status = "absent"
    /\ \E side \in Sides, n \in 1 .. MaxSize, reduceOnly \in {FALSE, perps}, paper \in BOOLEAN :
          order' = [order EXCEPT ![o] = [status |-> "pending", side |-> side, size |-> n,
                        filled |-> 0, reduceOnly |-> reduceOnly, paper |-> paper]]
    /\ UNCHANGED <<perps, pos, tx, ideal, overlapped>>

\* submit_new loads a paper order that is PENDING (any other is a replay).
SubmitLoad(s, o) ==
    /\ tx[s].at = "idle" /\ order[o].status = "pending" /\ order[o].paper
    /\ tx' = [tx EXCEPT ![s] = [Idle EXCEPT !.at = "loaded", !.order = o]]
    /\ overlapped' = (overlapped \/ \E q \in Submissions : tx[q].at # "idle")
    /\ UNCHANGED <<perps, order, pos, ideal>>

\* The flush of SUBMITTED waits for the order's row lock and looks at nothing;
\* then apply_fill's SELECT finds the OPEN row.
SubmitRead(s) ==
    /\ tx[s].at = "loaded"
    /\ \A q \in Submissions : tx[q].at = "read" => tx[q].order # tx[s].order
    /\ \E p \in 0 .. Len(pos) :
          /\ IsExisting(p, TRUE)
          /\ tx' = [tx EXCEPT ![s] = [at |-> "read", order |-> tx[s].order,
                                      row |-> p, base |-> RowAt(p)]]
    /\ UNCHANGED <<perps, order, pos, ideal, overlapped>>

\* The rest of _simulate_paper_fill and the commit: FILLED in full, or REJECTED
\* when a reduce-only order had nothing to reduce.
SubmitCommit(s) ==
    LET t == tx[s]  o == t.order  n == PaperFill(o) IN
    /\ t.at = "read"
    /\ ApplyFill(o, n, t.row, t.base)
    /\ order' = IF Refuses(o, t.base) /\ order[o].reduceOnly
                THEN [order EXCEPT ![o].status = "rejected"]
                ELSE [order EXCEPT ![o].status = "filled", ![o].filled = n]
    /\ ideal' = [ideal EXCEPT ![TRUE] = IF order[o].filled = n THEN @ ELSE Settled(@, o, n)]
    /\ tx' = [tx EXCEPT ![s] = Idle]
    /\ UNCHANGED <<perps, overlapped>>

\* (mutant) The rollback of a submission keeps what it did to the position.
SubmitRollbackHalf(s) ==
    /\ tx[s].at # "idle"
    /\ IF tx[s].at = "read"
       THEN ApplyFill(tx[s].order, order[tx[s].order].size, tx[s].row, tx[s].base)
       ELSE UNCHANGED pos
    /\ tx' = [tx EXCEPT ![s] = Idle]
    /\ UNCHANGED <<perps, order, ideal, overlapped>>

\* The submission fails (several OPEN rows, a lost connection) or the process
\* dies before the commit.
SubmitRollback(s) ==
    /\ tx[s].at # "idle"
    /\ tx' = [tx EXCEPT ![s] = Idle]
    /\ UNCHANGED <<perps, order, pos, ideal, overlapped>>

---------------------------------------------------------------------------
\* (mutant) The whole filled size is folded, not what is new of it.
FoldWhole(o) ==
    /\ order[o].status = "pending" /\ ~order[o].paper
    /\ \E filled \in order[o].filled + 1 .. order[o].size : \E p \in 0 .. Len(pos) :
          /\ IsExisting(p, FALSE)
          /\ ApplyFill(o, filled, p, RowAt(p))
          /\ ideal' = [ideal EXCEPT ![FALSE] = Settled(@, o, filled - order[o].filled)]
          /\ order' = [order EXCEPT ![o].status = IF filled = order[o].size THEN "filled" ELSE @,
                                    ![o].filled = filled]
    /\ UNCHANGED <<perps, tx, overlapped>>

\* A sweep finds a real order filled further (_process_one_order_fill) and folds
\* the difference.  Sweeps do not overlap, and nothing else writes real rows.
Fold(o) ==
    /\ order[o].status = "pending" /\ ~order[o].paper
    /\ \E filled \in order[o].filled + 1 .. order[o].size : \E p \in 0 .. Len(pos) :
          LET delta == filled - order[o].filled IN
          /\ IsExisting(p, FALSE)
          /\ ApplyFill(o, delta, p, RowAt(p))
          /\ ideal' = [ideal EXCEPT ![FALSE] = Settled(@, o, delta)]
          /\ order' = [order EXCEPT ![o].status = IF filled = order[o].size THEN "filled" ELSE @,
                                    ![o].filled = filled]
    /\ UNCHANGED <<perps, tx, overlapped>>

\* spot_reconcile_positions, perps_reconcile_positions, at the end of a sweep:
\* the venue shows nothing of the asset (sold elsewhere, or liquidated), so the
\* real OPEN rows are closed, their size left as it was.  (A sweep looks at users
\* with an active real order; a fold of the same sweep may have completed it.)
CloseAbsent ==
    /\ OpenRows(FALSE) # {}
    /\ pos' = [p \in DOMAIN pos |-> IF p \in OpenRows(FALSE)
                                    THEN [pos[p] EXCEPT !.status = "closed"] ELSE pos[p]]
    /\ ideal' = [ideal EXCEPT ![FALSE] = 0]
    /\ UNCHANGED <<perps, order, tx, overlapped>>

Next ==
    \/ \E o \in Orders : Prepare(o) \/ Fold(o)
    \/ \E s \in Submissions, o \in Orders : SubmitLoad(s, o)
    \/ \E s \in Submissions : SubmitRead(s) \/ SubmitCommit(s) \/ SubmitRollback(s)
    \/ CloseAbsent

Spec == Init /\ [][Next]_vars

---------------------------------------------------------------------------
\* A position that is OPEN has a size: whatever updates interleave, no OPEN row
\* of size 0 is left (the close endpoint answers such a position with 422).
OpenHasSize == \A p \in DOMAIN pos : pos[p].status = "open" => pos[p].size > 0

\* At most one row of a book is OPEN, with the side and the size its fills leave
\* when each order is settled once, in turn.
ExactBook(paper) ==
    /\ OpenRows(paper) = {} => ideal[paper] = 0
    /\ \A p \in OpenRows(paper) :
          OpenRows(paper) = {p} /\ ideal[paper] = Signed(pos[p].side, pos[p].size)

\* The real book is exact whatever paper submissions do meanwhile.
RealBookExact == ExactBook(FALSE)

\* The paper book is exact as long as no two submissions overlap.
PaperBookExact == ~overlapped => ExactBook(TRUE)

\* As long as no two submissions overlap, a reduce-only fill opens no row and
\* grows none: on that ground the exposure caps are waived for such orders.
ReduceOnlyNeverGrows ==
    [][~overlapped =>
          \A o \in Orders :
              (order[o].reduceOnly /\ order'[o].filled # order[o].filled) =>
                  /\ Len(pos') = Len(pos)
                  /\ \A p \in DOMAIN pos : pos'[p].size <= pos[p].size]_vars

\* Refuted: positions_perps.py promises "one OPEN row per (user, asset, venue)
\* at any given time".
OneOpenRow == \A paper \in BOOLEAN : Cardinality(OpenRows(paper)) <= 1

\* Refuted: submit_new says that its replay guard "closes the 'user
\* double-clicks submit' duplication path".  The commit of a submission whose
\* paper order is FILLED by now moves no position again.
PaperFillsOnce ==
    [][\A s \in Submissions :
          (tx[s].at = "read" /\ tx'[s].at = "idle"
             /\ order[tx[s].order].status = "filled") => pos' = pos]_vars

===========================================================================
