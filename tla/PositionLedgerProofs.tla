----------------------- MODULE PositionLedgerProofs -----------------------
(***************************************************************************)
(* PositionLedger for any number of orders, of any size, and of overlapping *)
(* submissions.  A submission works on the copy of a paper row that was     *)
(* OPEN when it was read; by its commit the row may have any size, or be    *)
(* closed, but it is still a paper row of that side: TxAgrees.  As long as  *)
(* submissions come one at a time the copy is the row itself: Serial.       *)
(***************************************************************************)
EXTENDS PositionLedger, TLAPS

OrdersHaveSize ==
    \A o \in Orders : order[o].status # "absent" =>
        order[o].size > 0 /\ order[o].filled <= order[o].size

TxAgrees(s) ==
    /\ tx[s].at # "idle" =>
          /\ tx[s].order \in Orders
          /\ order[tx[s].order].status # "absent" /\ order[tx[s].order].paper
    /\ tx[s].at = "read" =>
          \/ tx[s].row = 0 /\ tx[s].base = NoPosition
          \/ /\ tx[s].row \in DOMAIN pos
             /\ tx[s].base.status = "open" /\ tx[s].base.size > 0
             /\ pos[tx[s].row].paper /\ pos[tx[s].row].side = tx[s].base.side

\* On the spot venue there is nothing to sell short.
SpotIsLong == ~perps => \A p \in DOMAIN pos : pos[p].side = "long"

Inductive ==
    /\ TypeOK /\ OrdersHaveSize /\ OpenHasSize /\ SpotIsLong /\ RealBookExact
    /\ \A s \in Submissions : TxAgrees(s)

---------------------------------------------------------------------------
LEMMA FunctionUpdate ==
    ASSUME NEW S, NEW T, NEW f \in [S -> T], NEW x \in S, NEW v \in T
    PROVE  /\ [f EXCEPT ![x] = v] \in [S -> T] /\ [f EXCEPT ![x] = v][x] = v
           /\ \A y \in S \ {x} : [f EXCEPT ![x] = v][y] = f[y]
OBVIOUS

LEMMA FunctionSequence ==
    ASSUME NEW S, NEW n \in Nat, NEW f \in [1 .. n -> S]
    PROVE  f \in Seq(S) /\ Len(f) = n
OBVIOUS

LEMMA NoPositionType == NoPosition \in Position /\ Unprepared \in Order
BY DEF NoPosition, Position, Sides, Unprepared, Order

LEMMA InitInductive == Init => Inductive
<1> SUFFICES ASSUME Init PROVE Inductive
    OBVIOUS
<1>1. TypeOK
  <2>1. Idle \in Request
      BY NoPositionType DEF Idle, Request
  <2>2. pos \in Seq(Position)
      BY DEF Init
  <2>3. order \in [Orders -> Order] /\ tx \in [Submissions -> Request]
      BY <2>1, NoPositionType DEF Init
  <2>4. ideal \in [BOOLEAN -> Int]
      BY DEF Init
  <2>5. perps \in BOOLEAN /\ overlapped \in BOOLEAN
      BY DEF Init
  <2>6. QED BY <2>2, <2>3, <2>4, <2>5 DEF TypeOK
<1>2. OrdersHaveSize /\ OpenHasSize /\ SpotIsLong /\ \A s \in Submissions : TxAgrees(s)
    BY DEF Init, OrdersHaveSize, OpenHasSize, SpotIsLong, TxAgrees, Unprepared, Idle
<1>3. RealBookExact
  <2>1. DOMAIN pos = {} /\ ideal[FALSE] = 0
      BY DEF Init
  <2>2. QED BY <2>1 DEF RealBookExact, ExactBook, OpenRows
<1>4. QED BY <1>1, <1>2, <1>3 DEF Inductive

---------------------------------------------------------------------------
\* A fill of an OPEN row leaves a row that is open with a size or closed, and
\* changes the size; it keeps side and book.
LEMMA AfterFill ==
    ASSUME NEW o \in Orders, TypeOK, NEW n \in Nat, n > 0,
           NEW r \in Position, r.status = "open", r.size > 0
    PROVE  /\ After(o, r, n) \in Position
           /\ After(o, r, n).side = r.side /\ After(o, r, n).paper = r.paper
           /\ After(o, r, n).size # r.size
           /\ \/ After(o, r, n).status = "open" /\ After(o, r, n).size > 0
              \/ After(o, r, n).status = "closed"
<1>1. CASE After(o, r, n) = Extended(r, n)
    BY <1>1 DEF Extended, Position
<1>2. CASE After(o, r, n) = Reduced(r, n) /\ n < r.size
    BY <1>2 DEF Reduced, Position
<1>3. CASE After(o, r, n) = Reduced(r, n) /\ ~(n < r.size)
  <2>1. After(o, r, n) = [r EXCEPT !.size = 0, !.status = "closed"]
      BY <1>3 DEF Reduced
  <2>2. r = [status |-> r.status, side |-> r.side, size |-> r.size, paper |-> r.paper]
      BY DEF Position
  <2>3. After(o, r, n) = [status |-> "closed", side |-> r.side, size |-> 0, paper |-> r.paper]
      BY <2>1, <2>2
  <2>4. QED BY <2>3 DEF Position
<1>4. After(o, r, n) \in {Extended(r, n), Reduced(r, n)}
    BY DEF After, SpotAfter, PerpsAfter
<1>5. QED BY <1>1, <1>2, <1>3, <1>4

LEMMA OpenedRow ==
    ASSUME NEW o \in Orders, TypeOK, NEW n \in Nat
    PROVE  /\ Opened(o, n) \in Position
           /\ Opened(o, n).status = "open" /\ Opened(o, n).size = n
           /\ Opened(o, n).side = order[o].side /\ Opened(o, n).paper = order[o].paper
BY DEF Opened, Position, TypeOK, Order

\* Merging a fill into whatever the row has become keeps the row's side and
\* book, and an OPEN row keeps a size.
LEMMA MergedRow ==
    ASSUME NEW cur \in Position, NEW base \in Position, NEW view \in Position,
           base.status = "open", view.size # base.size,
           (view.status = "open" /\ view.size > 0) \/ view.status = "closed"
    PROVE  /\ Merge(cur, base, view) \in Position
           /\ Merge(cur, base, view).side = cur.side
           /\ Merge(cur, base, view).paper = cur.paper
           /\ Merge(cur, base, view).status = "open" =>
                 cur.status = "open" /\ Merge(cur, base, view).size > 0
           /\ cur = base => Merge(cur, base, view).size = view.size
                            /\ Merge(cur, base, view).status = view.status
BY DEF Merge, Position

\* Row p was found OPEN, and read as base, for order o.
Found(o, p, base) ==
    \/ p = 0 /\ base = NoPosition
    \/ /\ p \in DOMAIN pos /\ base.status = "open" /\ base.size > 0
       /\ pos[p].paper = order[o].paper /\ pos[p].side = base.side

\* What a committed fill of order o does to the table.
RowsAfterFill(o) ==
    /\ pos' \in Seq(Position) /\ OpenHasSize' /\ DOMAIN pos \subseteq DOMAIN pos'
    /\ \A q \in DOMAIN pos :
          /\ pos'[q].side = pos[q].side /\ pos'[q].paper = pos[q].paper
          /\ pos[q].paper # order[o].paper => pos'[q] = pos[q]
    /\ \A q \in DOMAIN pos' \ DOMAIN pos :
          /\ pos'[q].paper = order[o].paper
          /\ ~perps => pos'[q].side = "long"

LEMMA FillRows ==
    ASSUME TypeOK, OpenHasSize, NEW o \in Orders, NEW n \in Nat, n > 0,
           NEW p \in Nat, NEW base \in Position, ApplyFill(o, n, p, base),
           Found(o, p, base)
    PROVE  RowsAfterFill(o)
<1>1. pos \in Seq(Position) /\ DOMAIN pos = 1 .. Len(pos) /\ Len(pos) \in Nat
    BY DEF TypeOK
<1>2. CASE Refuses(o, base)
    BY <1>1, <1>2 DEF ApplyFill, OpenHasSize, RowsAfterFill
<1>3. CASE ~Refuses(o, base) /\ p = 0
  <2>1. pos' = Append(pos, Opened(o, n))
      BY <1>3 DEF ApplyFill
  <2>2. /\ pos' \in Seq(Position) /\ DOMAIN pos' = 1 .. Len(pos) + 1
        /\ \A q \in DOMAIN pos : pos'[q] = pos[q]
        /\ pos'[Len(pos) + 1] = Opened(o, n)
      BY <1>1, <2>1, OpenedRow
  <2>3. \A q \in DOMAIN pos' : q \in DOMAIN pos \/ q = Len(pos) + 1
      BY <1>1, <2>2
  <2>4. order[o].side \in {"long", "short"} /\ (~perps => order[o].side = "long")
      BY <1>3 DEF Found, Refuses, PerpsRefuses, SpotRefuses, TypeOK, Order, Sides
  <2>5. QED BY <1>1, <2>2, <2>3, <2>4, OpenedRow DEF OpenHasSize, RowsAfterFill
<1>4. CASE ~Refuses(o, base) /\ p # 0
  <2> DEFINE view == After(o, base, n)
             merged == Merge(pos[p], base, view)
  <2>1. p \in DOMAIN pos /\ base.status = "open" /\ base.size > 0
        /\ pos[p].paper = order[o].paper /\ pos[p] \in Position
      BY <1>1, <1>4 DEF Found
  <2>2. pos' = [pos EXCEPT ![p] = merged]
      BY <1>4 DEF ApplyFill
  <2>3. /\ view \in Position /\ view.size # base.size
        /\ (view.status = "open" /\ view.size > 0) \/ view.status = "closed"
      BY <2>1, AfterFill
  <2>4. /\ merged \in Position /\ merged.side = pos[p].side /\ merged.paper = pos[p].paper
        /\ merged.status = "open" => merged.size > 0
      BY <2>1, <2>3, MergedRow
  <2>5. /\ pos' \in Seq(Position) /\ DOMAIN pos' = DOMAIN pos /\ pos'[p] = merged
        /\ \A q \in DOMAIN pos \ {p} : pos'[q] = pos[q]
      BY <1>1, <2>1, <2>2, <2>4
  <2>6. QED BY <2>1, <2>4, <2>5 DEF OpenHasSize, RowsAfterFill
<1>5. QED BY <1>2, <1>3, <1>4

---------------------------------------------------------------------------
\* The reference, case by case.
SettlesAs(exposure, o, n) ==
    /\ order[o].side = "long" /\ exposure >= 0 =>
          Settled(exposure, o, n) =
              IF perps /\ order[o].reduceOnly THEN exposure ELSE exposure + n
    /\ order[o].side = "long" /\ exposure < 0 =>
          Settled(exposure, o, n) = IF n < 0 - exposure THEN exposure + n ELSE 0
    /\ order[o].side = "short" /\ exposure <= 0 =>
          Settled(exposure, o, n) =
              IF ~perps \/ order[o].reduceOnly THEN exposure ELSE exposure - n
    /\ order[o].side = "short" /\ exposure > 0 =>
          Settled(exposure, o, n) = IF n < exposure THEN exposure - n ELSE 0

LEMMA SettledCases ==
    ASSUME TypeOK, NEW o \in Orders, NEW n \in Nat, n > 0, NEW exposure \in Int
    PROVE  SettlesAs(exposure, o, n)
<1> DEFINE delta == Signed(order[o].side, n)
<1>1. CASE order[o].side = "long"
  <2>1. delta = n
      BY <1>1 DEF Signed
  <2>2. CASE exposure >= 0
      BY <1>1, <2>1, <2>2 DEF Settled, SettlesAs
  <2>3. CASE exposure < 0
      BY <1>1, <2>1, <2>3 DEF Settled, SettlesAs
  <2>4. QED BY <1>1, <2>2, <2>3
<1>2. CASE order[o].side = "short"
  <2>1. delta = 0 - n
      BY <1>2 DEF Signed
  <2>2. CASE exposure <= 0
      BY <1>2, <2>1, <2>2 DEF Settled, SettlesAs
  <2>3. CASE exposure > 0
      BY <1>2, <2>1, <2>3 DEF Settled, SettlesAs
  <2>4. QED BY <1>2, <2>2, <2>3
<1>3. QED BY <1>1, <1>2 DEF TypeOK, Order, Sides

\* A step that leaves the rows of a book alone leaves an exact book exact.
LEMMA BookFrame ==
    ASSUME NEW book \in BOOLEAN, ExactBook(book), ideal'[book] = ideal[book],
           DOMAIN pos \subseteq DOMAIN pos',
           \A q \in DOMAIN pos : /\ pos'[q].paper = pos[q].paper
                                 /\ pos[q].paper = book => pos'[q] = pos[q],
           \A q \in DOMAIN pos' \ DOMAIN pos : pos'[q].paper # book
    PROVE  ExactBook(book)' /\ OpenRows(book)' = OpenRows(book)
<1>1. OpenRows(book)' = OpenRows(book)
    BY DEF OpenRows
<1>2. \A q \in OpenRows(book) : pos'[q] = pos[q]
    BY DEF OpenRows
<1>3. QED BY <1>1, <1>2 DEF ExactBook

---------------------------------------------------------------------------
\* The steps that fill nothing.
LEMMA PreparePreserves ==
    ASSUME Inductive, NEW o \in Orders, Prepare(o)
    PROVE  Inductive'
<1>1. PICK side \in Sides, n \in 1 .. MaxSize, reduceOnly \in {FALSE, perps}, paper \in BOOLEAN :
          order' = [order EXCEPT ![o] = [status |-> "pending", side |-> side, size |-> n,
                        filled |-> 0, reduceOnly |-> reduceOnly, paper |-> paper]]
    BY DEF Prepare
<1>2. /\ order' \in [Orders -> Order]
      /\ order'[o].status = "pending" /\ order'[o].size > 0 /\ order'[o].filled = 0
      /\ \A q \in Orders \ {o} : order'[q] = order[q]
  <2> DEFINE row == [status |-> "pending", side |-> side, size |-> n,
                     filled |-> 0, reduceOnly |-> reduceOnly, paper |-> paper]
  <2>1. order \in [Orders -> Order] /\ reduceOnly \in BOOLEAN /\ n \in Nat /\ n > 0
    <3>1. order \in [Orders -> Order] /\ perps \in BOOLEAN
        BY DEF Inductive, TypeOK
    <3>2. reduceOnly \in BOOLEAN
        BY <3>1, Zenon
    <3>3. n \in Nat /\ n > 0
        BY SizeAssumption
    <3>4. QED BY <3>1, <3>2, <3>3
  <2>2. row \in Order
      BY <2>1 DEF Order
  <2>3. order' = [order EXCEPT ![o] = row]
      BY <1>1
  <2>4. /\ order' \in [Orders -> Order] /\ order'[o] = row
        /\ \A q \in Orders \ {o} : order'[q] = order[q]
      BY <2>1, <2>2, <2>3
  <2>5. row.status = "pending" /\ row.size > 0 /\ row.filled = 0
      BY <2>1
  <2>6. QED BY <2>4, <2>5
<1>3. order[o].status = "absent" /\ UNCHANGED <<perps, pos, tx, ideal, overlapped>>
    BY DEF Prepare
<1>4. TypeOK' /\ OpenHasSize' /\ SpotIsLong' /\ RealBookExact'
    BY <1>2, <1>3
    DEF Inductive, TypeOK, OpenHasSize, SpotIsLong, RealBookExact, ExactBook, OpenRows
<1>5. OrdersHaveSize'
  <2>1. order'[o].size \in Nat
      BY <1>2 DEF Order
  <2>2. QED BY <1>2, <2>1 DEF Inductive, OrdersHaveSize
<1>6. ASSUME NEW s \in Submissions PROVE TxAgrees(s)'
    BY <1>2, <1>3 DEF Inductive, TxAgrees
<1>7. QED BY <1>4, <1>5, <1>6 DEF Inductive

\* A step that changes the requests alone.
LEMMA RequestStepPreserves ==
    ASSUME Inductive, UNCHANGED <<perps, order, pos, ideal>>, overlapped' \in BOOLEAN,
           NEW s \in Submissions, NEW t \in Request, tx' = [tx EXCEPT ![s] = t], TxAgrees(s)'
    PROVE  Inductive'
<1>1. TypeOK' /\ OrdersHaveSize' /\ OpenHasSize' /\ SpotIsLong' /\ RealBookExact'
    BY DEF Inductive, TypeOK, OrdersHaveSize, OpenHasSize, SpotIsLong, RealBookExact,
           ExactBook, OpenRows
<1>2. ASSUME NEW q \in Submissions PROVE TxAgrees(q)'
  <2>1. CASE q = s
      BY <2>1
  <2>2. CASE q # s
    <3>1. tx'[q] = tx[q]
        BY <2>2 DEF Inductive, TypeOK
    <3>2. QED BY <3>1 DEF Inductive, TxAgrees
  <2>3. QED BY <2>1, <2>2
<1>3. QED BY <1>1, <1>2 DEF Inductive

LEMMA IdleType == Idle \in Request /\ Idle.at = "idle"
BY NoPositionType DEF Idle, Request

LEMMA SubmitLoadPreserves ==
    ASSUME Inductive, NEW s \in Submissions, NEW o \in Orders, SubmitLoad(s, o)
    PROVE  Inductive'
<1> DEFINE t == [Idle EXCEPT !.at = "loaded", !.order = o]
<1>1. t \in Request /\ t.at = "loaded" /\ t.order = o
    BY NoPositionType DEF Idle, Request
<1>2. tx' = [tx EXCEPT ![s] = t] /\ tx'[s] = t
    BY DEF SubmitLoad, Inductive, TypeOK
<1>3. UNCHANGED <<perps, order, pos, ideal>> /\ overlapped' \in BOOLEAN
    BY DEF SubmitLoad, Inductive, TypeOK
<1>4. TxAgrees(s)'
    BY <1>1, <1>2, <1>3 DEF SubmitLoad, TxAgrees
<1>5. QED BY <1>1, <1>2, <1>3, <1>4, RequestStepPreserves

LEMMA SubmitReadPreserves ==
    ASSUME Inductive, NEW s \in Submissions, SubmitRead(s)
    PROVE  Inductive'
<1>1. PICK p \in 0 .. Len(pos) :
          /\ IsExisting(p, TRUE)
          /\ tx' = [tx EXCEPT ![s] = [at |-> "read", order |-> tx[s].order,
                                      row |-> p, base |-> RowAt(p)]]
    BY DEF SubmitRead
<1> DEFINE t == [at |-> "read", order |-> tx[s].order, row |-> p, base |-> RowAt(p)]
<1>2. /\ tx[s] \in Request /\ pos \in Seq(Position) /\ Len(pos) \in Nat
      /\ DOMAIN pos = 1 .. Len(pos)
    BY DEF Inductive, TypeOK
<1>3. RowAt(p) \in Position
    BY <1>2, NoPositionType DEF RowAt
<1>4. /\ t \in Request /\ t.at = "read" /\ t.row = p /\ t.base = RowAt(p)
      /\ t.order = tx[s].order
  <2>1. p \in Nat /\ tx[s].order \in Orders \cup {NoOrder}
      BY <1>2 DEF Request
  <2>2. QED BY <1>3, <2>1 DEF Request
<1>5. tx' = [tx EXCEPT ![s] = t] /\ tx'[s] = t
    BY <1>1 DEF Inductive, TypeOK
<1>6. UNCHANGED <<perps, order, pos, ideal>> /\ overlapped' \in BOOLEAN /\ tx[s].at = "loaded"
    BY DEF SubmitRead, Inductive, TypeOK
<1>7. TxAgrees(s)'
  <2>1. tx[s].order \in Orders /\ order[tx[s].order].status # "absent"
        /\ order[tx[s].order].paper
      BY <1>6 DEF Inductive, TxAgrees
  <2>2. CASE p = 0
      BY <1>4, <1>5, <1>6, <2>1, <2>2 DEF TxAgrees, RowAt
  <2>3. CASE p # 0
    <3>1. p \in OpenRows(TRUE)
        BY <1>1, <2>3 DEF IsExisting
    <3>2. p \in DOMAIN pos /\ pos[p].status = "open" /\ pos[p].paper /\ pos[p].size > 0
        BY <3>1 DEF OpenRows, Inductive, OpenHasSize
    <3>3. t.base = pos[p]
        BY <1>4, <2>3 DEF RowAt
    <3>4. QED BY <1>4, <1>5, <1>6, <2>1, <3>2, <3>3 DEF TxAgrees
  <2>4. QED BY <2>2, <2>3
<1>8. QED BY <1>4, <1>5, <1>6, <1>7, RequestStepPreserves

LEMMA SubmitRollbackPreserves ==
    ASSUME Inductive, NEW s \in Submissions, SubmitRollback(s)
    PROVE  Inductive'
<1>1. /\ tx' = [tx EXCEPT ![s] = Idle] /\ tx'[s] = Idle
      /\ UNCHANGED <<perps, order, pos, ideal>> /\ overlapped' \in BOOLEAN
    BY DEF SubmitRollback, Inductive, TypeOK
<1>2. TxAgrees(s)'
    BY <1>1, IdleType DEF TxAgrees
<1>3. QED BY <1>1, <1>2, IdleType, RequestStepPreserves

\* A position write-off leaves each row its side and its book.
LEMMA CloseAbsentPreserves ==
    ASSUME Inductive, CloseAbsent
    PROVE  Inductive'
<1>1. /\ pos \in Seq(Position) /\ DOMAIN pos = 1 .. Len(pos) /\ Len(pos) \in Nat
      /\ pos' = [p \in DOMAIN pos |-> IF p \in OpenRows(FALSE)
                                      THEN [pos[p] EXCEPT !.status = "closed"] ELSE pos[p]]
      /\ UNCHANGED <<perps, order, tx, overlapped>>
    BY DEF CloseAbsent, Inductive, TypeOK
<1>2. \A p \in DOMAIN pos : pos[p] \in Position /\ pos'[p] \in Position
  <2> SUFFICES ASSUME NEW p \in DOMAIN pos PROVE pos[p] \in Position /\ pos'[p] \in Position
      OBVIOUS
  <2>1. pos[p] \in Position
      BY <1>1
  <2>2. [pos[p] EXCEPT !.status = "closed"] \in Position
      BY <2>1 DEF Position
  <2>3. pos'[p] = IF p \in OpenRows(FALSE) THEN [pos[p] EXCEPT !.status = "closed"] ELSE pos[p]
      BY <1>1
  <2>4. QED BY <2>1, <2>2, <2>3
<1>3. pos' \in Seq(Position) /\ DOMAIN pos' = DOMAIN pos
  <2>1. DOMAIN pos' = 1 .. Len(pos) /\ pos' \in [1 .. Len(pos) -> Position]
      BY <1>1, <1>2
  <2>2. pos' \in Seq(Position)
      BY <1>1, <2>1, FunctionSequence, Zenon
  <2>3. QED BY <1>1, <2>1, <2>2, Zenon
<1>4. \A p \in DOMAIN pos :
          /\ pos'[p].side = pos[p].side /\ pos'[p].paper = pos[p].paper
          /\ pos'[p].size = pos[p].size
          /\ pos'[p].status = "open" => pos[p].status = "open" /\ p \notin OpenRows(FALSE)
    BY <1>1, <1>2 DEF Position
<1>5. ideal' \in [BOOLEAN -> Int] /\ ideal'[FALSE] = 0
  <2>1. ideal \in [BOOLEAN -> Int] /\ ideal' = [ideal EXCEPT ![FALSE] = 0]
      BY DEF CloseAbsent, Inductive, TypeOK
  <2>2. FALSE \in BOOLEAN /\ 0 \in Int
      OBVIOUS
  <2>3. QED BY <2>1, <2>2, FunctionUpdate, Zenon
<1>6. TypeOK' /\ OrdersHaveSize'
    BY <1>1, <1>3, <1>5 DEF Inductive, TypeOK, OrdersHaveSize
<1>7. OpenHasSize' /\ SpotIsLong'
    BY <1>1, <1>3, <1>4 DEF Inductive, OpenHasSize, SpotIsLong
<1>8. RealBookExact'
  <2>1. OpenRows(FALSE)' = {}
      BY <1>3, <1>4 DEF OpenRows
  <2>2. QED BY <1>5, <2>1 DEF RealBookExact, ExactBook
<1>9. ASSUME NEW s \in Submissions PROVE TxAgrees(s)'
    BY <1>1, <1>3, <1>4 DEF Inductive, TxAgrees
<1>10. QED BY <1>6, <1>7, <1>8, <1>9 DEF Inductive

---------------------------------------------------------------------------
\* The steps that fill.
OrderMoves(o, st, f) == order' = [order EXCEPT ![o].status = st, ![o].filled = f]

LEMMA OrderRow ==
    ASSUME NEW r \in Order, NEW st, NEW f
    PROVE  [r EXCEPT !.status = st, !.filled = f]
               = [status |-> st, side |-> r.side, size |-> r.size, filled |-> f,
                  reduceOnly |-> r.reduceOnly, paper |-> r.paper]
<1>1. r = [status |-> r.status, side |-> r.side, size |-> r.size, filled |-> r.filled,
           reduceOnly |-> r.reduceOnly, paper |-> r.paper]
    BY DEF Order
<1>2. PICK half : half = [r EXCEPT !.status = st]
    OBVIOUS
<1>3. half = [status |-> st, side |-> r.side, size |-> r.size, filled |-> r.filled,
              reduceOnly |-> r.reduceOnly, paper |-> r.paper]
    BY <1>1, <1>2
<1>4. [half EXCEPT !.filled = f]
         = [status |-> st, side |-> r.side, size |-> r.size, filled |-> f,
            reduceOnly |-> r.reduceOnly, paper |-> r.paper]
    BY <1>3
<1>5. [r EXCEPT !.status = st, !.filled = f] = [half EXCEPT !.filled = f]
    BY <1>2, Zenon
<1>6. QED BY <1>4, <1>5, Zenon

LEMMA OrderUpdate ==
    ASSUME NEW o \in Orders, order \in [Orders -> Order], NEW f \in Nat,
           NEW st \in {"pending", "filled", "rejected"}, OrderMoves(o, st, f)
    PROVE  /\ order' \in [Orders -> Order]
           /\ order'[o].status = st /\ order'[o].filled = f
           /\ order'[o].size = order[o].size /\ order'[o].paper = order[o].paper
           /\ order'[o].reduceOnly = order[o].reduceOnly /\ order'[o].side = order[o].side
           /\ \A q \in Orders \ {o} : order'[q] = order[q]
<1> DEFINE r == order[o]
           new == [r EXCEPT !.status = st, !.filled = f]
<1>1. r \in Order
    OBVIOUS
<1>2. new = [status |-> st, side |-> r.side, size |-> r.size, filled |-> f,
             reduceOnly |-> r.reduceOnly, paper |-> r.paper]
    BY <1>1, OrderRow, Zenon
<1>3. new \in Order
    BY <1>1, <1>2 DEF Order
<1>4. order' = [order EXCEPT ![o] = new]
    BY DEF OrderMoves
<1> HIDE DEF new
<1>5. /\ order' \in [Orders -> Order] /\ order'[o] = new
      /\ \A q \in Orders \ {o} : order'[q] = order[q]
    BY <1>3, <1>4
<1>6. QED BY <1>2, <1>5

\* What a fill of order o leaves of the invariant besides the real book.
LEMMA FillPreserves ==
    ASSUME Inductive, NEW o \in Orders, order[o].status # "absent",
           NEW n \in Nat, n > 0, NEW p \in Nat, NEW base \in Position,
           ApplyFill(o, n, p, base), Found(o, p, base),
           NEW st \in {"pending", "filled", "rejected"}, NEW f \in Nat, f <= order[o].size,
           OrderMoves(o, st, f), UNCHANGED perps
    PROVE  /\ pos' \in Seq(Position) /\ order' \in [Orders -> Order]
           /\ OrdersHaveSize' /\ OpenHasSize' /\ SpotIsLong'
           /\ \A s \in Submissions : tx'[s] = tx[s] => TxAgrees(s)'
<1>1. /\ pos' \in Seq(Position) /\ OpenHasSize' /\ DOMAIN pos \subseteq DOMAIN pos'
      /\ \A q \in DOMAIN pos : pos'[q].side = pos[q].side /\ pos'[q].paper = pos[q].paper
      /\ \A q \in DOMAIN pos' \ DOMAIN pos : ~perps => pos'[q].side = "long"
  <2>1. TypeOK /\ OpenHasSize
      BY DEF Inductive
  <2>2. RowsAfterFill(o)
      BY <2>1, FillRows
  <2>3. QED BY <2>2 DEF RowsAfterFill
<1>2. /\ order' \in [Orders -> Order]
      /\ order'[o].status = st /\ order'[o].filled = f
      /\ order'[o].size = order[o].size /\ order'[o].paper = order[o].paper
      /\ \A q \in Orders \ {o} : order'[q] = order[q]
    BY OrderUpdate DEF Inductive, TypeOK
<1>3. OrdersHaveSize'
    BY <1>2 DEF Inductive, OrdersHaveSize
<1>4. SpotIsLong'
    BY <1>1 DEF Inductive, SpotIsLong
<1>5. ASSUME NEW s \in Submissions, tx'[s] = tx[s] PROVE TxAgrees(s)'
  <2>1. \A q \in Orders : order[q].status # "absent" =>
            order'[q].status # "absent" /\ order'[q].paper = order[q].paper
      BY <1>2
  <2>2. TxAgrees(s)
      BY DEF Inductive
  <2>3. QED BY <1>1, <1>5, <2>1, <2>2 DEF TxAgrees
<1>6. QED BY <1>1, <1>2, <1>3, <1>4, <1>5

LEMMA SettledType ==
    ASSUME NEW exposure \in Int, NEW o, NEW n \in Nat
    PROVE  Settled(exposure, o, n) \in Int
<1>1. Signed(order[o].side, n) \in Int
    BY DEF Signed
<1>2. exposure + Signed(order[o].side, n) \in Int /\ 0 \in Int
    BY <1>1
<1>3. QED BY <1>2, Zenon DEF Settled

LEMMA SubmitCommitPreserves ==
    ASSUME Inductive, NEW s \in Submissions, SubmitCommit(s)
    PROVE  Inductive'
<1> DEFINE t == tx[s]
           o == t.order
           n == order[o].size
<1>1. /\ t \in Request /\ t.at = "read" /\ ApplyFill(o, n, t.row, t.base)
      /\ tx' = [tx EXCEPT ![s] = Idle] /\ UNCHANGED <<perps, overlapped>>
    BY DEF SubmitCommit, Inductive, TypeOK, PaperFill
<1>2. t.row \in Nat /\ t.base \in Position
    BY <1>1 DEF Request
<1>3. TxAgrees(s)
    BY DEF Inductive
<1>4. o \in Orders /\ order[o].status # "absent" /\ order[o].paper = TRUE
  <2>1. o \in Orders /\ order[o].status # "absent" /\ order[o].paper
      BY <1>1, <1>3 DEF TxAgrees
  <2>2. order[o].paper \in BOOLEAN
      BY <2>1 DEF Inductive, TypeOK, Order
  <2>3. QED BY <2>1, <2>2
<1>5. n \in Nat /\ n > 0 /\ order[o].filled \in Nat /\ order[o].filled <= n
    BY <1>4 DEF Inductive, TypeOK, OrdersHaveSize, Order
<1>6. Found(o, t.row, t.base)
  <2>1. CASE t.row = 0 /\ t.base = NoPosition
      BY <2>1 DEF Found
  <2>2. CASE ~(t.row = 0 /\ t.base = NoPosition)
    <3>1. /\ t.row \in DOMAIN pos /\ t.base.status = "open" /\ t.base.size > 0
          /\ pos[t.row].paper /\ pos[t.row].side = t.base.side
        BY <1>1, <1>3, <2>2 DEF TxAgrees
    <3>2. pos[t.row].paper \in BOOLEAN
        BY <3>1 DEF Inductive, TypeOK, Position
    <3>3. QED BY <1>4, <3>1, <3>2 DEF Found
  <2>3. QED BY <2>1, <2>2
<1>7. \E st \in {"pending", "filled", "rejected"}, f \in Nat :
          f <= n /\ OrderMoves(o, st, f)
  <2>1. CASE Refuses(o, t.base) /\ order[o].reduceOnly
    <3>1. order' = [order EXCEPT ![o].status = "rejected"]
        BY <2>1 DEF SubmitCommit
    <3>2. OrderMoves(o, "rejected", order[o].filled)
        BY <1>4, <3>1 DEF Inductive, TypeOK, Order, OrderMoves
    <3>3. QED BY <1>5, <3>2
  <2>2. CASE ~(Refuses(o, t.base) /\ order[o].reduceOnly)
    <3>1. OrderMoves(o, "filled", n)
        BY <2>2, Zenon DEF SubmitCommit, PaperFill, OrderMoves
    <3>2. QED BY <1>5, <3>1
  <2>3. QED BY <2>1, <2>2
<1>8. PICK st \in {"pending", "filled", "rejected"}, f \in Nat :
          f <= n /\ OrderMoves(o, st, f)
    BY <1>7
<1> HIDE DEF t, o, n
<1>9. /\ pos' \in Seq(Position) /\ order' \in [Orders -> Order]
      /\ OrdersHaveSize' /\ OpenHasSize' /\ SpotIsLong'
      /\ \A q \in Submissions : tx'[q] = tx[q] => TxAgrees(q)'
    BY <1>1, <1>2, <1>4, <1>5, <1>6, <1>8, FillPreserves DEF n
<1>10. tx' \in [Submissions -> Request] /\ TxAgrees(s)'
       /\ \A q \in Submissions \ {s} : tx'[q] = tx[q]
  <2>1. tx \in [Submissions -> Request]
      BY DEF Inductive, TypeOK
  <2>2. /\ tx' \in [Submissions -> Request] /\ tx'[s] = Idle
        /\ \A q \in Submissions \ {s} : tx'[q] = tx[q]
      BY <1>1, <2>1, IdleType
  <2>3. QED BY <2>2, IdleType DEF TxAgrees
<1>11. ideal' \in [BOOLEAN -> Int] /\ ideal'[FALSE] = ideal[FALSE]
  <2>1. ideal' = [ideal EXCEPT ![TRUE] = IF order[o].filled = n THEN @ ELSE Settled(@, o, n)]
      BY DEF SubmitCommit, PaperFill, t, o, n
  <2>2. ideal \in [BOOLEAN -> Int] /\ ideal[TRUE] \in Int
      BY DEF Inductive, TypeOK
  <2>3. Settled(ideal[TRUE], o, n) \in Int
      BY <1>5, <2>2, SettledType
  <2>4. TRUE \in BOOLEAN /\ FALSE \in BOOLEAN \ {TRUE}
      OBVIOUS
  <2>5. (IF order[o].filled = n THEN ideal[TRUE] ELSE Settled(ideal[TRUE], o, n)) \in Int
      BY <2>2, <2>3
  <2>6. QED BY <2>1, <2>2, <2>4, <2>5, FunctionUpdate, Zenon
<1>12. RealBookExact'
  <2>1. /\ DOMAIN pos \subseteq DOMAIN pos'
        /\ \A q \in DOMAIN pos : /\ pos'[q].paper = pos[q].paper
                                 /\ pos[q].paper # order[o].paper => pos'[q] = pos[q]
        /\ \A q \in DOMAIN pos' \ DOMAIN pos : pos'[q].paper = order[o].paper
    <3>1. TypeOK /\ OpenHasSize
        BY DEF Inductive
    <3>2. RowsAfterFill(o)
        BY <1>1, <1>2, <1>4, <1>5, <1>6, <3>1, FillRows
    <3>3. QED BY <3>2 DEF RowsAfterFill
  <2>2. \A q \in DOMAIN pos : pos[q].paper = FALSE => pos[q].paper # TRUE
      OBVIOUS
  <2>3. ExactBook(FALSE)
      BY DEF Inductive, RealBookExact
  <2>4. \A q \in DOMAIN pos' \ DOMAIN pos : pos'[q].paper # FALSE
      BY <1>4, <2>1
  <2>5. QED BY <1>4, <1>11, <2>1, <2>2, <2>3, <2>4, BookFrame DEF RealBookExact
<1>13. TypeOK'
    BY <1>1, <1>9, <1>10, <1>11 DEF Inductive, TypeOK
<1>14. QED BY <1>9, <1>10, <1>12, <1>13 DEF Inductive

---------------------------------------------------------------------------
\* A fill of the row that is found keeps an exact book exact: first a fill that
\* finds no OPEN row, then one that finds row p.
LEMMA ExactAfterOpening ==
    ASSUME Inductive, NEW book \in BOOLEAN, ExactBook(book),
           NEW o \in Orders, order[o].paper = book, NEW n \in Nat, n > 0,
           OpenRows(book) = {}, ApplyFill(o, n, 0, NoPosition),
           ideal'[book] = Settled(ideal[book], o, n)
    PROVE  ExactBook(book)'
<1>1. TypeOK /\ pos \in Seq(Position) /\ Len(pos) \in Nat /\ DOMAIN pos = 1 .. Len(pos)
    BY DEF Inductive, TypeOK
<1>2. ideal[book] = 0
    BY DEF ExactBook
<1>3. order[o].side = "long" \/ order[o].side = "short"
    BY <1>1 DEF TypeOK, Order, Sides
<1>4. order[o].side = "long" => ideal'[book] = IF perps /\ order[o].reduceOnly THEN 0 ELSE n
    BY <1>1, <1>2, SettledCases DEF SettlesAs
<1>5. order[o].side = "short" =>
          ideal'[book] = IF ~perps \/ order[o].reduceOnly THEN 0 ELSE 0 - n
    BY <1>1, <1>2, SettledCases DEF SettlesAs
<1>6. CASE Refuses(o, NoPosition)
  <2>1. pos' = pos /\ ideal'[book] = 0
      BY <1>3, <1>4, <1>5, <1>6 DEF ApplyFill, Refuses, PerpsRefuses, SpotRefuses
  <2>2. QED BY <2>1 DEF ExactBook, OpenRows
<1>7. CASE ~Refuses(o, NoPosition)
  <2>1. pos' = Append(pos, Opened(o, n))
      BY <1>7 DEF ApplyFill
  <2>2. /\ DOMAIN pos' = 1 .. Len(pos) + 1
        /\ \A q \in DOMAIN pos : pos'[q] = pos[q]
        /\ pos'[Len(pos) + 1] = Opened(o, n)
      BY <1>1, <2>1, OpenedRow
  <2>3. OpenRows(book)' = {Len(pos) + 1}
      BY <1>1, <2>2, OpenedRow DEF OpenRows
  <2>4. ideal'[book] = Signed(order[o].side, n)
      BY <1>3, <1>4, <1>5, <1>7 DEF Refuses, PerpsRefuses, SpotRefuses, Signed
  <2>5. ideal'[book] = Signed(pos'[Len(pos) + 1].side, pos'[Len(pos) + 1].size)
      BY <1>1, <2>2, <2>4, OpenedRow
  <2>6. QED BY <2>3, <2>5 DEF ExactBook
<1>8. QED BY <1>6, <1>7

LEMMA ExactAfterFill ==
    ASSUME Inductive, NEW book \in BOOLEAN, ExactBook(book),
           NEW o \in Orders, order[o].paper = book, NEW n \in Nat, n > 0,
           NEW p \in DOMAIN pos, OpenRows(book) = {p}, ApplyFill(o, n, p, pos[p]),
           ideal'[book] = Settled(ideal[book], o, n)
    PROVE  ExactBook(book)'
<1> DEFINE row == pos[p]
           side == order[o].side
<1>1. /\ TypeOK /\ pos \in Seq(Position) /\ p \in Nat /\ p # 0
      /\ row \in Position /\ row.status = "open" /\ row.size \in Nat /\ row.size > 0
  <2>1. TypeOK /\ pos \in Seq(Position) /\ DOMAIN pos = 1 .. Len(pos) /\ Len(pos) \in Nat
      BY DEF Inductive, TypeOK
  <2>2. row \in Position /\ p \in Nat /\ p # 0
      BY <2>1
  <2>3. row.status = "open"
      BY DEF OpenRows
  <2>4. QED BY <2>1, <2>2, <2>3 DEF Inductive, OpenHasSize, Position
<1>2. ideal[book] = Signed(row.side, row.size) /\ row # NoPosition
  <2>1. row # NoPosition
      BY <1>1 DEF NoPosition
  <2>2. \A q \in OpenRows(book) : ideal[book] = Signed(pos[q].side, pos[q].size)
      BY DEF ExactBook
  <2>3. QED BY <2>1, <2>2, Zenon
<1>3. /\ ideal[book] \in Int
      /\ row.side = "long" => ideal[book] > 0 /\ ideal[book] >= 0
      /\ row.side = "short" => ideal[book] < 0 /\ ideal[book] <= 0
  <2>1. ideal[book] \in Int
      BY <1>1 DEF TypeOK
  <2>2. QED BY <1>1, <1>2, <2>1 DEF Signed
<1>4. SettlesAs(ideal[book], o, n)
    BY <1>1, <1>3, SettledCases
<1>5. side \in {"long", "short"} /\ row.side \in {"long", "short"}
    BY <1>1 DEF TypeOK, Order, Position, Sides
<1>6. ~perps => row.side = "long"
    BY DEF Inductive, SpotIsLong
<1>7. \A q \in DOMAIN pos \ {p} : ~(pos[q].status = "open" /\ pos[q].paper = book)
    BY DEF OpenRows
<1>8. row.paper = book
    BY DEF OpenRows
<1>9. CASE Refuses(o, row)
  <2>1. pos' = pos /\ side = row.side /\ perps /\ order[o].reduceOnly
      BY <1>2, <1>9 DEF ApplyFill, Refuses, PerpsRefuses, SpotRefuses
  <2>2. ideal'[book] = ideal[book]
    <3>1. CASE side = "long"
      <4>1. Settled(ideal[book], o, n) =
                IF perps /\ order[o].reduceOnly THEN ideal[book] ELSE ideal[book] + n
          BY <1>1, <1>3, <2>1, <3>1, <1>4 DEF SettlesAs
      <4>2. QED BY <2>1, <4>1, Zenon
    <3>2. CASE side = "short"
      <4>1. Settled(ideal[book], o, n) =
                IF ~perps \/ order[o].reduceOnly THEN ideal[book] ELSE ideal[book] - n
          BY <1>1, <1>3, <2>1, <3>2, <1>4 DEF SettlesAs
      <4>2. QED BY <2>1, <4>1, Zenon
    <3>3. QED BY <1>5, <3>1, <3>2
  <2>3. QED BY <2>1, <2>2 DEF ExactBook, OpenRows
<1>10. CASE ~Refuses(o, row)
  <2> DEFINE view == After(o, row, n)
             new == Merge(row, row, view)
  <2>1. pos' = [pos EXCEPT ![p] = new]
      BY <1>1, <1>10 DEF ApplyFill
  <2>2. /\ view \in Position /\ view.side = row.side /\ view.paper = row.paper
        /\ view.size # row.size
        /\ (view.status = "open" /\ view.size > 0) \/ view.status = "closed"
      BY <1>1, AfterFill
  <2>3. /\ new \in Position /\ new.side = row.side /\ new.paper = row.paper
        /\ new.size = view.size /\ new.status = view.status
      BY <1>1, <2>2, MergedRow
  <2>8. view = IF side = row.side THEN Extended(row, n) ELSE Reduced(row, n)
      BY <1>5, <1>6 DEF After, SpotAfter, PerpsAfter
  <2> HIDE DEF view, new
  <2>4. /\ DOMAIN pos' = DOMAIN pos /\ pos'[p] = new
        /\ \A q \in DOMAIN pos \ {p} : pos'[q] = pos[q]
      BY <1>1, <2>1
  <2>5. CASE view.status = "open"
    <3>1. OpenRows(book)' = {p}
        BY <1>7, <1>8, <2>3, <2>4, <2>5 DEF OpenRows
    <3>2. ideal'[book] = Signed(row.side, view.size)
      <4>1. CASE side = row.side
        <5>1. view.size = row.size + n
            BY <1>1, <2>8, <4>1 DEF Extended, Position
        <5>2. ~(perps /\ order[o].reduceOnly) /\ (side = "short" => perps /\ ~order[o].reduceOnly)
            BY <1>2, <1>6, <1>10, <4>1 DEF Refuses, PerpsRefuses, SpotRefuses
        <5>3. CASE side = "long"
          <6>1. Settled(ideal[book], o, n) =
                    IF perps /\ order[o].reduceOnly THEN ideal[book] ELSE ideal[book] + n
              BY <1>1, <1>3, <4>1, <5>3, <1>4 DEF SettlesAs
          <6>2. Settled(ideal[book], o, n) = ideal[book] + n
              BY <5>2, <6>1, Zenon
          <6>3. QED BY <1>1, <1>2, <4>1, <5>1, <5>3, <6>2 DEF Signed
        <5>4. CASE side = "short"
          <6>1. Settled(ideal[book], o, n) =
                    IF ~perps \/ order[o].reduceOnly THEN ideal[book] ELSE ideal[book] - n
              BY <1>1, <1>3, <4>1, <5>4, <1>4 DEF SettlesAs
          <6>2. Settled(ideal[book], o, n) = ideal[book] - n
              BY <5>2, <5>4, <6>1, Zenon
          <6>3. QED BY <1>1, <1>2, <4>1, <5>1, <5>4, <6>2 DEF Signed
        <5>5. QED BY <1>5, <5>3, <5>4
      <4>2. CASE side # row.side
        <5>1. n < row.size /\ view.size = row.size - n
            BY <1>1, <2>5, <2>8, <4>2 DEF Reduced, Position
        <5>2. CASE side = "long"
          <6>1. row.side = "short" /\ ideal[book] = 0 - row.size
              BY <1>2, <1>5, <4>2, <5>2 DEF Signed
          <6>2. n < 0 - ideal[book] /\ ideal[book] < 0
              BY <1>1, <5>1, <6>1
          <6>3. ideal'[book] = ideal[book] + n
              BY <1>4, <5>2, <6>2 DEF SettlesAs
          <6>4. ideal'[book] = 0 - view.size
            <7>1. (0 - row.size) + n = 0 - (row.size - n)
                BY <1>1
            <7>2. QED BY <5>1, <6>1, <6>3, <7>1, Zenon
          <6>5. Signed(row.side, view.size) = 0 - view.size
              BY <6>1 DEF Signed
          <6>6. QED BY <6>4, <6>5
        <5>3. CASE side = "short"
          <6>1. row.side = "long" /\ ideal[book] = row.size
              BY <1>2, <1>5, <4>2, <5>3 DEF Signed
          <6>2. ideal'[book] = ideal[book] - n
              BY <1>1, <1>3, <5>1, <5>3, <6>1, <1>4 DEF SettlesAs
          <6>3. QED BY <1>1, <5>1, <6>1, <6>2 DEF Signed
        <5>4. QED BY <1>5, <5>2, <5>3
      <4>3. QED BY <4>1, <4>2
    <3>3. QED BY <2>3, <2>4, <3>1, <3>2 DEF ExactBook
  <2>6. CASE view.status = "closed"
    <3>1. OpenRows(book)' = {}
        BY <1>7, <2>3, <2>4, <2>6 DEF OpenRows
    <3>2. side # row.side /\ ~(n < row.size)
        BY <1>1, <2>6, <2>8 DEF Extended, Reduced, Position
    <3>3. ideal'[book] = 0
      <4>1. CASE side = "long"
        <5>1. row.side = "short" /\ ideal[book] = 0 - row.size
            BY <1>2, <1>5, <3>2, <4>1 DEF Signed
        <5>2. QED BY <1>1, <1>3, <3>2, <4>1, <5>1, <1>4 DEF SettlesAs
      <4>2. CASE side = "short"
        <5>1. row.side = "long" /\ ideal[book] = row.size
            BY <1>2, <1>5, <3>2, <4>2 DEF Signed
        <5>2. QED BY <1>1, <1>3, <3>2, <4>2, <5>1, <1>4 DEF SettlesAs
      <4>3. QED BY <1>5, <4>1, <4>2
    <3>4. QED BY <3>1, <3>3 DEF ExactBook
  <2>7. QED BY <2>2, <2>5, <2>6
<1>11. QED BY <1>9, <1>10

\* A sweep's fold fills n more lots of a real order, on the row it finds.
FoldFills(o, n, p, st, f) ==
    /\ n > 0 /\ f <= order[o].size /\ p \in 0 .. Len(pos) /\ IsExisting(p, FALSE)
    /\ ApplyFill(o, n, p, RowAt(p)) /\ Found(o, p, RowAt(p)) /\ OrderMoves(o, st, f)
    /\ ideal' = [ideal EXCEPT ![FALSE] = Settled(@, o, n)]
    /\ order[o].status = "pending" /\ order[o].paper = FALSE
    /\ UNCHANGED <<perps, tx, overlapped>>

LEMMA FoldFill ==
    ASSUME Inductive, NEW o \in Orders, Fold(o)
    PROVE  \E n, p, f \in Nat, st \in {"pending", "filled", "rejected"} :
              FoldFills(o, n, p, st, f)
<1>1. /\ order[o].status = "pending" /\ ~order[o].paper
      /\ UNCHANGED <<perps, tx, overlapped>>
    BY DEF Fold
<1>2. PICK filled \in order[o].filled + 1 .. order[o].size, p \in 0 .. Len(pos) :
          /\ IsExisting(p, FALSE)
          /\ ApplyFill(o, filled - order[o].filled, p, RowAt(p))
          /\ ideal' = [ideal EXCEPT ![FALSE] = Settled(@, o, filled - order[o].filled)]
          /\ order' = [order EXCEPT ![o].status = IF filled = order[o].size THEN "filled" ELSE @,
                                    ![o].filled = filled]
    BY Zenon DEF Fold
<1> DEFINE n == filled - order[o].filled
           st == IF filled = order[o].size THEN "filled" ELSE order[o].status
<1>3. TypeOK /\ OpenHasSize /\ RowAt(p) \in Position /\ p \in Nat
      /\ pos \in Seq(Position) /\ DOMAIN pos = 1 .. Len(pos) /\ Len(pos) \in Nat
    BY NoPositionType DEF Inductive, TypeOK, RowAt
<1>4. /\ filled \in Nat /\ filled <= order[o].size /\ n \in Nat /\ n > 0
      /\ order[o].paper = FALSE
  <2>1. order[o] \in Order
      BY <1>3 DEF TypeOK
  <2>2. order[o].filled \in Nat /\ order[o].size \in Nat /\ order[o].paper \in BOOLEAN
      BY <2>1 DEF Order
  <2>3. order[o].paper = FALSE
      BY <1>1, <2>2
  <2>4. filled \in Nat /\ filled <= order[o].size /\ n \in Nat /\ n > 0
      BY <2>2
  <2>5. QED BY <2>3, <2>4
<1>5. st \in {"pending", "filled", "rejected"} /\ OrderMoves(o, st, filled)
  <2>1. st \in {"pending", "filled", "rejected"}
      BY <1>1
  <2>2. OrderMoves(o, st, filled)
      BY <1>2, Zenon DEF OrderMoves
  <2>3. QED BY <2>1, <2>2
<1>6. /\ p = 0 => OpenRows(FALSE) = {} /\ RowAt(p) = NoPosition
      /\ p # 0 => OpenRows(FALSE) = {p} /\ RowAt(p) = pos[p]
    BY <1>2 DEF IsExisting, RowAt
<1>7. p # 0 => p \in DOMAIN pos /\ pos[p].status = "open" /\ pos[p].paper = FALSE
    BY <1>6 DEF OpenRows
<1>8. Found(o, p, RowAt(p))
    BY <1>3, <1>4, <1>6, <1>7 DEF Found, OpenHasSize
<1>9. FoldFills(o, n, p, st, filled)
  <2>1. /\ ApplyFill(o, n, p, RowAt(p)) /\ ideal' = [ideal EXCEPT ![FALSE] = Settled(@, o, n)]
        /\ IsExisting(p, FALSE)
      BY <1>2
  <2> HIDE DEF n, st
  <2>2. QED BY <1>1, <1>4, <1>5, <1>8, <2>1 DEF FoldFills
<1> HIDE DEF n, st
<1>10. QED BY <1>3, <1>4, <1>5, <1>9

LEMMA FoldPreserves ==
    ASSUME Inductive, NEW o \in Orders, Fold(o)
    PROVE  Inductive'
<1>1. PICK n \in Nat, p \in Nat, f \in Nat, st \in {"pending", "filled", "rejected"} :
          FoldFills(o, n, p, st, f)
    BY FoldFill
<1>2. /\ n > 0 /\ f <= order[o].size /\ IsExisting(p, FALSE)
      /\ ApplyFill(o, n, p, RowAt(p)) /\ Found(o, p, RowAt(p)) /\ OrderMoves(o, st, f)
      /\ ideal' = [ideal EXCEPT ![FALSE] = Settled(@, o, n)]
      /\ order[o].status = "pending" /\ order[o].paper = FALSE
      /\ UNCHANGED <<perps, tx, overlapped>> /\ p \in 0 .. Len(pos)
    BY <1>1 DEF FoldFills
<1>3. TypeOK /\ RowAt(p) \in Position
    BY <1>2, NoPositionType DEF Inductive, TypeOK, RowAt
<1>4. /\ p = 0 => OpenRows(FALSE) = {} /\ RowAt(p) = NoPosition
      /\ p # 0 => OpenRows(FALSE) = {p} /\ RowAt(p) = pos[p]
    BY <1>2 DEF IsExisting, RowAt
<1>5. p # 0 => p \in DOMAIN pos
    BY <1>4 DEF OpenRows
<1>6. ideal' \in [BOOLEAN -> Int] /\ ideal'[FALSE] = Settled(ideal[FALSE], o, n)
  <2>1. ideal \in [BOOLEAN -> Int] /\ FALSE \in BOOLEAN
      BY <1>3 DEF TypeOK
  <2>2. Settled(ideal[FALSE], o, n) \in Int
      BY <2>1, SettledType
  <2>3. ideal' = [ideal EXCEPT ![FALSE] = Settled(ideal[FALSE], o, n)]
      BY <1>2, Zenon
  <2>4. QED BY <2>1, <2>2, <2>3, FunctionUpdate, Zenon
<1>7. /\ pos' \in Seq(Position) /\ order' \in [Orders -> Order]
      /\ OrdersHaveSize' /\ OpenHasSize' /\ SpotIsLong'
      /\ \A s \in Submissions : tx'[s] = tx[s] => TxAgrees(s)'
    BY <1>2, <1>3, FillPreserves
<1>8. RealBookExact'
  <2>1. CASE p = 0
      BY <1>2, <1>4, <1>6, <2>1, ExactAfterOpening DEF Inductive, RealBookExact
  <2>2. CASE p # 0
      BY <1>2, <1>4, <1>5, <1>6, <2>2, ExactAfterFill DEF Inductive, RealBookExact
  <2>3. QED BY <2>1, <2>2
<1>9. TypeOK' /\ \A s \in Submissions : TxAgrees(s)'
    BY <1>2, <1>3, <1>6, <1>7 DEF TypeOK
<1>10. QED BY <1>7, <1>8, <1>9 DEF Inductive

---------------------------------------------------------------------------
LEMMA StepPreserves == Inductive /\ [Next]_vars => Inductive'
<1> SUFFICES ASSUME Inductive, [Next]_vars PROVE Inductive'
    OBVIOUS
<1>1. ASSUME NEW o \in Orders, Prepare(o) PROVE Inductive'
    BY <1>1, PreparePreserves
<1>2. ASSUME NEW o \in Orders, Fold(o) PROVE Inductive'
    BY <1>2, FoldPreserves
<1>3. ASSUME NEW s \in Submissions, NEW o \in Orders, SubmitLoad(s, o) PROVE Inductive'
    BY <1>3, SubmitLoadPreserves
<1>4. ASSUME NEW s \in Submissions, SubmitRead(s) PROVE Inductive'
    BY <1>4, SubmitReadPreserves
<1>5. ASSUME NEW s \in Submissions, SubmitCommit(s) PROVE Inductive'
    BY <1>5, SubmitCommitPreserves
<1>6. ASSUME NEW s \in Submissions, SubmitRollback(s) PROVE Inductive'
    BY <1>6, SubmitRollbackPreserves
<1>7. CASE CloseAbsent
    BY <1>7, CloseAbsentPreserves
<1>8. CASE UNCHANGED vars
  <2>1. UNCHANGED <<perps, order, pos, tx, ideal, overlapped>>
      BY <1>8 DEF vars
  <2>2. QED BY <2>1 DEF Inductive, TypeOK, OrdersHaveSize, OpenHasSize, SpotIsLong,
                RealBookExact, ExactBook, OpenRows, TxAgrees
<1>9. QED BY <1>1, <1>2, <1>3, <1>4, <1>5, <1>6, <1>7, <1>8 DEF Next

LEMMA InductiveInvariant == Spec => []Inductive
BY InitInductive, StepPreserves, PTL DEF Spec

---------------------------------------------------------------------------
\* While no two submissions have overlapped, one is in progress at most, on an
\* order that is still PENDING, and the row it has read is the row there is.
InTurn(s) ==
    /\ tx[s].at # "idle" =>
          /\ order[tx[s].order].status = "pending"
          /\ \A q \in Submissions \ {s} : tx[q].at = "idle"
    /\ tx[s].at = "read" => IsExisting(tx[s].row, TRUE) /\ tx[s].base = RowAt(tx[s].row)

\* Nothing is filled of an order that is absent, or a PENDING order of the paper
\* mode, and only perps orders are reduce-only.
OrdersFresh ==
    \A o \in Orders :
        /\ order[o].status = "absent" => order[o].filled = 0 /\ ~order[o].reduceOnly
        /\ order[o].status = "pending" /\ order[o].paper => order[o].filled = 0
        /\ order[o].reduceOnly => perps

Serial ==
    /\ OrdersFresh
    /\ ~overlapped => ExactBook(TRUE) /\ \A s \in Submissions : InTurn(s)

LEMMA InitSerial == Init => Serial
<1> SUFFICES ASSUME Init PROVE Serial
    OBVIOUS
<1>1. OrdersFresh
    BY DEF Init, OrdersFresh, Unprepared
<1>2. DOMAIN pos = {} /\ ideal[TRUE] = 0
    BY DEF Init
<1>3. ExactBook(TRUE)
    BY <1>2 DEF ExactBook, OpenRows
<1>4. \A s \in Submissions : InTurn(s)
    BY DEF Init, InTurn, Idle
<1>5. QED BY <1>1, <1>3, <1>4 DEF Serial

\* A step that leaves the paper rows and the orders in progress alone.
LEMMA SerialFrame ==
    ASSUME Inductive, Serial, OrdersFresh', UNCHANGED <<tx, overlapped>>,
           ideal'[TRUE] = ideal[TRUE], DOMAIN pos \subseteq DOMAIN pos',
           \A q \in DOMAIN pos : /\ pos'[q].paper = pos[q].paper
                                 /\ pos[q].paper = TRUE => pos'[q] = pos[q],
           \A q \in DOMAIN pos' \ DOMAIN pos : pos'[q].paper # TRUE,
           \A o \in Orders : order[o].status = "pending" /\ order[o].paper =>
                                 order'[o].status = "pending"
    PROVE  Serial'
<1> SUFFICES ASSUME ~overlapped PROVE ExactBook(TRUE)' /\ \A s \in Submissions : InTurn(s)'
    BY DEF Serial
<1>1. ExactBook(TRUE)' /\ OpenRows(TRUE)' = OpenRows(TRUE)
    BY BookFrame DEF Serial
<1>2. ASSUME NEW s \in Submissions PROVE InTurn(s)'
  <2>1. InTurn(s) /\ TxAgrees(s)
      BY DEF Serial, Inductive
  <2>2. tx[s].at # "idle" => order'[tx[s].order].status = "pending"
      BY <2>1 DEF InTurn, TxAgrees
  <2>3. ASSUME tx[s].at = "read"
        PROVE  IsExisting(tx[s].row, TRUE)' /\ tx[s].base = RowAt(tx[s].row)'
    <3>1. IsExisting(tx[s].row, TRUE) /\ tx[s].base = RowAt(tx[s].row)
        BY <2>1, <2>3 DEF InTurn
    <3>2. tx[s].row # 0 => tx[s].row \in OpenRows(TRUE)
        BY <3>1 DEF IsExisting
    <3>3. tx[s].row # 0 => pos'[tx[s].row] = pos[tx[s].row]
        BY <3>2 DEF OpenRows
    <3>4. QED BY <1>1, <3>1, <3>3 DEF IsExisting, RowAt
  <2>4. QED BY <2>1, <2>2, <2>3 DEF InTurn
<1>3. QED BY <1>1, <1>2

LEMMA PrepareSerial ==
    ASSUME Inductive, Serial, NEW o \in Orders, Prepare(o)
    PROVE  Serial'
<1>1. /\ order[o].status = "absent" /\ UNCHANGED <<perps, pos, tx, ideal, overlapped>>
      /\ order \in [Orders -> Order] /\ perps \in BOOLEAN
    BY DEF Prepare, Inductive, TypeOK
<1>2. /\ order'[o].status = "pending" /\ order'[o].filled = 0 /\ (order'[o].reduceOnly => perps)
      /\ \A q \in Orders \ {o} : order'[q] = order[q]
  <2>1. PICK side \in Sides, n \in 1 .. MaxSize, reduceOnly \in {FALSE, perps},
             paper \in BOOLEAN :
          order' = [order EXCEPT ![o] = [status |-> "pending", side |-> side, size |-> n,
                        filled |-> 0, reduceOnly |-> reduceOnly, paper |-> paper]]
      BY DEF Prepare
  <2>2. reduceOnly => perps
      BY Zenon
  <2>3. QED BY <1>1, <2>1, <2>2
<1>3. OrdersFresh'
    BY <1>1, <1>2 DEF Serial, OrdersFresh
<1>4. \A q \in Orders : order[q].status = "pending" => order'[q].status = "pending"
    BY <1>1, <1>2
<1>5. QED BY <1>1, <1>3, <1>4, SerialFrame

LEMMA FoldSerial ==
    ASSUME Inductive, Serial, NEW o \in Orders, Fold(o)
    PROVE  Serial'
<1>1. PICK n \in Nat, p \in Nat, f \in Nat, st \in {"pending", "filled", "rejected"} :
          FoldFills(o, n, p, st, f)
    BY FoldFill
<1>2. /\ n > 0 /\ ApplyFill(o, n, p, RowAt(p)) /\ Found(o, p, RowAt(p)) /\ OrderMoves(o, st, f)
      /\ ideal' = [ideal EXCEPT ![FALSE] = Settled(@, o, n)]
      /\ order[o].paper = FALSE /\ order[o].status = "pending"
      /\ UNCHANGED <<perps, tx, overlapped>> /\ p \in 0 .. Len(pos)
    BY <1>1 DEF FoldFills
<1>3. TypeOK /\ OpenHasSize /\ RowAt(p) \in Position
    BY <1>2, NoPositionType DEF Inductive, TypeOK, RowAt
<1>4. /\ DOMAIN pos \subseteq DOMAIN pos'
      /\ \A q \in DOMAIN pos : /\ pos'[q].paper = pos[q].paper
                               /\ pos[q].paper # FALSE => pos'[q] = pos[q]
      /\ \A q \in DOMAIN pos' \ DOMAIN pos : pos'[q].paper = FALSE
  <2>1. RowsAfterFill(o)
      BY <1>2, <1>3, FillRows
  <2>2. QED BY <1>2, <2>1 DEF RowsAfterFill
<1>5. /\ order'[o].status = st /\ order'[o].paper = FALSE
      /\ order'[o].reduceOnly = order[o].reduceOnly
      /\ \A q \in Orders \ {o} : order'[q] = order[q]
    BY <1>2, <1>3, OrderUpdate DEF TypeOK
<1>6. OrdersFresh'
    BY <1>2, <1>5 DEF Serial, OrdersFresh
<1>7. \A q \in Orders : order[q].status = "pending" /\ order[q].paper =>
                            order'[q].status = "pending"
    BY <1>2, <1>5
<1>8. ideal'[TRUE] = ideal[TRUE]
    BY <1>2, <1>3 DEF TypeOK
<1>9. UNCHANGED <<tx, overlapped>>
    BY <1>2
<1>10. /\ \A q \in DOMAIN pos : /\ pos'[q].paper = pos[q].paper
                                /\ pos[q].paper = TRUE => pos'[q] = pos[q]
       /\ \A q \in DOMAIN pos' \ DOMAIN pos : pos'[q].paper # TRUE
    BY <1>4
<1>11. QED BY <1>4, <1>6, <1>7, <1>8, <1>9, <1>10, SerialFrame

LEMMA CloseAbsentSerial ==
    ASSUME Inductive, Serial, CloseAbsent
    PROVE  Serial'
<1>1. /\ pos \in Seq(Position) /\ UNCHANGED <<perps, order, tx, overlapped>>
      /\ pos' = [p \in DOMAIN pos |-> IF p \in OpenRows(FALSE)
                                      THEN [pos[p] EXCEPT !.status = "closed"] ELSE pos[p]]
      /\ ideal \in [BOOLEAN -> Int] /\ ideal' = [ideal EXCEPT ![FALSE] = 0]
    BY DEF CloseAbsent, Inductive, TypeOK
<1>2. \A q \in DOMAIN pos : /\ pos'[q].paper = pos[q].paper
                            /\ pos[q].paper = TRUE => pos'[q] = pos[q]
  <2> SUFFICES ASSUME NEW q \in DOMAIN pos
               PROVE  /\ pos'[q].paper = pos[q].paper
                      /\ pos[q].paper = TRUE => pos'[q] = pos[q]
      OBVIOUS
  <2>1. pos[q] \in Position
      BY <1>1
  <2>2. [pos[q] EXCEPT !.status = "closed"].paper = pos[q].paper
      BY <2>1 DEF Position
  <2>3. q \in OpenRows(FALSE) => pos[q].paper = FALSE
      BY DEF OpenRows
  <2>4. QED BY <1>1, <2>2, <2>3
<1>3. DOMAIN pos' = DOMAIN pos /\ ideal'[TRUE] = ideal[TRUE]
    BY <1>1
<1>4. OrdersFresh'
    BY <1>1 DEF Serial, OrdersFresh
<1>5. UNCHANGED <<tx, overlapped>>
    BY <1>1
<1>6. QED BY <1>1, <1>2, <1>3, <1>4, <1>5, SerialFrame

\* The steps of a submission that fill nothing.
LEMMA RequestStepSerial ==
    ASSUME Inductive, Serial, UNCHANGED <<perps, order, pos, ideal>>,
           ~overlapped' => ~overlapped /\ \A q \in Submissions : InTurn(q)'
    PROVE  Serial'
BY DEF Serial, OrdersFresh, ExactBook, OpenRows

LEMMA SubmitLoadSerial ==
    ASSUME Inductive, Serial, NEW s \in Submissions, NEW o \in Orders, SubmitLoad(s, o)
    PROVE  Serial'
<1>1. /\ UNCHANGED <<perps, order, pos, ideal>> /\ order[o].status = "pending"
      /\ tx' = [tx EXCEPT ![s] = [Idle EXCEPT !.at = "loaded", !.order = o]]
      /\ tx \in [Submissions -> Request]
      /\ overlapped' = (overlapped \/ \E q \in Submissions : tx[q].at # "idle")
    BY DEF SubmitLoad, Inductive, TypeOK
<1>2. tx'[s].at = "loaded" /\ tx'[s].order = o /\ \A q \in Submissions \ {s} : tx'[q] = tx[q]
    BY <1>1 DEF Idle
<1>3. ASSUME ~overlapped', NEW q \in Submissions PROVE InTurn(q)'
    BY <1>1, <1>2, <1>3 DEF InTurn
<1>4. QED BY <1>1, <1>3, RequestStepSerial

LEMMA SubmitReadSerial ==
    ASSUME Inductive, Serial, NEW s \in Submissions, SubmitRead(s)
    PROVE  Serial'
<1>1. /\ UNCHANGED <<perps, order, pos, ideal, overlapped>> /\ tx[s].at = "loaded"
      /\ tx \in [Submissions -> Request]
    BY DEF SubmitRead, Inductive, TypeOK
<1>2. PICK p \in 0 .. Len(pos) :
          /\ IsExisting(p, TRUE)
          /\ tx' = [tx EXCEPT ![s] = [at |-> "read", order |-> tx[s].order,
                                      row |-> p, base |-> RowAt(p)]]
    BY DEF SubmitRead
<1>3. /\ tx'[s].at = "read" /\ tx'[s].order = tx[s].order /\ tx'[s].row = p
      /\ tx'[s].base = RowAt(p) /\ \A q \in Submissions \ {s} : tx'[q] = tx[q]
    BY <1>1, <1>2
<1>4. ASSUME ~overlapped', NEW q \in Submissions PROVE InTurn(q)'
  <2>1. InTurn(s) /\ InTurn(q)
      BY <1>1, <1>4 DEF Serial
  <2>2. OpenRows(TRUE)' = OpenRows(TRUE) /\ RowAt(p)' = RowAt(p)
      BY <1>1 DEF OpenRows, RowAt
  <2>3. CASE q = s
      BY <1>1, <1>2, <1>3, <2>1, <2>2, <2>3 DEF InTurn, IsExisting, RowAt
  <2>4. CASE q # s
      BY <1>1, <1>3, <2>1, <2>4 DEF InTurn
  <2>5. QED BY <2>3, <2>4
<1>5. QED BY <1>1, <1>4, RequestStepSerial

LEMMA SubmitRollbackSerial ==
    ASSUME Inductive, Serial, NEW s \in Submissions, SubmitRollback(s)
    PROVE  Serial'
<1>1. /\ UNCHANGED <<perps, order, pos, ideal, overlapped>> /\ tx[s].at # "idle"
      /\ tx' = [tx EXCEPT ![s] = Idle] /\ tx \in [Submissions -> Request]
    BY DEF SubmitRollback, Inductive, TypeOK
<1>2. tx'[s].at = "idle" /\ \A q \in Submissions \ {s} : tx'[q] = tx[q]
    BY <1>1 DEF Idle
<1>3. ASSUME ~overlapped', NEW q \in Submissions PROVE InTurn(q)'
  <2>1. \A r \in Submissions : tx'[r].at = "idle"
      BY <1>1, <1>2, <1>3 DEF Serial, InTurn
  <2>2. QED BY <2>1 DEF InTurn
<1>4. QED BY <1>1, <1>3, RequestStepSerial

---------------------------------------------------------------------------
\* What a submission in turn commits: the whole of a PENDING order, on the row
\* that is there.
CommitFills(s, o, n, st, f) ==
    /\ tx[s].at = "read" /\ o = tx[s].order /\ n > 0
    /\ ApplyFill(o, n, tx[s].row, tx[s].base) /\ OrderMoves(o, st, f)
    /\ st \in {"filled", "rejected"} /\ order[o].paper = TRUE
    /\ tx' = [tx EXCEPT ![s] = Idle] /\ UNCHANGED <<perps, overlapped>>
    /\ ~overlapped => ideal'[TRUE] = Settled(ideal[TRUE], o, n)

LEMMA CommitFill ==
    ASSUME Inductive, Serial, NEW s \in Submissions, SubmitCommit(s)
    PROVE  \E o \in Orders, n, f \in Nat, st \in {"pending", "filled", "rejected"} :
              CommitFills(s, o, n, st, f)
<1> DEFINE o == tx[s].order
           n == order[o].size
<1>1. /\ tx[s].at = "read" /\ ApplyFill(o, n, tx[s].row, tx[s].base)
      /\ tx' = [tx EXCEPT ![s] = Idle] /\ UNCHANGED <<perps, overlapped>>
    BY DEF SubmitCommit, PaperFill
<1>2. o \in Orders /\ order[o].status # "absent" /\ order[o].paper
    BY <1>1 DEF Inductive, TxAgrees
<1>3. order[o] \in Order /\ order[o].paper = TRUE
  <2>1. order[o] \in Order
      BY <1>2 DEF Inductive, TypeOK
  <2>2. QED BY <1>2, <2>1 DEF Order
<1>4. n \in Nat /\ n > 0 /\ order[o].filled \in Nat
    BY <1>2, <1>3 DEF Inductive, OrdersHaveSize, Order
<1>5. \E st \in {"filled", "rejected"}, f \in Nat : OrderMoves(o, st, f)
  <2>1. CASE Refuses(o, tx[s].base) /\ order[o].reduceOnly
    <3>1. order' = [order EXCEPT ![o].status = "rejected"]
        BY <2>1 DEF SubmitCommit
    <3>2. OrderMoves(o, "rejected", order[o].filled)
        BY <1>2, <3>1 DEF Inductive, TypeOK, Order, OrderMoves
    <3>3. QED BY <1>4, <3>2
  <2>2. CASE ~(Refuses(o, tx[s].base) /\ order[o].reduceOnly)
    <3>1. OrderMoves(o, "filled", n)
        BY <2>2, Zenon DEF SubmitCommit, PaperFill, OrderMoves
    <3>2. QED BY <1>4, <3>1
  <2>3. QED BY <2>1, <2>2
<1>6. ASSUME ~overlapped PROVE ideal'[TRUE] = Settled(ideal[TRUE], o, n)
  <2>1. order[o].status = "pending"
      BY <1>1, <1>6 DEF Serial, InTurn
  <2>2. order[o].filled # n
      BY <1>2, <1>4, <2>1 DEF Serial, OrdersFresh
  <2>3. ideal' = [ideal EXCEPT ![TRUE] = IF order[o].filled = n THEN @ ELSE Settled(@, o, n)]
      BY DEF SubmitCommit, PaperFill
  <2>4. ideal' = [ideal EXCEPT ![TRUE] = Settled(@, o, n)]
      BY <2>2, <2>3, Zenon
  <2>5. ideal \in [BOOLEAN -> Int]
      BY DEF Inductive, TypeOK
  <2>6. QED BY <2>4, <2>5
<1> HIDE DEF n
<1>7. PICK st \in {"filled", "rejected"}, f \in Nat : OrderMoves(o, st, f)
    BY <1>5
<1>8. CommitFills(s, o, n, st, f)
    BY <1>1, <1>3, <1>4, <1>6, <1>7 DEF CommitFills
<1>9. QED BY <1>2, <1>4, <1>7, <1>8

LEMMA SubmitCommitSerial ==
    ASSUME Inductive, Serial, NEW s \in Submissions, SubmitCommit(s)
    PROVE  Serial'
<1>1. PICK o \in Orders, n \in Nat, f \in Nat, st \in {"pending", "filled", "rejected"} :
          CommitFills(s, o, n, st, f)
    BY CommitFill
<1>2. /\ tx[s].at = "read" /\ o = tx[s].order /\ n > 0
      /\ ApplyFill(o, n, tx[s].row, tx[s].base) /\ OrderMoves(o, st, f)
      /\ st \in {"filled", "rejected"} /\ order[o].paper = TRUE
      /\ tx' = [tx EXCEPT ![s] = Idle] /\ UNCHANGED <<perps, overlapped>>
      /\ ~overlapped => ideal'[TRUE] = Settled(ideal[TRUE], o, n)
    BY <1>1 DEF CommitFills
<1>3. /\ order'[o].status = st /\ order'[o].reduceOnly = order[o].reduceOnly
      /\ \A q \in Orders \ {o} : order'[q] = order[q]
    BY <1>2, OrderUpdate DEF Inductive, TypeOK
<1>4. OrdersFresh'
    BY <1>2, <1>3 DEF Serial, OrdersFresh
<1>5. ASSUME ~overlapped PROVE ExactBook(TRUE)'
  <2>1. /\ ExactBook(TRUE) /\ IsExisting(tx[s].row, TRUE) /\ tx[s].base = RowAt(tx[s].row)
      BY <1>2, <1>5 DEF Serial, InTurn
  <2>2. CASE tx[s].row = 0
    <3>1. OpenRows(TRUE) = {} /\ tx[s].base = NoPosition
        BY <2>1, <2>2 DEF IsExisting, RowAt
    <3>2. QED BY <1>2, <1>5, <2>1, <2>2, <3>1, ExactAfterOpening
  <2>3. CASE tx[s].row # 0
    <3>1. OpenRows(TRUE) = {tx[s].row} /\ tx[s].base = pos[tx[s].row]
        BY <2>1, <2>3 DEF IsExisting, RowAt
    <3>2. tx[s].row \in DOMAIN pos
        BY <3>1 DEF OpenRows
    <3>3. QED BY <1>2, <1>5, <2>1, <3>1, <3>2, ExactAfterFill
  <2>4. QED BY <2>2, <2>3
<1>6. ASSUME ~overlapped, NEW q \in Submissions PROVE InTurn(q)'
  <2>1. tx \in [Submissions -> Request] /\ Idle.at = "idle"
      BY IdleType DEF Inductive, TypeOK
  <2>2. \A r \in Submissions \ {s} : tx[r].at = "idle"
      BY <1>2, <1>6 DEF Serial, InTurn
  <2>3. \A r \in Submissions : tx'[r].at = "idle"
      BY <1>2, <2>1, <2>2
  <2>4. QED BY <2>3 DEF InTurn
<1>7. QED BY <1>2, <1>4, <1>5, <1>6 DEF Serial

LEMMA SerialStep == Inductive /\ Serial /\ [Next]_vars => Serial'
<1> SUFFICES ASSUME Inductive, Serial, [Next]_vars PROVE Serial'
    OBVIOUS
<1>1. ASSUME NEW o \in Orders, Prepare(o) PROVE Serial'
    BY <1>1, PrepareSerial
<1>2. ASSUME NEW o \in Orders, Fold(o) PROVE Serial'
    BY <1>2, FoldSerial
<1>3. ASSUME NEW s \in Submissions, NEW o \in Orders, SubmitLoad(s, o) PROVE Serial'
    BY <1>3, SubmitLoadSerial
<1>4. ASSUME NEW s \in Submissions, SubmitRead(s) PROVE Serial'
    BY <1>4, SubmitReadSerial
<1>5. ASSUME NEW s \in Submissions, SubmitCommit(s) PROVE Serial'
    BY <1>5, SubmitCommitSerial
<1>6. ASSUME NEW s \in Submissions, SubmitRollback(s) PROVE Serial'
    BY <1>6, SubmitRollbackSerial
<1>7. CASE CloseAbsent
    BY <1>7, CloseAbsentSerial
<1>8. CASE UNCHANGED vars
  <2>1. UNCHANGED <<perps, order, pos, tx, ideal, overlapped>>
      BY <1>8 DEF vars
  <2>2. QED BY <2>1 DEF Serial, OrdersFresh, ExactBook, OpenRows, InTurn, IsExisting, RowAt
<1>9. QED BY <1>1, <1>2, <1>3, <1>4, <1>5, <1>6, <1>7, <1>8 DEF Next

LEMMA SerialInvariant == Spec => [](Inductive /\ Serial)
BY InitInductive, InitSerial, StepPreserves, SerialStep, PTL DEF Spec

---------------------------------------------------------------------------
\* A reduce-only fill on the row it finds opens no row and grows none.
LEMMA ReduceOnlyFill ==
    ASSUME Inductive, NEW o \in Orders, order[o].reduceOnly, perps, NEW n \in Nat,
           NEW p \in Nat, NEW paper \in BOOLEAN, IsExisting(p, paper),
           ApplyFill(o, n, p, RowAt(p))
    PROVE  Len(pos') = Len(pos) /\ \A q \in DOMAIN pos : pos'[q].size <= pos[q].size
<1>1. pos \in Seq(Position) /\ \A q \in DOMAIN pos : pos[q].size \in Nat
  <2>1. pos \in Seq(Position)
      BY DEF Inductive, TypeOK
  <2>2. \A q \in DOMAIN pos : pos[q] \in Position
      BY <2>1
  <2>3. QED BY <2>1, <2>2 DEF Position
<1>2. CASE PerpsRefuses(o, RowAt(p))
    BY <1>1, <1>2 DEF ApplyFill, Refuses
<1>3. CASE ~PerpsRefuses(o, RowAt(p))
  <2>1. p # 0 /\ RowAt(p) = pos[p] /\ pos[p].side # order[o].side
      BY <1>3 DEF PerpsRefuses, RowAt
  <2>2. p \in DOMAIN pos /\ pos[p] \in Position
    <3>1. p \in DOMAIN pos
        BY <2>1 DEF IsExisting, OpenRows
    <3>2. QED BY <1>1, <3>1
  <2> DEFINE new == Merge(pos[p], pos[p], Reduced(pos[p], n))
  <2>3. pos' = [pos EXCEPT ![p] = new]
      BY <1>3, <2>1 DEF ApplyFill, Refuses, After, PerpsAfter
  <2>4. new.size <= pos[p].size
    <3>1. CASE n < pos[p].size
        BY <2>2, <3>1 DEF Merge, Reduced, Position
    <3>2. CASE ~(n < pos[p].size)
        BY <2>2, <3>2 DEF Merge, Reduced, Position
    <3>3. QED BY <3>1, <3>2
  <2> HIDE DEF new
  <2>5. QED BY <1>1, <2>2, <2>3, <2>4
<1>4. QED BY <1>2, <1>3

LEMMA StepGrowsNothing ==
    ASSUME Inductive, Serial, [Next]_vars, ~overlapped, NEW o \in Orders,
           order[o].reduceOnly, order'[o].filled # order[o].filled
    PROVE  Len(pos') = Len(pos) /\ \A p \in DOMAIN pos : pos'[p].size <= pos[p].size
<1>1. perps /\ order \in [Orders -> Order]
    BY DEF Serial, OrdersFresh, Inductive, TypeOK
<1>2. ASSUME NEW q \in Orders, Prepare(q) PROVE FALSE
  <2>1. order[q].status = "absent" /\ \A r \in Orders \ {q} : order'[r] = order[r]
      BY <1>1, <1>2 DEF Prepare
  <2>2. q # o
      BY <2>1 DEF Serial, OrdersFresh
  <2>3. QED BY <2>1, <2>2
<1>3. ASSUME NEW q \in Orders, Fold(q)
      PROVE  Len(pos') = Len(pos) /\ \A p \in DOMAIN pos : pos'[p].size <= pos[p].size
  <2>1. PICK n \in Nat, p \in Nat, f \in Nat, st \in {"pending", "filled", "rejected"} :
            FoldFills(q, n, p, st, f)
      BY <1>3, FoldFill
  <2>2. IsExisting(p, FALSE) /\ ApplyFill(q, n, p, RowAt(p)) /\ OrderMoves(q, st, f)
      BY <2>1 DEF FoldFills
  <2>3. q = o
      BY <1>1, <2>2, OrderUpdate
  <2>4. QED BY <1>1, <2>2, <2>3, ReduceOnlyFill
<1>4. ASSUME NEW s \in Submissions, SubmitCommit(s)
      PROVE  Len(pos') = Len(pos) /\ \A p \in DOMAIN pos : pos'[p].size <= pos[p].size
  <2>1. PICK q \in Orders, n \in Nat, f \in Nat, st \in {"pending", "filled", "rejected"} :
            CommitFills(s, q, n, st, f)
      BY <1>4, CommitFill
  <2>2. /\ tx[s].at = "read" /\ ApplyFill(q, n, tx[s].row, tx[s].base) /\ OrderMoves(q, st, f)
      BY <2>1 DEF CommitFills
  <2>3. q = o
      BY <1>1, <2>2, OrderUpdate
  <2>4. /\ IsExisting(tx[s].row, TRUE) /\ tx[s].base = RowAt(tx[s].row)
      BY <2>2 DEF Serial, InTurn
  <2>5. tx[s].row \in Nat
      BY DEF Inductive, TypeOK, Request
  <2>6. QED BY <1>1, <2>2, <2>3, <2>4, <2>5, ReduceOnlyFill
<1>5. order' = order => FALSE
    OBVIOUS
<1>6. QED BY <1>2, <1>3, <1>4, <1>5
        DEF Next, vars, SubmitLoad, SubmitRead, SubmitRollback, CloseAbsent

---------------------------------------------------------------------------
\* The ledger's state is well typed: sizes never become negative, whatever
\* updates of the same row interleave.
THEOREM TypeCorrect == Spec => []TypeOK
<1>1. Inductive => TypeOK
    BY DEF Inductive
<1>2. QED BY <1>1, InductiveInvariant, PTL

\* No OPEN row of size 0 is left behind, for any number of overlapping paper
\* submissions of any sizes: what a fill writes to a row is either a size above
\* 0 or, with it, the closed status.
THEOREM OpenRowsHaveSize == Spec => []OpenHasSize
<1>1. Inductive => OpenHasSize
    BY DEF Inductive
<1>2. QED BY <1>1, InductiveInvariant, PTL

\* The real book has one OPEN row at most, with the side and the size that its
\* fills leave when they are settled one by one, whatever paper submissions do
\* to the same table meanwhile.
THEOREM RealBookAlwaysExact == Spec => []RealBookExact
<1>1. Inductive => RealBookExact
    BY DEF Inductive
<1>2. QED BY <1>1, InductiveInvariant, PTL

\* As long as no two submissions of the user have been in progress at once, the
\* paper book too has one OPEN row at most, with the side and the size that its
\* orders leave when each is settled once: the SELECT of apply_fill, which locks
\* nothing, is then as good as a lock.
THEOREM PaperBookExactInTurn == Spec => []PaperBookExact
<1>1. Inductive /\ Serial => PaperBookExact
    BY DEF Serial, PaperBookExact
<1>2. QED BY <1>1, SerialInvariant, PTL

\* Under the same condition a reduce-only fill, whole or partial, paper or real,
\* opens no position and grows none, so that waiving the exposure caps for such
\* orders lets no exposure in.
THEOREM ReduceOnlyReduces == Spec => ReduceOnlyNeverGrows
<1> DEFINE Reduces ==
        ~overlapped =>
          \A o \in Orders :
              (order[o].reduceOnly /\ order'[o].filled # order[o].filled) =>
                  /\ Len(pos') = Len(pos)
                  /\ \A p \in DOMAIN pos : pos'[p].size <= pos[p].size
<1>1. Inductive /\ Serial /\ [Next]_vars => Reduces
    BY StepGrowsNothing
<1>2. QED BY <1>1, SerialInvariant, PTL DEF Spec, ReduceOnlyNeverGrows

===========================================================================
