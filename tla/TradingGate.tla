----------------------------- MODULE TradingGate ---------------------------
(***************************************************************************)
(* The pre-trade gate of one user: POST /prepare and POST /close-position   *)
(* (api/routes/execution.py) down to check_order and the insert of the      *)
(* order (pipeline/execution/risk.py), the circuit breakers the gate reads  *)
(* (pipeline/circuit_breaker.py), and the admin routes that change what it  *)
(* reads: halt, resume, paper-trade, unbind-wallet.                         *)
(*                                                                          *)
(*  - A call loads the users row in get_current_user.  The gate's SELECT    *)
(*    ... FOR UPDATE takes the row lock and returns that same ORM object,   *)
(*    with the attributes loaded before: expire_on_commit is off and no     *)
(*    query asks for populate_existing.                                     *)
(*  - Every SELECT sees what is committed when it runs: between two         *)
(*    statements of a call anything may commit that needs no user lock.     *)
(*  - Prices and sizes are abstracted to an amount, in units of notional.   *)
(***************************************************************************)
EXTENDS Integers, FiniteSets, Functions

CONSTANTS
    Calls,          \* /prepare and /close-position requests; each may insert an order
    Halts,          \* admins, each of whom may halt again and again
    Bodies,         \* what a /prepare request may ask for
    OpenCap,        \* execution_max_open_orders_per_user
    DailyCap,       \* execution_daily_notional_usd_cap
    SymbolCap,      \* execution_per_symbol_notional_usd_cap
    LeverageCap,    \* execution_max_leverage
    MaxRowChanges   \* bound: changes to the users row made by other requests

Venues == {"spot", "perps"}
Assets == {"BTC", "ETH"}
Scopes == {"global", "user"}
Triggers == {"manual", "automated"}
Free == "free"
None == "none"

ASSUME CapsAssumption ==
    /\ OpenCap \in Nat /\ DailyCap \in Nat /\ SymbolCap \in Nat
    /\ SymbolCap <= DailyCap          \* config.py validates it
ASSUME CallsAssumption == IsFiniteSet(Calls) /\ Free \notin Calls /\ None \notin Calls

(***************************************************************************)
(* A request: RiskRequest, its parent named by the call that inserted it.   *)
(***************************************************************************)
Request ==
    [kind: {"prepare", "close"}, venue: Venues, asset: Assets, side: {"buy", "sell"}, tif: {"gtc", "ioc", "fok"},
     trigger: {None, "mark", "last"}, leverage: Nat, stop: BOOLEAN,
     reduceOnly: BOOLEAN, conditional: BOOLEAN, parent: Calls \cup {None}, amount: Nat]

\* What post_close_position asks for: an immediate order at the market, which on
\* perps can only reduce and carries the position's leverage.
IsClose(b) ==
    /\ b.tif = "ioc" /\ ~b.conditional /\ ~b.stop /\ b.trigger = None /\ b.parent = None
    /\ b.reduceOnly = (b.venue = "perps") /\ (b.leverage > 0) = (b.venue = "perps")

ASSUME BodiesAssumption ==
    Bodies \subseteq Request /\ \A b \in Bodies : b.kind = "close" => IsClose(b)

VARIABLES
    row,       \* the users row, committed
    lock,      \* the call that holds the row's lock
    changes,   \* how often other requests have changed the row
    at,        \* where each call is
    copy,      \* the User object each call loaded
    body,      \* what each call asks for
    orders,    \* the orders the calls inserted
    reopened,  \* orders that came back after they had ended
    slipped,   \* what fills above the requested price have added to the notional
    breakers,  \* committed, unresolved circuit_breakers rows: <<trigger, scope>>
    haltAt,    \* where each halt request is
    frozen     \* calls received under a global halt that has not been resumed since

vars == <<row, lock, changes, at, copy, body, orders, reopened, slipped, breakers, haltAt, frozen>>
userVars == <<row, changes>>
breakerVars == <<breakers, haltAt>>
drift == <<reopened, slipped>>

Steps == {"idle", "received", "locked", "deduped", "globalClear", "clear", "judged",
          "done", "refused"}
Inserted == {c \in Calls : orders[c].status # "absent"}
NoCopy == [bound |-> FALSE, keys |-> {}]
NoHalt == [step |-> "idle", scope |-> "global"]
NoOrder == [status |-> "absent", age |-> "fresh", amount |-> 0]

TypeOK ==
    /\ row \in [bound: BOOLEAN, keys: SUBSET Venues]
    /\ lock \in Calls \cup {Free}
    /\ changes \in Nat
    /\ at \in [Calls -> Steps]
    /\ copy \in [Calls -> [bound: BOOLEAN, keys: SUBSET Venues]]
    /\ body \in [Calls -> Request]
    /\ orders \in [Calls -> [status: {"absent", "open", "filled", "dead"},
                             age: {"fresh", "day", "old"}, amount: Nat]]
    /\ reopened \subseteq Calls /\ slipped \in Nat
    /\ breakers \subseteq Triggers \X Scopes
    /\ haltAt \in [Halts -> [step: {"idle", "inserted", "conflict"}, scope: Scopes]]
    /\ frozen \subseteq Calls

Blank ==
    [kind |-> "prepare", venue |-> "spot", asset |-> "BTC", side |-> "buy", tif |-> "gtc",
     trigger |-> None, leverage |-> 0, stop |-> FALSE, reduceOnly |-> FALSE,
     conditional |-> FALSE, parent |-> None, amount |-> 0]

Init ==
    /\ row = [bound |-> TRUE, keys |-> Venues]
    /\ lock = Free
    /\ changes = 0
    /\ at = [c \in Calls |-> "idle"]
    /\ copy = [c \in Calls |-> NoCopy]
    /\ body = [c \in Calls |-> Blank]
    /\ orders = [c \in Calls |-> NoOrder]
    /\ reopened = {} /\ slipped = 0
    /\ breakers = {}
    /\ haltAt = [h \in Halts |-> NoHalt]
    /\ frozen = {}

---------------------------------------------------------------------------
(* What the gate reads. *)

\* _find_active_breaker_trigger: LIMIT 1 without an ORDER BY.
ActiveTriggers(scope) == {t \in Triggers : <<t, scope>> \in breakers}

\* _count_open_orders: every order that is not terminal, reduce-only or not.
OpenOrders == {c \in Calls : orders[c].status = "open"}

\* _sum_notional: REJECTED, EXPIRED and CANCELLED orders do not count, and the
\* window is 24 hours.
Counted(asset) ==
    {c \in Calls : /\ orders[c].status \in {"open", "filled"}
                   /\ orders[c].age # "old"
                   /\ asset \in {None, body[c].asset}}

Amounts == [c \in Calls |-> orders[c].amount]
Notional(asset) == SumFunctionOnSet(Amounts, Counted(asset))

\* Gate 1, on the User object the call holds.
IdentityHolds(user, b) == user.bound /\ b.venue \in user.keys

\* Gate 3: what the venues do not offer, leverage, and the fields that go together.
Shape(b) ==
    /\ b.tif # "fok"
    /\ b.trigger # "last"
    /\ IF b.venue = "perps"
       THEN b.leverage > 0 /\ (b.reduceOnly \/ b.leverage <= LeverageCap)
       ELSE b.leverage = 0 /\ ~b.stop /\ ~b.reduceOnly
    /\ b.stop => b.trigger # None

\* The parent of a stop leg: an order of this user on the same venue and asset,
\* on the other side, that was not rejected, expired or cancelled.
ParentAccepts(b) ==
    b.parent # None =>
        /\ orders[b.parent].status \in {"open", "filled"}
        /\ body[b.parent].venue = b.venue /\ body[b.parent].asset = b.asset
        /\ body[b.parent].side # b.side
        /\ b.reduceOnly

\* (mutant) The day's notional is summed over the order's asset only.
WithinCapsOneSum(b) ==
    \/ b.reduceOnly
    \/ /\ Cardinality(OpenOrders) < OpenCap
       /\ b.amount = 0 \/ Notional(b.asset) + b.amount <= SymbolCap

\* Gate 4.  An order that can only reduce is exempt; so is, from the notional
\* caps, a conditional order without a price (its amount is 0).
WithinCaps(b) ==
    \/ b.reduceOnly
    \/ /\ Cardinality(OpenOrders) < OpenCap
       /\ b.amount = 0 \/ ( /\ Notional(None) + b.amount <= DailyCap
                            /\ Notional(b.asset) + b.amount <= SymbolCap )

---------------------------------------------------------------------------
(* The calls. *)

\* (mutant) A refusal leaves the transaction open.
RefuseHoldingLock(c) ==
    /\ at' = [at EXCEPT ![c] = "refused"]
    /\ copy' = [copy EXCEPT ![c] = NoCopy]
    /\ body' = [body EXCEPT ![c] = Blank]
    /\ UNCHANGED lock

\* The call ends without an order; its transaction rolls back and the lock goes.
Refuse(c) ==
    /\ at' = [at EXCEPT ![c] = "refused"]
    /\ lock' = IF lock = c THEN Free ELSE lock
    /\ copy' = [copy EXCEPT ![c] = NoCopy]
    /\ body' = [body EXCEPT ![c] = Blank]

\* The call goes on to its next statement.
Proceed(c, step) ==
    /\ at' = [at EXCEPT ![c] = step]
    /\ UNCHANGED <<lock, copy, body>>

\* get_current_user: the users row is loaded; 403 while no wallet is bound.
Receive(c) ==
    /\ at[c] = "idle" /\ row.bound
    /\ \E b \in Bodies : body' = [body EXCEPT ![c] = b]
    /\ copy' = [copy EXCEPT ![c] = row]
    /\ at' = [at EXCEPT ![c] = "received"]
    /\ frozen' = IF <<"manual", "global">> \in breakers THEN frozen \cup {c} ELSE frozen
    /\ UNCHANGED <<userVars, lock, orders, drift, breakerVars>>

\* The spot price a market order is sized with cannot be had: 503.
OracleFails(c) ==
    /\ at[c] = "received" /\ body[c].kind = "prepare"
    /\ Refuse(c)
    /\ UNCHANGED <<userVars, orders, drift, breakerVars, frozen>>

\* (mutant) The users row is read without FOR UPDATE.
LockUserNot(c) ==
    /\ at[c] = "received"
    /\ at' = [at EXCEPT ![c] = "locked"]
    /\ UNCHANGED <<userVars, lock, copy, body, orders, drift, breakerVars, frozen>>

\* SELECT users FOR UPDATE, by the gate or, for a close, by the route.
LockUser(c) ==
    /\ at[c] = "received" /\ lock = Free
    /\ lock' = c
    /\ at' = [at EXCEPT ![c] = "locked"]
    /\ UNCHANGED <<userVars, copy, body, orders, drift, breakerVars, frozen>>

\* (mutant) Only a close that has filled already is found.
CloseInFlightFilledOnly(b) ==
    {o \in Calls : /\ orders[o].status = "filled" /\ orders[o].age = "fresh"
                   /\ body[o].venue = b.venue /\ body[o].asset = b.asset
                   /\ body[o].reduceOnly /\ ~body[o].conditional}

\* Another immediate close of this asset, not terminal and inside the window.
CloseInFlight(b) ==
    {o \in Calls : /\ orders[o].status = "open" /\ orders[o].age = "fresh"
                   /\ body[o].venue = b.venue /\ body[o].asset = b.asset
                   /\ body[o].reduceOnly /\ ~body[o].conditional}

\* A close: no open position, no size, a close in flight on perps, no price for
\* the asset (asked for under the lock) end it; what passes is a market order of
\* the position's size against its side.
Dedupe(c) ==
    /\ at[c] = "locked" /\ body[c].kind = "close"
    /\ \/ Refuse(c)
       \/ /\ body[c].venue = "perps" => CloseInFlight(body[c]) = {}
          /\ Proceed(c, "deduped")
    /\ UNCHANGED <<userVars, orders, drift, breakerVars, frozen>>

\* Identity, then the global breakers: nothing is exempt from them.
CheckGlobal(c) ==
    /\ at[c] = IF body[c].kind = "close" THEN "deduped" ELSE "locked"
    /\ IF IdentityHolds(copy[c], body[c]) /\ ActiveTriggers("global") = {}
       THEN Proceed(c, "globalClear")
       ELSE Refuse(c)
    /\ UNCHANGED <<userVars, orders, drift, breakerVars, frozen>>

\* The user's breakers: the row the query happens to return decides whether a
\* reduce-only order is exempt.
CheckUser(c) ==
    /\ at[c] = "globalClear"
    /\ \/ /\ \/ ActiveTriggers("user") = {}
             \/ body[c].reduceOnly /\ "automated" \in ActiveTriggers("user")
          /\ Proceed(c, "clear")
       \/ /\ \E t \in ActiveTriggers("user") : t = "manual" \/ ~body[c].reduceOnly
          /\ Refuse(c)
    /\ UNCHANGED <<userVars, orders, drift, breakerVars, frozen>>

\* The remaining gates; then the symbol, which may be missing from the cache
\* and ends the call too.
Judge(c) ==
    /\ at[c] = "clear"
    /\ \/ /\ Shape(body[c]) /\ ParentAccepts(body[c]) /\ WithinCaps(body[c])
          /\ Proceed(c, "judged")
       \/ Refuse(c)
    /\ UNCHANGED <<userVars, orders, drift, breakerVars, frozen>>

\* The order is inserted in PENDING and the route commits.
Commit(c) ==
    /\ at[c] = "judged"
    /\ orders' = [orders EXCEPT ![c] =
                    [status |-> "open", age |-> "fresh", amount |-> body[c].amount]]
    /\ at' = [at EXCEPT ![c] = "done"]
    /\ lock' = Free
    /\ copy' = [copy EXCEPT ![c] = NoCopy]
    /\ UNCHANGED <<userVars, body, drift, breakerVars, frozen>>

---------------------------------------------------------------------------
(* Everything that goes on beside the gate. *)

\* An order ends: filled at a price near the requested one, or rejected, expired
\* or cancelled.
Settle(c) ==
    /\ orders[c].status = "open"
    /\ \/ \E amount \in {a \in orders[c].amount - 1 .. orders[c].amount + 1 : a >= 0} :
             /\ orders' = [orders EXCEPT ![c] = [status |-> "filled", age |-> @.age, amount |-> amount]]
             /\ slipped' = IF amount > orders[c].amount THEN slipped + 1 ELSE slipped
       \/ /\ orders' = [orders EXCEPT ![c].status = "dead"]
          /\ UNCHANGED slipped
    /\ UNCHANGED <<userVars, lock, at, copy, body, reopened, breakerVars, frozen>>

\* A late answer takes an order that had ended back in flight (OrderLifecycle
\* shows how).
Reopen(c) ==
    /\ orders[c].status = "dead"
    /\ orders' = [orders EXCEPT ![c].status = "open"]
    /\ reopened' = reopened \cup {c}
    /\ UNCHANGED <<userVars, lock, at, copy, body, slipped, breakerVars, frozen>>

\* The dedupe window and then the day pass over an order.
Age(c) ==
    /\ orders[c].status # "absent" /\ orders[c].age # "old"
    /\ orders' = [orders EXCEPT ![c].age = IF @ = "fresh" THEN "day" ELSE "old"]
    /\ UNCHANGED <<userVars, lock, at, copy, body, drift, breakerVars, frozen>>

\* unbind-wallet, a new bind, a new API key with the account id: each takes the
\* row's lock and commits at once.
ChangeRow ==
    /\ lock = Free /\ changes < MaxRowChanges
    /\ \/ row' = [row EXCEPT !.bound = FALSE, !.keys = {}]
       \/ ~row.bound /\ row' = [row EXCEPT !.bound = TRUE]
       \/ \E v \in Venues : row.bound /\ row' = [row EXCEPT !.keys = @ \cup {v}]
    /\ changes' = changes + 1
    /\ UNCHANGED <<lock, at, copy, body, orders, drift, breakerVars, frozen>>

\* record: INSERT ... ON CONFLICT DO NOTHING.  A row of the scope that another
\* halt has inserted and not committed makes it wait.
HaltRecord(h) ==
    /\ haltAt[h].step = "idle"
    /\ \E scope \in Scopes :
          /\ \A k \in Halts : ~(haltAt[k].step = "inserted" /\ haltAt[k].scope = scope)
          /\ haltAt' = [haltAt EXCEPT ![h] =
                [scope |-> scope,
                 step |-> IF <<"manual", scope>> \in breakers THEN "conflict" ELSE "inserted"]]
    /\ UNCHANGED <<userVars, lock, at, copy, body, orders, drift, breakers, frozen>>

HaltCommit(h) ==
    /\ haltAt[h].step = "inserted"
    /\ breakers' = breakers \cup {<<"manual", haltAt[h].scope>>}
    /\ haltAt' = [haltAt EXCEPT ![h] = NoHalt]
    /\ UNCHANGED <<userVars, lock, at, copy, body, orders, drift, frozen>>

\* The conflicting row is looked up for the answer; if a resume has taken it
\* meanwhile, the admin gets 409 and must halt again.  Nothing is written.
HaltFind(h) ==
    /\ haltAt[h].step = "conflict"
    /\ haltAt' = [haltAt EXCEPT ![h] = NoHalt]
    /\ UNCHANGED <<userVars, lock, at, copy, body, orders, drift, breakers, frozen>>

\* (mutant) Resuming one scope resumes the other.
ResumeBoth ==
    \E scope \in Scopes :
        /\ <<"manual", scope>> \in breakers
        /\ breakers' = breakers \ ({"manual"} \X Scopes)
        /\ frozen' = IF scope = "global" THEN {} ELSE frozen
        /\ UNCHANGED <<userVars, lock, at, copy, body, orders, drift, haltAt>>

\* resolve: every unresolved row of the manual trigger in that scope.
Resume ==
    \E scope \in Scopes :
        /\ <<"manual", scope>> \in breakers
        /\ breakers' = breakers \ {<<"manual", scope>>}
        /\ frozen' = IF scope = "global" THEN {} ELSE frozen
        /\ UNCHANGED <<userVars, lock, at, copy, body, orders, drift, haltAt>>

\* A breaker of the other triggers (daily_loss_limit, macro_event) on the user:
\* the gate provides for it; nothing in src/ records one yet.
TripAutomated ==
    /\ breakers' = breakers \cup {<<"automated", "user">>}
    /\ UNCHANGED <<userVars, lock, at, copy, body, orders, drift, haltAt, frozen>>

CallStep(c) ==
    LockUser(c) \/ Dedupe(c) \/ CheckGlobal(c) \/ CheckUser(c) \/ Judge(c) \/ Commit(c)

Next ==
    \/ \E c \in Calls : Receive(c) \/ OracleFails(c) \/ CallStep(c)
    \/ \E c \in Calls : Settle(c) \/ Reopen(c) \/ Age(c)
    \/ \E h \in Halts : HaltRecord(h) \/ HaltCommit(h) \/ HaltFind(h)
    \/ ChangeRow \/ Resume \/ TripAutomated

Spec == Init /\ [][Next]_vars

\* Each request is served by its own coroutine and every await in it ends, the
\* oracle's HTTP call by its timeout.
FairSpec == Spec /\ \A c \in Calls : WF_vars(CallStep(c))

---------------------------------------------------------------------------
\* The orders whose caps were judged when they were inserted.
Judged(status) ==
    {c \in Calls : orders[c].status \in status /\ ~body[c].reduceOnly /\ c \notin reopened}

\* Overlapping calls cannot take a user past the cap on open orders: only orders
\* that reduce, and orders that came back from the dead, are beyond it.
OpenOrdersCapped == Cardinality(Judged({"open"})) <= OpenCap

\* Nor past the notional caps of the day, in all and per asset, except by what
\* fills have cost more than was asked.
NotionalCapped ==
    LET Sum(asset) ==
            SumFunctionOnSet(Amounts, Counted(asset) \cap Judged({"open", "filled"}))
    IN  /\ Sum(None) <= DailyCap + slipped
        /\ \A c \in Calls : Sum(body[c].asset) <= SymbolCap + slipped

\* Of two closes of one perps position issued inside the dedupe window at most
\* one is in flight, however the two requests overlap.
ClosesNotDoubled ==
    \A c, d \in Calls \ reopened :
        /\ body[c].kind = "close" /\ body[d].kind = "close"
        /\ body[c].venue = "perps" /\ body[d].venue = "perps"
        /\ body[c].asset = body[d].asset
        /\ orders[c].status = "open" /\ orders[d].status = "open"
        /\ orders[c].age = "fresh" /\ orders[d].age = "fresh"
        => c = d

\* A request that arrives under a global halt leaves no order unless the halt is
\* resumed: a halt that was answered cannot be overtaken, nor undone by the
\* resume of a user.
HaltStopsPrepares == \A c \in frozen : orders[c].status = "absent"

\* No call waits for ever for the row lock, and none keeps it.
CallsEnd == \A c \in Calls : at[c] = "received" ~> at[c] \in {"done", "refused"}

\* unbind-wallet: "a concurrent prepare cannot land an Order against a stale
\* wallet binding mid-unbind" (admin.py:921-923).
NoOrderWhileUnbound ==
    [][\A c \in Calls : orders[c].status = "absent" /\ orders'[c].status # "absent"
          => row.bound]_vars
===========================================================================
