-------------------------- MODULE NonceAllocation -------------------------
(***************************************************************************)
(* How one user's EIP-712 nonces are allocated: next_nonce_for_user in      *)
(* pipeline/execution/nonce.py, called by prepare_new (through the risk     *)
(* gate's SELECT users FOR UPDATE) and by prepare_cancel (which takes the   *)
(* same lock itself).  A nonce is max(now_ms, MAX(orders.nonce) + 1): the   *)
(* maximum is over the nonces of orders, and a cancel's nonce is stored in  *)
(* another column.                                                          *)
(*                                                                          *)
(* The wall clock may stand still between two calls and may be set back.    *)
(***************************************************************************)
EXTENDS Naturals, FiniteSets

CONSTANTS
    NewRequests,     \* calls of prepare_new that may be made
    CancelRequests,  \* calls of prepare_cancel that may be made
    MaxClock         \* bound: the clock shows 1 .. MaxClock milliseconds

Callers == NewRequests \cup CancelRequests
Unlocked == "free"

ASSUME KindsAssumption == NewRequests \cap CancelRequests = {}
ASSUME LockAssumption == Unlocked \notin Callers
ASSUME ClockAssumption == MaxClock \in Nat

VARIABLES
    clock,       \* time.time(), in milliseconds
    highest,     \* the highest clock reading so far
    lock,        \* who holds the lock on the users row
    at,          \* where each call is: idle, locked, drawn, done
    drawn,       \* the nonce each call has computed
    orderNonce,  \* orders.nonce of the order each prepare_new committed, or 0
    cancelNonce  \* orders.cancel_nonce each prepare_cancel committed, or 0

nonceVars == <<clock, highest, lock, at, drawn, orderNonce, cancelNonce>>

NonceTypeOK ==
    /\ clock \in Nat /\ highest \in Nat /\ clock <= highest
    /\ lock \in Callers \cup {Unlocked}
    /\ at \in [Callers -> {"idle", "locked", "drawn", "done"}]
    /\ drawn \in [Callers -> Nat]
    /\ orderNonce \in [NewRequests -> Nat]
    /\ cancelNonce \in [CancelRequests -> Nat]

NonceInit ==
    /\ clock \in 1 .. MaxClock
    /\ highest = clock
    /\ lock = Unlocked
    /\ at = [r \in Callers |-> "idle"]
    /\ drawn = [r \in Callers |-> 0]
    /\ orderNonce = [r \in NewRequests |-> 0]
    /\ cancelNonce = [r \in CancelRequests |-> 0]

\* (mutant) The users row is read without the lock.
LockUserNot(r) ==
    /\ at[r] = "idle"
    /\ at' = [at EXCEPT ![r] = "locked"]
    /\ UNCHANGED <<clock, highest, lock, drawn, orderNonce, cancelNonce>>

\* SELECT users FOR UPDATE: waits for whoever holds the row.
LockUser(r) ==
    /\ at[r] = "idle" /\ lock = Unlocked
    /\ lock' = r
    /\ at' = [at EXCEPT ![r] = "locked"]
    /\ UNCHANGED <<clock, highest, drawn, orderNonce, cancelNonce>>

\* last is SELECT max(orders.nonce), 0 when the user has no order yet.
IsLast(last) ==
    /\ last \in {0} \cup {orderNonce[r] : r \in NewRequests}
    /\ \A r \in NewRequests : orderNonce[r] <= last

\* (mutants) The wall clock alone; the successor of the last nonce doubled up.
NextNonceClockOnly(last) == clock
NextNonceRunsAway(last) == IF clock > last THEN clock ELSE 2 * last + 1

\* max(now_ms, last + 1)
NextNonce(last) == IF clock > last THEN clock ELSE last + 1

\* next_nonce_for_user.
Draw(r) ==
    /\ at[r] = "locked"
    /\ \E last \in {0} \cup {orderNonce[q] : q \in NewRequests} :
          IsLast(last) /\ drawn' = [drawn EXCEPT ![r] = NextNonce(last)]
    /\ at' = [at EXCEPT ![r] = "drawn"]
    /\ UNCHANGED <<clock, highest, lock, orderNonce, cancelNonce>>

\* prepare_new inserts the order, prepare_cancel updates its own; the route
\* commits, and the commit releases the lock.
Commit(r) ==
    /\ at[r] = "drawn"
    /\ orderNonce' = IF r \in NewRequests THEN [orderNonce EXCEPT ![r] = drawn[r]]
                     ELSE orderNonce
    /\ cancelNonce' = IF r \in CancelRequests THEN [cancelNonce EXCEPT ![r] = drawn[r]]
                      ELSE cancelNonce
    /\ at' = [at EXCEPT ![r] = "done"]
    /\ lock' = Unlocked
    /\ UNCHANGED <<clock, highest, drawn>>

\* A denial of the risk gate, a missing symbol, an insert that fails, a crash:
\* the transaction rolls back and the call may be made again.
Rollback(r) ==
    /\ at[r] \in {"locked", "drawn"}
    /\ at' = [at EXCEPT ![r] = "idle"]
    /\ drawn' = [drawn EXCEPT ![r] = 0]
    /\ lock' = Unlocked
    /\ UNCHANGED <<clock, highest, orderNonce, cancelNonce>>

\* Time passes, or the clock is set, also backwards.
ClockMoves ==
    \E now \in 1 .. MaxClock :
        /\ clock' = now
        /\ highest' = IF now > highest THEN now ELSE highest
        /\ UNCHANGED <<lock, at, drawn, orderNonce, cancelNonce>>

NonceNext ==
    \/ \E r \in Callers : LockUser(r) \/ Draw(r) \/ Commit(r) \/ Rollback(r)
    \/ ClockMoves

NonceSpec == NonceInit /\ [][NonceNext]_nonceVars

---------------------------------------------------------------------------
\* No two orders of a user carry the same nonce: the venue would refuse the
\* second for good.
OrderNoncesDistinct ==
    \A r, q \in NewRequests :
        orderNonce[r] # 0 /\ orderNonce[r] = orderNonce[q] => r = q

\* Why: a call between its lock and its commit is the only one there, so the
\* nonce it has computed still exceeds every committed one when it commits.
LockGuardsDraw ==
    \A r \in Callers :
        /\ at[r] \in {"locked", "drawn"} <=> lock = r
        /\ at[r] = "drawn" => \A q \in NewRequests : drawn[r] > orderNonce[q]
        /\ r \in NewRequests /\ orderNonce[r] # 0 => at[r] = "done"

\* A committed order's nonce exceeds every nonce committed before it, even when
\* the clock was set back.
OrderNoncesIncrease ==
    [][\A r, q \in NewRequests :
          orderNonce'[r] # orderNonce[r] => orderNonce'[r] > orderNonce[q]]_nonceVars

\* Nonces do not run ahead of the clock (the venue takes none beyond T + 1 day):
\* at most one millisecond per order that exists.
NoncesNearClock ==
    \A r \in NewRequests :
        orderNonce[r] <= highest + Cardinality({q \in NewRequests : orderNonce[q] # 0})

===========================================================================
