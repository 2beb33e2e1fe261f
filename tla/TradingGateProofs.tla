------------------------- MODULE TradingGateProofs -------------------------
(***************************************************************************)
(* TradingGate for any number of calls, halts, orders and caps.             *)
(*                                                                          *)
(* The row lock makes the gate a critical section, so what a call has read  *)
(* about its own user (room under the cap, no close in flight) can only     *)
(* have improved when it inserts; the breakers are not behind the lock, and *)
(* a halt holds because a call received under it has yet to read them.      *)
(* Every step is first reduced to one of six kinds (StepKinds); the         *)
(* invariants are then carried over the kinds.                              *)
(***************************************************************************)
EXTENDS TradingGate, FiniteSums

Gate == {"locked", "deduped", "globalClear", "clear", "judged"}
PastDedupe == {"deduped", "globalClear", "clear", "judged"}
GlobalHalt == <<"manual", "global">>

----------------------------------------------------------------------------
(* Type correctness.                                                         *)

LEMMA BlankIsRequest == Blank \in Request
BY DEF Blank, Request, Venues, Assets, None

LEMMA InitType == Init => TypeOK
BY BlankIsRequest
DEF Init, TypeOK, NoCopy, NoHalt, NoOrder, Steps, Venues, Scopes, Triggers, Free

\* Ending a call keeps the types of what it touches.
LEMMA RefuseType ==
    ASSUME TypeOK, NEW c \in Calls, Refuse(c)
    PROVE  /\ lock' \in Calls \cup {Free}
           /\ at' \in [Calls -> Steps]
           /\ copy' \in [Calls -> [bound: BOOLEAN, keys: SUBSET Venues]]
           /\ body' \in [Calls -> Request]
<1>1. NoCopy \in [bound: BOOLEAN, keys: SUBSET Venues]
    BY DEF NoCopy
<1>2. "refused" \in Steps
    BY DEF Steps
<1>3. at' \in [Calls -> Steps] /\ lock' \in Calls \cup {Free}
    BY <1>2 DEF Refuse, TypeOK
<1>4. copy' \in [Calls -> [bound: BOOLEAN, keys: SUBSET Venues]]
    BY <1>1 DEF Refuse, TypeOK
<1>5. body' \in [Calls -> Request]
    BY BlankIsRequest DEF Refuse, TypeOK
<1>6. QED BY <1>3, <1>4, <1>5

LEMMA ProceedType ==
    ASSUME TypeOK, NEW c \in Calls, NEW step \in Steps, Proceed(c, step)
    PROVE  /\ lock' \in Calls \cup {Free}
           /\ at' \in [Calls -> Steps]
           /\ copy' \in [Calls -> [bound: BOOLEAN, keys: SUBSET Venues]]
           /\ body' \in [Calls -> Request]
BY DEF Proceed, TypeOK

\* What a call leaves alone, whatever its own four variables become.
LEMMA CallType ==
    ASSUME TypeOK, UNCHANGED <<userVars, orders, drift, breakerVars, frozen>>,
           lock' \in Calls \cup {Free}, at' \in [Calls -> Steps],
           copy' \in [Calls -> [bound: BOOLEAN, keys: SUBSET Venues]],
           body' \in [Calls -> Request]
    PROVE  TypeOK'
BY DEF TypeOK, userVars, drift, breakerVars

LEMMA StepType == TypeOK /\ [Next]_vars => TypeOK'
<1> SUFFICES ASSUME TypeOK, [Next]_vars PROVE TypeOK'
    OBVIOUS
<1>1. ASSUME NEW c \in Calls, Receive(c) PROVE TypeOK'
    <2>1. PICK b \in Bodies : body' = [body EXCEPT ![c] = b]
        BY <1>1 DEF Receive
    <2>2. body' \in [Calls -> Request]
        BY <2>1, BodiesAssumption DEF TypeOK
    <2>3. copy' \in [Calls -> [bound: BOOLEAN, keys: SUBSET Venues]]
        BY <1>1 DEF Receive, TypeOK
    <2>4. at' \in [Calls -> Steps] /\ frozen' \subseteq Calls
        BY <1>1 DEF Receive, TypeOK, Steps
    <2>5. QED BY <1>1, <2>2, <2>3, <2>4 DEF Receive, TypeOK, userVars, drift, breakerVars
<1>2. ASSUME NEW c \in Calls, OracleFails(c) PROVE TypeOK'
    BY <1>2, RefuseType, CallType DEF OracleFails
<1>3. ASSUME NEW c \in Calls, LockUser(c) PROVE TypeOK'
    BY <1>3 DEF LockUser, TypeOK, Steps, userVars, drift, breakerVars
<1>4. ASSUME NEW c \in Calls, Dedupe(c) PROVE TypeOK'
    BY <1>4, RefuseType, ProceedType, CallType DEF Dedupe, Steps
<1>5. ASSUME NEW c \in Calls, CheckGlobal(c) PROVE TypeOK'
    <2>1. Proceed(c, "globalClear") \/ Refuse(c)
        BY <1>5 DEF CheckGlobal
    <2>2. "globalClear" \in Steps
        BY DEF Steps
    <2>3. UNCHANGED <<userVars, orders, drift, breakerVars, frozen>>
        BY <1>5 DEF CheckGlobal
    <2>4. QED BY <2>1, <2>2, <2>3, RefuseType, ProceedType, CallType
<1>6. ASSUME NEW c \in Calls, CheckUser(c) PROVE TypeOK'
    BY <1>6, RefuseType, ProceedType, CallType DEF CheckUser, Steps
<1>7. ASSUME NEW c \in Calls, Judge(c) PROVE TypeOK'
    BY <1>7, RefuseType, ProceedType, CallType DEF Judge, Steps
<1>8. ASSUME NEW c \in Calls, Commit(c) PROVE TypeOK'
    <2>1. body[c].amount \in Nat
        BY DEF TypeOK, Request
    <2>2. orders' \in [Calls -> [status: {"absent", "open", "filled", "dead"},
                                 age: {"fresh", "day", "old"}, amount: Nat]]
        BY <1>8, <2>1 DEF Commit, TypeOK
    <2>3. NoCopy \in [bound: BOOLEAN, keys: SUBSET Venues] /\ "done" \in Steps
        BY DEF NoCopy, Steps
    <2>4. copy' \in [Calls -> [bound: BOOLEAN, keys: SUBSET Venues]] /\ at' \in [Calls -> Steps]
        BY <1>8, <2>3 DEF Commit, TypeOK
    <2>5. QED BY <1>8, <2>2, <2>4 DEF Commit, TypeOK, userVars, drift, breakerVars
<1>9. ASSUME NEW c \in Calls, Settle(c) PROVE TypeOK'
    <2>1. CASE \E amount \in {a \in orders[c].amount - 1 .. orders[c].amount + 1 : a >= 0} :
                   /\ orders' = [orders EXCEPT ![c] = [status |-> "filled", age |-> @.age, amount |-> amount]]
                   /\ slipped' = IF amount > orders[c].amount THEN slipped + 1 ELSE slipped
        <3>1. PICK amount \in {a \in orders[c].amount - 1 .. orders[c].amount + 1 : a >= 0} :
                   /\ orders' = [orders EXCEPT ![c] = [status |-> "filled", age |-> @.age, amount |-> amount]]
                   /\ slipped' = IF amount > orders[c].amount THEN slipped + 1 ELSE slipped
            BY <2>1
        <3>2. orders[c].amount \in Nat /\ amount \in Nat
            BY DEF TypeOK
        <3>4. orders' \in [Calls -> [status: {"absent", "open", "filled", "dead"},
                                     age: {"fresh", "day", "old"}, amount: Nat]]
            BY <3>1, <3>2 DEF TypeOK
        <3>5. slipped' \in Nat
            BY <3>1 DEF TypeOK
        <3>6. QED BY <1>9, <3>4, <3>5 DEF Settle, TypeOK, userVars, breakerVars
    <2>2. CASE orders' = [orders EXCEPT ![c].status = "dead"] /\ UNCHANGED slipped
        BY <1>9, <2>2 DEF Settle, TypeOK, userVars, breakerVars
    <2>3. QED BY <1>9, <2>1, <2>2 DEF Settle
<1>10. ASSUME NEW c \in Calls, Reopen(c) PROVE TypeOK'
    BY <1>10 DEF Reopen, TypeOK, userVars, breakerVars
<1>11. ASSUME NEW c \in Calls, Age(c) PROVE TypeOK'
    BY <1>11 DEF Age, TypeOK, userVars, drift, breakerVars
<1>12. ASSUME NEW h \in Halts, HaltRecord(h) PROVE TypeOK'
    <2>1. PICK scope \in Scopes :
              haltAt' = [haltAt EXCEPT ![h] =
                [scope |-> scope,
                 step |-> IF <<"manual", scope>> \in breakers THEN "conflict" ELSE "inserted"]]
        BY <1>12 DEF HaltRecord
    <2>2. haltAt' \in [Halts -> [step: {"idle", "inserted", "conflict"}, scope: Scopes]]
        BY <2>1 DEF TypeOK
    <2>3. QED BY <1>12, <2>2 DEF HaltRecord, TypeOK, userVars, drift
<1>13. ASSUME NEW h \in Halts, HaltCommit(h) \/ HaltFind(h) PROVE TypeOK'
    <2>1. NoHalt \in [step: {"idle", "inserted", "conflict"}, scope: Scopes]
        BY DEF NoHalt, Scopes
    <2>2. haltAt' \in [Halts -> [step: {"idle", "inserted", "conflict"}, scope: Scopes]]
        BY <1>13, <2>1 DEF HaltCommit, HaltFind, TypeOK
    <2>3. breakers' \subseteq Triggers \X Scopes
        BY <1>13 DEF HaltCommit, HaltFind, TypeOK, Triggers
    <2>4. UNCHANGED <<row, changes, lock, at, copy, body, orders, reopened, slipped, frozen>>
        BY <1>13 DEF HaltCommit, HaltFind, userVars, drift
    <2>5. QED BY <2>2, <2>3, <2>4 DEF TypeOK
<1>14. ASSUME ChangeRow PROVE TypeOK'
    <2>1. row' \in [bound: BOOLEAN, keys: SUBSET Venues]
        <3>1. CASE row' = [row EXCEPT !.bound = FALSE, !.keys = {}]
            <4>1. row' = [bound |-> FALSE, keys |-> {}]
                BY <3>1 DEF TypeOK
            <4>2. QED BY <4>1
        <3>2. CASE row' = [row EXCEPT !.bound = TRUE]
            BY <3>2 DEF TypeOK
        <3>3. CASE \E v \in Venues : row' = [row EXCEPT !.keys = @ \cup {v}]
            BY <3>3 DEF TypeOK
        <3>4. QED BY <1>14, <3>1, <3>2, <3>3 DEF ChangeRow
    <2>2. changes' \in Nat
        BY <1>14 DEF ChangeRow, TypeOK
    <2>3. QED BY <1>14, <2>1, <2>2 DEF ChangeRow, TypeOK, drift, breakerVars
<1>15. ASSUME Resume \/ TripAutomated PROVE TypeOK'
    <2>1. /\ breakers' \subseteq Triggers \X Scopes
          /\ frozen' \subseteq Calls
        BY <1>15 DEF Resume, TripAutomated, TypeOK, Triggers, Scopes
    <2>2. UNCHANGED <<row, changes, lock, at, copy, body, orders, reopened, slipped, haltAt>>
        BY <1>15 DEF Resume, TripAutomated, userVars, drift
    <2>3. QED BY <2>1, <2>2 DEF TypeOK
<1>16. CASE UNCHANGED vars
    BY <1>16 DEF vars, TypeOK
<1>17. QED
    BY <1>1, <1>2, <1>3, <1>4, <1>5, <1>6, <1>7, <1>8, <1>9, <1>10, <1>11, <1>12, <1>13,
       <1>14, <1>15, <1>16 DEF Next, CallStep

\* The gate never leaves its types: in particular the lock always has one owner at
\* most, and amounts stay natural whatever a fill costs (risk.py check_order).
THEOREM TypeCorrect == Spec => []TypeOK
<1>1. QED BY InitType, StepType, PTL DEF Spec

----------------------------------------------------------------------------
(* The kinds of steps.                                                       *)

Enters(c) ==
    /\ at[c] = "idle" /\ at' = [at EXCEPT ![c] = "received"]
    /\ \E b \in Bodies : body' = [body EXCEPT ![c] = b]
    /\ frozen' = IF GlobalHalt \in breakers THEN frozen \cup {c} ELSE frozen
    /\ UNCHANGED <<lock, orders, reopened, slipped, breakers>>

Locks(c) ==
    /\ at[c] = "received" /\ at' = [at EXCEPT ![c] = "locked"]
    /\ lock = Free /\ lock' = c
    /\ UNCHANGED <<body, orders, reopened, slipped, breakers, frozen>>

\* What a call has established when it reaches a step of the gate.
Establishes(c, step) ==
    \/ /\ step = "deduped" /\ at[c] = "locked"
       /\ body[c].venue = "perps" => CloseInFlight(body[c]) = {}
    \/ /\ step = "globalClear"
       /\ at[c] = IF body[c].kind = "close" THEN "deduped" ELSE "locked"
       /\ GlobalHalt \notin breakers
    \/ step = "clear" /\ at[c] = "globalClear"
    \/ /\ step = "judged" /\ at[c] = "clear"
       /\ WithinCaps(body[c])

Advances(c, step) ==
    /\ Establishes(c, step)
    /\ at' = [at EXCEPT ![c] = step]
    /\ UNCHANGED <<lock, body, orders, reopened, slipped, breakers, frozen>>

Ends(c) ==
    /\ at[c] \in Gate \cup {"received"} /\ at' = [at EXCEPT ![c] = "refused"]
    /\ lock' = IF lock = c THEN Free ELSE lock
    /\ body' = [body EXCEPT ![c] = Blank]
    /\ UNCHANGED <<orders, reopened, slipped, breakers, frozen>>

Inserts(c) ==
    /\ at[c] = "judged" /\ at' = [at EXCEPT ![c] = "done"]
    /\ orders' = [orders EXCEPT ![c] =
                    [status |-> "open", age |-> "fresh", amount |-> body[c].amount]]
    /\ lock' = Free
    /\ UNCHANGED <<body, reopened, slipped, breakers, frozen>>

\* Orders that count towards the notional caps, and were judged by them.
Weighs(c) ==
    /\ orders[c].status \in {"open", "filled"} /\ orders[c].age # "old"
    /\ c \notin reopened

\* Fills move amounts: up by one at most, and what they add is in slipped.
Drifts ==
    /\ \A d \in Calls : Weighs(d)' => Weighs(d)
    /\ \E k \in {0, 1}, c \in Calls \cup {None} :
          /\ slipped' = slipped + k
          /\ \A d \in Calls :
                Weighs(d)' => orders'[d].amount <= orders[d].amount + (IF d = c THEN k ELSE 0)

\* Beside the gate orders are not inserted, and come back only as reopened ones.
Outside ==
    /\ Drifts
    /\ \A d \in Calls :
          /\ orders[d].status = "absent" => orders'[d].status = "absent"
          /\ orders'[d].status = "open" /\ d \notin reopened' => orders[d].status = "open"
          /\ orders'[d].age = "fresh" => orders[d].age = "fresh"
    /\ reopened \subseteq reopened'
    /\ frozen' \subseteq frozen /\ (frozen' # {} /\ GlobalHalt \in breakers => GlobalHalt \in breakers')
    /\ UNCHANGED <<at, body, lock>>

LEMMA SameOrdersDrift == ASSUME TypeOK, UNCHANGED <<orders, drift>> PROVE Drifts
<1>1. slipped' = slipped + 0 /\ \A d \in Calls : orders[d].amount \in Nat
    BY DEF TypeOK, drift
<1>2. QED BY <1>1 DEF Drifts, Weighs, drift

LEMMA StepKinds ==
    ASSUME TypeOK, [Next]_vars
    PROVE  \/ \E c \in Calls : \/ Enters(c) \/ Locks(c) \/ Ends(c) \/ Inserts(c)
                               \/ \E step \in Gate : Advances(c, step)
           \/ Outside
<1>1. ASSUME NEW c \in Calls, Receive(c) PROVE Enters(c)
    BY <1>1 DEF Receive, Enters, GlobalHalt, drift, breakerVars
<1>2. ASSUME NEW c \in Calls, OracleFails(c) PROVE Ends(c)
    BY <1>2 DEF OracleFails, Refuse, Ends, drift, breakerVars
<1>3. ASSUME NEW c \in Calls, LockUser(c) PROVE Locks(c)
    BY <1>3 DEF LockUser, Locks, drift, breakerVars
<1>4. ASSUME NEW c \in Calls, Dedupe(c) PROVE Ends(c) \/ Advances(c, "deduped")
    BY <1>4 DEF Dedupe, Refuse, Proceed, Ends, Advances, Establishes, Gate, drift, breakerVars
<1>5. ASSUME NEW c \in Calls, CheckGlobal(c) PROVE Ends(c) \/ Advances(c, "globalClear")
    <2>1. ActiveTriggers("global") = {} => GlobalHalt \notin breakers
        BY DEF ActiveTriggers, GlobalHalt, Triggers
    <2>2. at[c] \in Gate
        BY <1>5 DEF CheckGlobal, Gate
    <2>3. CASE Refuse(c)
        BY <1>5, <2>2, <2>3 DEF CheckGlobal, Refuse, Ends, drift, breakerVars
    <2>4. CASE Proceed(c, "globalClear") /\ ActiveTriggers("global") = {}
        BY <1>5, <2>1, <2>4 DEF CheckGlobal, Proceed, Advances, Establishes, drift, breakerVars
    <2>5. QED BY <1>5, <2>3, <2>4 DEF CheckGlobal
<1>6. ASSUME NEW c \in Calls, CheckUser(c) PROVE Ends(c) \/ Advances(c, "clear")
    BY <1>6 DEF CheckUser, Refuse, Proceed, Ends, Advances, Establishes, Gate, drift, breakerVars
<1>7. ASSUME NEW c \in Calls, Judge(c) PROVE Ends(c) \/ Advances(c, "judged")
    <2>1. CASE Refuse(c)
        BY <1>7, <2>1 DEF Judge, Refuse, Ends, Gate, drift, breakerVars
    <2>2. CASE Proceed(c, "judged") /\ WithinCaps(body[c])
        BY <1>7, <2>2 DEF Judge, Proceed, Advances, Establishes, drift, breakerVars
    <2>3. QED BY <1>7, <2>1, <2>2 DEF Judge
<1>8. ASSUME NEW c \in Calls, Commit(c) PROVE Inserts(c)
    BY <1>8 DEF Commit, Inserts, drift, breakerVars
<1>9. ASSUME NEW c \in Calls, Settle(c) PROVE Outside
    <2>1. \A d \in Calls : d # c => orders'[d] = orders[d]
        BY <1>9 DEF Settle, TypeOK
    <2>2. orders[c].status = "open" /\ orders'[c].status # "open" /\ orders'[c].age = orders[c].age
        BY <1>9 DEF Settle, TypeOK
    <2>3. UNCHANGED <<at, body, lock, reopened, breakers, frozen>>
        BY <1>9 DEF Settle, breakerVars
    <2>4. \A d \in Calls : Weighs(d)' => Weighs(d)
        BY <2>1, <2>2, <2>3 DEF Weighs
    <2>5. \A d \in Calls : orders[d].amount \in Nat
        BY DEF TypeOK
    <2>6. CASE \E amount \in {a \in orders[c].amount - 1 .. orders[c].amount + 1 : a >= 0} :
                   /\ orders' = [orders EXCEPT ![c] = [status |-> "filled", age |-> @.age, amount |-> amount]]
                   /\ slipped' = IF amount > orders[c].amount THEN slipped + 1 ELSE slipped
        <3>1. PICK amount \in orders[c].amount - 1 .. orders[c].amount + 1 :
                   /\ orders' = [orders EXCEPT ![c] = [status |-> "filled", age |-> @.age, amount |-> amount]]
                   /\ slipped' = IF amount > orders[c].amount THEN slipped + 1 ELSE slipped
            BY <2>6
        <3>2. orders'[c].amount = amount /\ slipped \in Nat
            BY <3>1 DEF TypeOK
        <3>3. CASE amount > orders[c].amount
            <4>1. slipped' = slipped + 1 /\ orders'[c].amount <= orders[c].amount + 1
                BY <2>5, <3>1, <3>2, <3>3
            <4>2. Drifts
                BY <2>1, <2>4, <2>5, <4>1 DEF Drifts
            <4>3. QED BY <2>1, <2>2, <2>3, <4>2 DEF Outside
        <3>4. CASE ~(amount > orders[c].amount)
            <4>1. slipped' = slipped + 0 /\ orders'[c].amount <= orders[c].amount
                BY <2>5, <3>1, <3>2, <3>4
            <4>2. Drifts
                BY <2>1, <2>4, <2>5, <4>1 DEF Drifts
            <4>3. QED BY <2>1, <2>2, <2>3, <4>2 DEF Outside
        <3>5. QED BY <3>3, <3>4
    <2>7. CASE orders' = [orders EXCEPT ![c].status = "dead"] /\ UNCHANGED slipped
        <3>1. slipped' = slipped + 0 /\ orders'[c].amount = orders[c].amount
            BY <2>7 DEF TypeOK
        <3>2. Drifts
            BY <2>1, <2>4, <2>5, <3>1 DEF Drifts
        <3>3. QED BY <2>1, <2>2, <2>3, <3>2 DEF Outside
    <2>8. QED BY <1>9, <2>6, <2>7 DEF Settle
<1>10. ASSUME NEW c \in Calls, Reopen(c) PROVE Outside
    <2>1. \A d \in Calls : d # c => orders'[d] = orders[d]
        BY <1>10 DEF Reopen, TypeOK
    <2>2. /\ orders[c].status = "dead" /\ orders'[c].age = orders[c].age
          /\ reopened' = reopened \cup {c} /\ slipped' = slipped + 0
        BY <1>10 DEF Reopen, TypeOK
    <2>3. UNCHANGED <<at, body, lock, breakers, frozen>>
        BY <1>10 DEF Reopen, breakerVars
    <2>4. Drifts
        <3>1. \A d \in Calls : Weighs(d)' => d # c /\ Weighs(d)
            BY <2>1, <2>2 DEF Weighs
        <3>2. \A d \in Calls : orders[d].amount \in Nat
            BY DEF TypeOK
        <3>3. QED BY <2>1, <2>2, <3>1, <3>2 DEF Drifts
    <2>5. QED BY <2>1, <2>2, <2>3, <2>4 DEF Outside
<1>11. ASSUME NEW c \in Calls, Age(c) PROVE Outside
    <2>1. \A d \in Calls : d # c => orders'[d] = orders[d]
        BY <1>11 DEF Age, TypeOK
    <2>2. /\ orders'[c].status = orders[c].status /\ orders'[c].age # "fresh"
          /\ orders'[c].amount = orders[c].amount /\ orders[c].age # "old"
        BY <1>11 DEF Age, TypeOK
    <2>3. UNCHANGED <<at, body, lock, reopened, breakers, frozen>> /\ slipped' = slipped + 0
        BY <1>11 DEF Age, drift, breakerVars, TypeOK
    <2>4. Drifts
        <3>1. \A d \in Calls : Weighs(d)' => Weighs(d)
            BY <2>1, <2>2, <2>3 DEF Weighs
        <3>2. \A d \in Calls : orders'[d].amount = orders[d].amount /\ orders[d].amount \in Nat
            BY <2>1, <2>2 DEF TypeOK
        <3>3. QED BY <2>3, <3>1, <3>2 DEF Drifts
    <2>5. QED BY <2>1, <2>2, <2>3, <2>4 DEF Outside
<1>12. ASSUME NEW h \in Halts, HaltRecord(h) \/ HaltCommit(h) \/ HaltFind(h) PROVE Outside
    <2>1. UNCHANGED <<at, body, lock, orders, drift, frozen>> /\ breakers \subseteq breakers'
        BY <1>12 DEF HaltRecord, HaltCommit, HaltFind
    <2>2. QED BY <2>1, SameOrdersDrift DEF Outside, drift
<1>13. ASSUME ChangeRow PROVE Outside
    <2>1. UNCHANGED <<at, body, lock, orders, drift, breakers, frozen>>
        BY <1>13 DEF ChangeRow, breakerVars
    <2>2. QED BY <2>1, SameOrdersDrift DEF Outside, drift
<1>14. ASSUME Resume PROVE Outside
    <2>1. PICK scope \in Scopes :
              /\ breakers' = breakers \ {<<"manual", scope>>}
              /\ frozen' = IF scope = "global" THEN {} ELSE frozen
        BY <1>14 DEF Resume
    <2>2. UNCHANGED <<at, body, lock, orders, reopened>> /\ Drifts
        BY <1>14, SameOrdersDrift DEF Resume, drift
    <2>3. CASE scope = "global"
        BY <2>1, <2>2, <2>3 DEF Outside
    <2>4. CASE scope # "global"
        <3>1. <<"manual", scope>> # GlobalHalt
            BY <2>4 DEF GlobalHalt
        <3>2. QED BY <2>1, <2>2, <2>4, <3>1 DEF Outside
    <2>5. QED BY <2>3, <2>4
<1>15. ASSUME TripAutomated PROVE Outside
    <2>1. UNCHANGED <<at, body, lock, orders, drift, frozen>> /\ breakers \subseteq breakers'
        BY <1>15 DEF TripAutomated
    <2>2. QED BY <2>1, SameOrdersDrift DEF Outside, drift
<1>16. ASSUME UNCHANGED vars PROVE Outside
    <2>1. UNCHANGED <<at, body, lock, orders, drift, breakers, frozen>>
        BY <1>16 DEF vars, drift
    <2>2. QED BY <2>1, SameOrdersDrift DEF Outside, drift
<1>17. {"deduped", "globalClear", "clear", "judged"} \subseteq Gate
    BY DEF Gate
<1>18. QED
    BY <1>1, <1>2, <1>3, <1>4, <1>5, <1>6, <1>7, <1>8, <1>9, <1>10, <1>11, <1>12, <1>13,
       <1>14, <1>15, <1>16, <1>17 DEF Next, CallStep

----------------------------------------------------------------------------
(* The gate is a critical section.                                           *)

LockOwned == \A c \in Calls : at[c] \in Gate <=> lock = c
InsertedByCommit == \A c \in Calls : at[c] # "done" => orders[c].status = "absent"
Section == TypeOK /\ LockOwned /\ InsertedByCommit

LEMMA InitSection == Init => Section
<1>1. Init => LockOwned
    BY CallsAssumption DEF Init, LockOwned, Gate
<1>2. Init => InsertedByCommit
    BY DEF Init, InsertedByCommit, NoOrder
<1>3. QED BY <1>1, <1>2, InitType DEF Section

LEMMA StepSection == Section /\ [Next]_vars => Section'
<1> SUFFICES ASSUME Section, [Next]_vars PROVE Section'
    OBVIOUS
<1>1. TypeOK /\ TypeOK'
    BY StepType DEF Section
<1>2. ASSUME NEW c \in Calls, Enters(c) PROVE LockOwned' /\ InsertedByCommit'
    BY <1>1, <1>2 DEF Section, LockOwned, InsertedByCommit, Enters, TypeOK, Gate
<1>3. ASSUME NEW c \in Calls, Locks(c) PROVE LockOwned' /\ InsertedByCommit'
    BY <1>1, <1>3, CallsAssumption DEF Section, LockOwned, InsertedByCommit, Locks, TypeOK, Gate
<1>4. ASSUME NEW c \in Calls, Ends(c) PROVE LockOwned' /\ InsertedByCommit'
    BY <1>1, <1>4, CallsAssumption DEF Section, LockOwned, InsertedByCommit, Ends, TypeOK, Gate
<1>5. ASSUME NEW c \in Calls, Inserts(c) PROVE LockOwned' /\ InsertedByCommit'
    BY <1>1, <1>5, CallsAssumption DEF Section, LockOwned, InsertedByCommit, Inserts, TypeOK, Gate
<1>6. ASSUME NEW c \in Calls, NEW step \in Gate, Advances(c, step) PROVE LockOwned' /\ InsertedByCommit'
    <2>1. at[c] \in Gate /\ at[c] # "done" /\ step # "done"
        BY <1>6 DEF Advances, Establishes, Gate
    <2>2. QED BY <1>1, <1>6, <2>1 DEF Section, LockOwned, InsertedByCommit, Advances, TypeOK
<1>7. ASSUME Outside PROVE LockOwned' /\ InsertedByCommit'
    BY <1>7 DEF Section, LockOwned, InsertedByCommit, Outside
<1>8. LockOwned' /\ InsertedByCommit'
    BY <1>1, <1>2, <1>3, <1>4, <1>5, <1>6, <1>7, StepKinds
<1>9. QED BY <1>1, <1>8 DEF Section

----------------------------------------------------------------------------
(* Halts.                                                                    *)

\* A call received under a halt that still holds has not passed the breakers.
Held ==
    \A c \in frozen : GlobalHalt \in breakers
                      /\ at[c] \in {"received", "locked", "deduped", "refused"}

LEMMA StepHeld == Section /\ Held /\ [Next]_vars => Held'
<1> SUFFICES ASSUME Section, Held, [Next]_vars PROVE Held'
    OBVIOUS
<1>1. TypeOK
    BY DEF Section
<1>2. ASSUME NEW c \in Calls, Enters(c) PROVE Held'
    BY <1>1, <1>2 DEF Held, Enters, TypeOK
<1>3. ASSUME NEW c \in Calls, Locks(c) \/ Ends(c) \/ Inserts(c) PROVE Held'
    <2>1. UNCHANGED <<frozen, breakers>>
        BY <1>3 DEF Locks, Ends, Inserts
    <2>2. c \in frozen => ~Inserts(c)
        BY DEF Held, Inserts
    <2>3. QED BY <1>1, <1>3, <2>1, <2>2 DEF Held, Locks, Ends, TypeOK, Inserts
<1>4. ASSUME NEW c \in Calls, NEW step \in Gate, Advances(c, step) PROVE Held'
    <2>1. c \in frozen => step \in {"deduped"}
        BY <1>4 DEF Held, Advances, Establishes
    <2>2. QED BY <1>1, <1>4, <2>1 DEF Held, Advances, TypeOK
<1>5. ASSUME Outside PROVE Held'
    BY <1>5 DEF Held, Outside
<1>6. QED BY <1>1, <1>2, <1>3, <1>4, <1>5, StepKinds

\* A request that arrives under a global halt leaves no order unless the halt is
\* resumed, for any number of requests, admins and scopes (circuit_breaker.py).
THEOREM HaltAlwaysStops == Spec => []HaltStopsPrepares
<1>1. Init => Section /\ Held
    BY InitSection DEF Init, Held
<1>2. Section /\ Held /\ [Next]_vars => (Section /\ Held)'
    BY StepSection, StepHeld
<1>3. Section /\ Held => HaltStopsPrepares
    <2>1. SUFFICES ASSUME Section, Held, NEW c \in frozen PROVE orders[c].status = "absent"
        BY DEF HaltStopsPrepares
    <2>2. c \in Calls /\ at[c] # "done"
        BY <2>1 DEF Section, TypeOK, Held
    <2>3. QED BY <2>1, <2>2 DEF Section, InsertedByCommit
<1>4. QED BY <1>1, <1>2, <1>3, PTL DEF Spec

----------------------------------------------------------------------------
(* Closes.                                                                   *)

PerpsClose(b) == b.kind = "close" /\ b.venue = "perps"
InFlight(c) ==
    /\ c \notin reopened /\ PerpsClose(body[c])
    /\ orders[c].status = "open" /\ orders[c].age = "fresh"

\* A close is reduce-only and immediate; after its dedupe none of its asset is in
\* flight; and at most one is.
CloseShaped ==
    \A c \in Calls : PerpsClose(body[c]) => body[c].reduceOnly /\ ~body[c].conditional
CloseAlone ==
    \A c \in Calls : PerpsClose(body[c]) /\ at[c] \in PastDedupe =>
        \A d \in Calls : InFlight(d) => body[d].asset # body[c].asset
OneInFlight ==
    \A c, d \in Calls : InFlight(c) /\ InFlight(d) /\ body[c].asset = body[d].asset => c = d
Closing == CloseShaped /\ CloseAlone /\ OneInFlight

LEMMA StepClosing == Section /\ Closing /\ [Next]_vars => Closing'
<1> SUFFICES ASSUME Section, Closing, [Next]_vars PROVE Closing'
    OBVIOUS
<1>1. TypeOK
    BY DEF Section
<1>2. ASSUME NEW c \in Calls, Enters(c) PROVE Closing'
    <2>1. PICK b \in Bodies : body' = [body EXCEPT ![c] = b]
        BY <1>2 DEF Enters
    <2>2. orders[c].status = "absent" /\ at'[c] \notin PastDedupe
        BY <1>1, <1>2 DEF Section, InsertedByCommit, Enters, TypeOK, PastDedupe
    <2>3. \A d \in Calls : d # c => body'[d] = body[d] /\ at'[d] = at[d]
        BY <1>1, <1>2, <2>1 DEF Enters, TypeOK
    <2>4. \A d \in Calls : InFlight(d)' => d # c /\ InFlight(d)
        BY <1>2, <2>2, <2>3 DEF Enters, InFlight
    <2>5. CloseShaped'
        BY <1>1, <2>1, <2>3, BodiesAssumption DEF Closing, CloseShaped, TypeOK, PerpsClose, IsClose
    <2>6. CloseAlone' /\ OneInFlight'
        BY <2>2, <2>3, <2>4 DEF Closing, CloseAlone, OneInFlight
    <2>7. QED BY <2>5, <2>6 DEF Closing
<1>3. ASSUME NEW c \in Calls, Locks(c) PROVE Closing'
    <2>1. \A d \in Calls : at'[d] \in PastDedupe => at[d] \in PastDedupe
        BY <1>1, <1>3 DEF Locks, TypeOK, PastDedupe
    <2>2. UNCHANGED <<body, orders, reopened>>
        BY <1>3 DEF Locks
    <2>3. QED BY <2>1, <2>2 DEF Closing, CloseShaped, CloseAlone, OneInFlight, InFlight
<1>4. ASSUME NEW c \in Calls, Ends(c) PROVE Closing'
    <2>1. ~PerpsClose(Blank)
        BY DEF PerpsClose, Blank
    <2>2. orders[c].status = "absent" /\ body'[c] = Blank
        BY <1>1, <1>4 DEF Section, InsertedByCommit, Ends, TypeOK, Gate
    <2>3. \A d \in Calls : d # c => body'[d] = body[d] /\ at'[d] = at[d]
        BY <1>1, <1>4 DEF Ends, TypeOK
    <2>4. \A d \in Calls : InFlight(d)' => d # c /\ InFlight(d)
        BY <1>4, <2>2, <2>3 DEF Ends, InFlight
    <2>5. CloseShaped'
        BY <2>1, <2>2, <2>3 DEF Closing, CloseShaped
    <2>6. CloseAlone' /\ OneInFlight'
        BY <2>1, <2>2, <2>3, <2>4 DEF Closing, CloseAlone, OneInFlight
    <2>7. QED BY <2>5, <2>6 DEF Closing
<1>5. ASSUME NEW c \in Calls, Inserts(c) PROVE Closing'
    <2>1. at[c] \in PastDedupe /\ at[c] \in Gate /\ at'[c] \notin PastDedupe
        BY <1>1, <1>5 DEF Inserts, TypeOK, PastDedupe, Gate
    <2>2. \A d \in Calls : d # c => at'[d] \notin PastDedupe
        BY <1>1, <1>5, <2>1 DEF Section, LockOwned, Inserts, TypeOK, PastDedupe, Gate
    <2>3. UNCHANGED <<body, reopened>> /\ \A d \in Calls : d # c => orders'[d] = orders[d]
        BY <1>1, <1>5 DEF Inserts, TypeOK
    <2>4. \A d \in Calls : d # c /\ InFlight(d)' => InFlight(d)
        BY <2>3 DEF InFlight
    <2>5. \A d \in Calls : d # c /\ InFlight(d)' /\ PerpsClose(body[c]) => body[d].asset # body[c].asset
        BY <2>1, <2>4 DEF Closing, CloseAlone
    <2>6. InFlight(c)' => PerpsClose(body[c])
        BY <2>3 DEF InFlight
    <2>7. CloseShaped' /\ CloseAlone'
        BY <2>1, <2>2, <2>3 DEF Closing, CloseShaped, CloseAlone
    <2>8. OneInFlight'
        BY <2>3, <2>4, <2>5, <2>6 DEF Closing, OneInFlight
    <2>9. QED BY <2>7, <2>8 DEF Closing
<1>6. ASSUME NEW c \in Calls, NEW step \in Gate, Advances(c, step) PROVE Closing'
    <2>1. UNCHANGED <<body, orders, reopened>>
        BY <1>6 DEF Advances
    <2>2. \A d \in Calls : d # c => at'[d] = at[d]
        BY <1>1, <1>6 DEF Advances, TypeOK
    <2>3. \A d \in Calls : InFlight(d)' <=> InFlight(d)
        BY <2>1 DEF InFlight
    <2>4. CASE at[c] \in PastDedupe
        BY <2>1, <2>2, <2>3, <2>4 DEF Closing, CloseShaped, CloseAlone, OneInFlight
    <2>5. CASE at[c] \notin PastDedupe
        <3>1. PerpsClose(body[c]) => CloseInFlight(body[c]) = {}
            BY <1>6, <2>5 DEF Advances, Establishes, PastDedupe, PerpsClose
        <3>2. \A d \in Calls : InFlight(d) /\ body[d].asset = body[c].asset /\ PerpsClose(body[c])
                  => d \in CloseInFlight(body[c])
            BY DEF InFlight, CloseInFlight, Closing, CloseShaped, PerpsClose
        <3>3. QED BY <2>1, <2>2, <2>3, <3>1, <3>2
                  DEF Closing, CloseShaped, CloseAlone, OneInFlight
    <2>6. QED BY <2>4, <2>5
<1>7. ASSUME Outside PROVE Closing'
    <2>1. \A d \in Calls : InFlight(d)' => InFlight(d)
        BY <1>7 DEF Outside, InFlight
    <2>2. QED BY <1>7, <2>1 DEF Outside, Closing, CloseShaped, CloseAlone, OneInFlight
<1>8. QED BY <1>1, <1>2, <1>3, <1>4, <1>5, <1>6, <1>7, StepKinds

\* Of two closes of one perps position inside the dedupe window one at most is in
\* flight, for any number of overlapping requests (execution.py post_close_position).
THEOREM ClosesNeverDoubled == Spec => []ClosesNotDoubled
<1>1. Init => Section /\ Closing
    <2>1. Init => Closing
        BY DEF Init, Closing, CloseShaped, CloseAlone, OneInFlight, InFlight, NoOrder, PerpsClose,
               Blank, PastDedupe
    <2>2. QED BY <2>1, InitSection
<1>2. Section /\ Closing /\ [Next]_vars => (Section /\ Closing)'
    BY StepSection, StepClosing
<1>3. Closing => ClosesNotDoubled
    BY DEF Closing, OneInFlight, InFlight, ClosesNotDoubled, PerpsClose
<1>4. QED BY <1>1, <1>2, <1>3, PTL DEF Spec

----------------------------------------------------------------------------
(* The cap on open orders.                                                   *)

\* The orders that count against the cap and were judged by it.
Counting == {c \in Calls : orders[c].status = "open" /\ ~body[c].reduceOnly /\ c \notin reopened}

\* A call that is about to insert an order that opens something has room for it.
Room ==
    \A c \in Calls : at[c] = "judged" /\ ~body[c].reduceOnly => Cardinality(Counting) < OpenCap
Capped == Room /\ Cardinality(Counting) <= OpenCap

LEMMA CountingFinite == IsFiniteSet(Counting) /\ Cardinality(Counting) \in Nat
<1>1. Counting \subseteq Calls
    BY DEF Counting
<1>2. QED BY <1>1, CallsAssumption, FS_Subset, FS_CardinalityType

LEMMA CountingFiniteNext == IsFiniteSet(Counting') /\ Cardinality(Counting') \in Nat
<1>1. Counting' \subseteq Calls
    BY DEF Counting
<1>2. QED BY <1>1, CallsAssumption, FS_Subset, FS_CardinalityType

LEMMA FewerCount ==
    ASSUME Counting' \subseteq Counting
    PROVE  Cardinality(Counting') <= Cardinality(Counting)
BY CountingFinite, FS_Subset

LEMMA StepCapped == Section /\ Capped /\ [Next]_vars => Capped'
<1> SUFFICES ASSUME Section, Capped, [Next]_vars PROVE Capped'
    OBVIOUS
<1>1. TypeOK
    BY DEF Section
<1>2. /\ Cardinality(Counting) \in Nat /\ Cardinality(Counting') \in Nat
      /\ IsFiniteSet(Counting) /\ OpenCap \in Nat
    BY CountingFinite, CountingFiniteNext, CapsAssumption
<1>3. ASSUME Counting' \subseteq Counting,
             \A c \in Calls : at'[c] = "judged" /\ ~body'[c].reduceOnly =>
                                  at[c] = "judged" /\ ~body[c].reduceOnly
      PROVE  Capped'
    <2>1. Cardinality(Counting') <= Cardinality(Counting)
        BY <1>3, FewerCount
    <2>3. Room'
        <3>1. SUFFICES ASSUME NEW c \in Calls, at'[c] = "judged", ~body'[c].reduceOnly
                       PROVE  Cardinality(Counting') < OpenCap
            BY DEF Room
        <3>2. Cardinality(Counting) < OpenCap
            BY <1>3, <3>1 DEF Capped, Room
        <3>3. QED BY <1>2, <2>1, <3>2
    <2>4. QED BY <1>2, <2>1, <2>3 DEF Capped
<1>4. ASSUME NEW c \in Calls, Enters(c) \/ Locks(c) \/ Ends(c) PROVE Capped'
    <2>1. /\ orders[c].status = "absent" \/ UNCHANGED body
          /\ at'[c] # "judged"
        BY <1>1, <1>4 DEF Section, InsertedByCommit, Enters, Locks, Ends, TypeOK, Gate
    <2>2. /\ \A d \in Calls : d # c => body'[d] = body[d] /\ at'[d] = at[d]
          /\ UNCHANGED <<orders, reopened>>
        BY <1>1, <1>4 DEF Enters, Locks, Ends, TypeOK
    <2>3. Counting' \subseteq Counting
        BY <2>1, <2>2 DEF Counting
    <2>4. QED BY <1>3, <2>1, <2>2, <2>3
<1>5. ASSUME NEW c \in Calls, Inserts(c) PROVE Capped'
    <2>1. /\ at[c] = "judged" /\ UNCHANGED <<body, reopened>>
          /\ \A d \in Calls : d # c => orders'[d] = orders[d]
        BY <1>1, <1>5 DEF Inserts, TypeOK
    <2>2. \A d \in Calls : at'[d] # "judged"
        BY <1>1, <1>5 DEF Section, LockOwned, Inserts, TypeOK, Gate
    <2>3. Counting' \subseteq Counting \cup {c}
        BY <2>1 DEF Counting
    <2>4. Room'
        BY <2>2 DEF Room
    <2>5. CASE body[c].reduceOnly
        <3>1. Counting' \subseteq Counting
            BY <2>1, <2>5 DEF Counting
        <3>2. Cardinality(Counting') <= Cardinality(Counting)
            BY <3>1, FewerCount
        <3>3. QED BY <1>2, <2>4, <3>2 DEF Capped
    <2>6. CASE ~body[c].reduceOnly
        <3>1. Cardinality(Counting) < OpenCap
            BY <2>1, <2>6 DEF Capped, Room
        <3>2. /\ IsFiniteSet(Counting \cup {c})
              /\ Cardinality(Counting \cup {c}) <= Cardinality(Counting) + 1
            <4>1. /\ IsFiniteSet(Counting \cup {c})
                  /\ Cardinality(Counting \cup {c}) =
                        IF c \in Counting THEN Cardinality(Counting) ELSE Cardinality(Counting) + 1
                BY <1>2, FS_AddElement
            <4>2. QED BY <1>2, <4>1
        <3>3. Cardinality(Counting \cup {c}) \in Nat
            BY <3>2, FS_CardinalityType
        <3>4. Cardinality(Counting') <= Cardinality(Counting \cup {c})
            BY <2>3, <3>2, FS_Subset
        <3>5. Cardinality(Counting') <= OpenCap
            BY <1>2, <3>1, <3>2, <3>3, <3>4
        <3>6. QED BY <2>4, <3>5 DEF Capped
    <2>7. QED BY <2>5, <2>6
<1>6. ASSUME NEW c \in Calls, NEW step \in Gate, Advances(c, step) PROVE Capped'
    <2>1. UNCHANGED <<body, orders, reopened>>
        BY <1>6 DEF Advances
    <2>2. Counting' = Counting
        BY <2>1 DEF Counting
    <2>3. \A d \in Calls : d # c => at'[d] = at[d]
        BY <1>1, <1>6 DEF Advances, TypeOK
    <2>4. CASE step = "judged" /\ ~body[c].reduceOnly
        <3>1. Cardinality(OpenOrders) < OpenCap
            BY <1>6, <2>4 DEF Advances, Establishes, WithinCaps
        <3>2. Counting \subseteq OpenOrders /\ OpenOrders \subseteq Calls
            BY DEF Counting, OpenOrders
        <3>3. IsFiniteSet(OpenOrders) /\ Cardinality(OpenOrders) \in Nat
            BY <3>2, CallsAssumption, FS_Subset, FS_CardinalityType
        <3>4. Cardinality(Counting) <= Cardinality(OpenOrders)
            BY <3>2, <3>3, FS_Subset
        <3>5. Cardinality(Counting') < OpenCap
            BY <1>2, <2>2, <3>1, <3>3, <3>4
        <3>6. QED BY <1>2, <3>5 DEF Capped, Room
    <2>5. CASE ~(step = "judged" /\ ~body[c].reduceOnly)
        <3>1. at'[c] = step
            BY <1>1, <1>6 DEF Advances, TypeOK
        <3>2. QED BY <1>3, <2>1, <2>2, <2>3, <2>5, <3>1
    <2>6. QED BY <2>4, <2>5
<1>7. ASSUME Outside PROVE Capped'
    <2>1. Counting' \subseteq Counting
        BY <1>7 DEF Outside, Counting
    <2>2. QED BY <1>3, <1>7, <2>1 DEF Outside
<1>8. QED BY <1>1, <1>4, <1>5, <1>6, <1>7, StepKinds

\* Overlapping calls cannot take a user past the cap on open orders, for any cap
\* and any number of calls (risk.py check_order, _count_open_orders).
THEOREM OpenOrdersAlwaysCapped == Spec => []OpenOrdersCapped
<1>1. Init => Section /\ Capped
    <2>1. ASSUME Init PROVE Capped
        <3>1. Counting = {}
            BY <2>1 DEF Init, Counting, NoOrder
        <3>2. Cardinality(Counting) = 0
            BY <3>1, FS_EmptySet
        <3>3. Room
            BY <2>1 DEF Init, Room
        <3>4. QED BY <3>2, <3>3, CapsAssumption DEF Capped
    <2>2. QED BY <2>1, InitSection
<1>2. Section /\ Capped /\ [Next]_vars => (Section /\ Capped)'
    BY StepSection, StepCapped
<1>3. Capped => OpenOrdersCapped
    <2>1. Judged({"open"}) = Counting
        BY DEF Judged, Counting
    <2>2. QED BY <2>1 DEF Capped, OpenOrdersCapped
<1>4. QED BY <1>1, <1>2, <1>3, PTL DEF Spec

----------------------------------------------------------------------------
(* The caps on notional.                                                     *)

\* What the judged orders of an asset, or (None) of all, amount to.
Spending(asset) == {c \in Counted(asset) : ~body[c].reduceOnly /\ c \notin reopened}
Spent(asset) == SumFunctionOnSet(Amounts, Spending(asset))
Cap(asset) == IF asset = None THEN DailyCap ELSE SymbolCap
Sums == Assets \cup {None}

\* A call that is about to insert an order with a price has room for it.
NotionalRoom ==
    \A c \in Calls : at[c] = "judged" /\ ~body[c].reduceOnly /\ body[c].amount # 0 =>
        \A asset \in {None, body[c].asset} : Spent(asset) + body[c].amount <= Cap(asset) + slipped
Afforded == NotionalRoom /\ \A asset \in Sums : Spent(asset) <= Cap(asset) + slipped

LEMMA SpendingIs ==
    \A asset : Spending(asset) = {c \in Calls : /\ Weighs(c) /\ ~body[c].reduceOnly
                                               /\ asset \in {None, body[c].asset}}
BY DEF Spending, Counted, Weighs

LEMMA SpentType ==
    ASSUME TypeOK, NEW asset
    PROVE  /\ IsFiniteSet(Counted(asset)) /\ IsFiniteSet(Spending(asset))
           /\ Spending(asset) \subseteq Counted(asset) /\ Counted(asset) \subseteq Calls
           /\ \A c \in Calls : Amounts[c] = orders[c].amount /\ Amounts[c] \in Nat
           /\ Spent(asset) \in Nat /\ Notional(asset) \in Nat
           /\ Spent(asset) <= Notional(asset)
<1>1. Spending(asset) \subseteq Counted(asset) /\ Counted(asset) \subseteq Calls
    BY DEF Spending, Counted
<1>2. IsFiniteSet(Counted(asset)) /\ IsFiniteSet(Spending(asset))
    BY <1>1, CallsAssumption, FS_Subset
<1>3. \A c \in Calls : Amounts[c] = orders[c].amount /\ Amounts[c] \in Nat
    BY DEF Amounts, TypeOK
<1>4. Spent(asset) \in Nat /\ Notional(asset) \in Nat
    BY <1>1, <1>2, <1>3, SumType DEF Spent, Notional
<1>5. Spent(asset) <= Notional(asset)
    BY <1>1, <1>2, <1>3, SumSubset DEF Spent, Notional
<1>6. QED BY <1>1, <1>2, <1>3, <1>4, <1>5

\* The sums grow by no more than what slipped, when nothing is inserted.
LEMMA SpentShrinks ==
    ASSUME TypeOK, TypeOK', Drifts, NEW asset, Spending(asset)' \subseteq Spending(asset)
    PROVE  Spent(asset)' <= Spent(asset) + (slipped' - slipped)
<1>1. PICK k \in {0, 1}, c \in Calls \cup {None} :
          /\ slipped' = slipped + k
          /\ \A d \in Calls :
                Weighs(d)' => orders'[d].amount <= orders[d].amount + (IF d = c THEN k ELSE 0)
    BY DEF Drifts
<1>2. /\ \A d \in Calls : Amounts[d] = orders[d].amount /\ Amounts[d] \in Nat
      /\ \A d \in Calls : Amounts'[d] = orders'[d].amount /\ Amounts'[d] \in Nat
      /\ IsFiniteSet(Spending(asset)) /\ Spending(asset) \subseteq Calls
    BY SpentType DEF Amounts, TypeOK
<1>3. \A d \in Spending(asset)' : d \in Calls /\ Weighs(d)'
    BY SpendingIs DEF Spending, Counted, Weighs
<1>4. \A d \in Spending(asset)' :
          /\ Amounts'[d] \in Nat
          /\ Amounts'[d] <= (IF d = c THEN Amounts[d] + k ELSE Amounts[d])
    BY <1>1, <1>2, <1>3
<1>5. SumFunctionOnSet(Amounts', Spending(asset)') <= SumFunctionOnSet(Amounts, Spending(asset)) + k
    <2> DEFINE S == Spending(asset)  T == Spending(asset)'  f == Amounts  g == Amounts'
    <2>1. /\ IsFiniteSet(S) /\ T \in SUBSET S /\ k \in Nat
          /\ \A d \in S : f[d] \in Nat
          /\ \A d \in T : g[d] \in Nat /\ g[d] <= (IF d = c THEN f[d] + k ELSE f[d])
        BY <1>2, <1>4
    <2> HIDE DEF S, T, f, g
    <2>2. SumFunctionOnSet(g, T) <= SumFunctionOnSet(f, S) + k
        BY <2>1, SumShrinks
    <2>3. QED BY <2>2 DEF S, T, f, g
<1>6. slipped' - slipped = k
    BY <1>1 DEF TypeOK
<1>7. QED BY <1>5, <1>6 DEF Spent

LEMMA StepAfforded == Section /\ Afforded /\ [Next]_vars => Afforded'
<1> SUFFICES ASSUME Section, Afforded, [Next]_vars PROVE Afforded'
    OBVIOUS
<1>1. TypeOK /\ TypeOK' /\ slipped \in Nat /\ slipped' \in Nat
    BY StepType DEF Section, TypeOK
<1>2. /\ \A asset \in Sums : Cap(asset) \in Nat /\ Spent(asset) \in Nat /\ Spent(asset)' \in Nat
      /\ \A c \in Calls : {None, body[c].asset} \subseteq Sums /\ body[c].amount \in Nat
    <2>1. \A asset : Spent(asset) \in Nat
        BY <1>1, SpentType
    <2>2. \A asset : Spent(asset)' \in Nat
        <3>1. \A asset : Spending(asset)' \subseteq Calls
            BY DEF Spending, Counted
        <3>2. \A c \in Calls : Amounts'[c] \in Nat
            BY <1>1 DEF Amounts, TypeOK
        <3>3. QED BY <3>1, <3>2, CallsAssumption, FS_Subset, SumType DEF Spent
    <2>3. \A c \in Calls : {None, body[c].asset} \subseteq Sums /\ body[c].amount \in Nat
        BY <1>1 DEF TypeOK, Request, Sums
    <2>4. QED BY <2>1, <2>2, <2>3, CapsAssumption DEF Cap
\* Steps that judge and insert nothing.
<1>3. ASSUME Drifts,
             \A asset \in Sums : Spending(asset)' \subseteq Spending(asset),
             \A c \in Calls : at'[c] = "judged" =>
                                  at[c] = "judged" /\ body'[c] = body[c]
      PROVE  Afforded'
    <2>1. \A asset \in Sums : Spent(asset)' <= Spent(asset) + (slipped' - slipped)
        BY <1>1, <1>3, SpentShrinks
    <2>2. \A asset \in Sums : Spent(asset)' <= Cap(asset) + slipped'
        BY <1>1, <1>2, <2>1 DEF Afforded
    <2>3. ASSUME NEW c \in Calls, at'[c] = "judged", ~body'[c].reduceOnly, body'[c].amount # 0,
                 NEW asset \in {None, body'[c].asset}
          PROVE  Spent(asset)' + body'[c].amount <= Cap(asset) + slipped'
        <3>1. body'[c] = body[c] /\ asset \in Sums /\ body[c].amount \in Nat
            BY <1>2, <1>3, <2>3
        <3>2. Spent(asset) + body[c].amount <= Cap(asset) + slipped
            BY <1>3, <2>3, <3>1 DEF Afforded, NotionalRoom
        <3>3. QED BY <1>1, <1>2, <2>1, <3>1, <3>2
    <2>4. QED BY <2>2, <2>3 DEF Afforded, NotionalRoom, Cap
<1>4. ASSUME NEW c \in Calls, Enters(c) \/ Locks(c) \/ Ends(c) PROVE Afforded'
    <2>1. /\ orders[c].status = "absent" \/ UNCHANGED body
          /\ at'[c] # "judged"
        BY <1>1, <1>4 DEF Section, InsertedByCommit, Enters, Locks, Ends, TypeOK, Gate
    <2>2. /\ \A d \in Calls : d # c => body'[d] = body[d] /\ at'[d] = at[d]
          /\ UNCHANGED <<orders, drift>>
        BY <1>1, <1>4 DEF Enters, Locks, Ends, TypeOK, drift
    <2>3. \A asset \in Sums : Spending(asset)' \subseteq Spending(asset)
        BY <2>1, <2>2 DEF Spending, Counted, drift
    <2>4. Drifts
        BY <1>1, <2>2, SameOrdersDrift
    <2>5. QED BY <1>3, <2>1, <2>2, <2>3, <2>4
<1>5. ASSUME NEW c \in Calls, Inserts(c) PROVE Afforded'
    <2>1. /\ at[c] = "judged" /\ UNCHANGED <<body, reopened, slipped>>
          /\ orders'[c].amount = body[c].amount
          /\ \A d \in Calls : d # c => orders'[d] = orders[d]
        BY <1>1, <1>5 DEF Inserts, TypeOK
    <2>2. orders[c].status = "absent" /\ \A d \in Calls : at'[d] # "judged"
        BY <1>1, <1>5, <2>1 DEF Section, LockOwned, InsertedByCommit, Inserts, TypeOK, Gate
    <2>3. NotionalRoom'
        BY <2>2 DEF NotionalRoom
    <2>4. ASSUME NEW asset \in Sums PROVE Spent(asset)' <= Cap(asset) + slipped'
        <3> DEFINE S == Spending(asset)  a == body[c].amount
        <3>1. /\ S \subseteq Calls /\ IsFiniteSet(S) /\ c \notin S
              /\ \A d \in Calls : Amounts[d] \in Nat /\ Amounts'[d] \in Nat
              /\ \A d \in Calls \ {c} : Amounts'[d] = Amounts[d]
              /\ Amounts'[c] = a
            <4>1. c \notin S
                BY <2>2 DEF Spending, Counted
            <4>2. S \subseteq Calls /\ IsFiniteSet(S)
                BY <1>1, SpentType
            <4>3. QED BY <1>1, <2>1, <4>1, <4>2 DEF Amounts, TypeOK
        <3>2. SumFunctionOnSet(Amounts', S) = Spent(asset)
            <4>1. \A d \in S : Amounts[d] \in Int /\ Amounts'[d] = Amounts[d]
                BY <3>1
            <4>2. QED BY <3>1, <4>1, SumAgree DEF Spent
        <3>3. Spending(asset)' \subseteq S \cup {c}
            BY <2>1 DEF Spending, Counted
        <3>4. c \in Spending(asset)' => asset \in {None, body[c].asset} /\ ~body[c].reduceOnly
            BY <2>1 DEF Spending, Counted
        <3>5. S \subseteq Spending(asset)'
            BY <2>1, <3>1 DEF Spending, Counted
        <3>6. CASE c \notin Spending(asset)'
            <4>1. Spending(asset)' = S
                BY <3>3, <3>5, <3>6
            <4>2. SumFunctionOnSet(Amounts', Spending(asset)') = Spent(asset)
                BY <3>2, <4>1, Zenon
            <4>3. QED BY <2>1, <4>2 DEF Afforded, Spent, Cap
        <3>7. CASE c \in Spending(asset)'
            <4>1. Spending(asset)' = S \cup {c}
                BY <3>3, <3>5, <3>7
            <4>2. SumFunctionOnSet(Amounts', S \cup {c}) = SumFunctionOnSet(Amounts', S) + Amounts'[c]
                BY <3>1, CallsAssumption, SumAddElement
            <4>3. SumFunctionOnSet(Amounts', Spending(asset)') = SumFunctionOnSet(Amounts', S) + Amounts'[c]
                BY <4>1, <4>2, Zenon
            <4>4. Spent(asset) <= Cap(asset) + slipped
                BY DEF Afforded
            <4>5. a # 0 => Spent(asset) + a <= Cap(asset) + slipped
                BY <2>1, <3>4, <3>7 DEF Afforded, NotionalRoom
            <4>6. Spent(asset)' = Spent(asset) + a
                BY <3>1, <3>2, <4>3 DEF Spent
            <4>7. QED BY <1>1, <1>2, <2>1, <4>4, <4>5, <4>6 DEF Cap
        <3>8. QED BY <3>6, <3>7
    <2>5. QED BY <2>3, <2>4 DEF Afforded, Cap
<1>6. ASSUME NEW c \in Calls, NEW step \in Gate, Advances(c, step) PROVE Afforded'
    <2>1. UNCHANGED <<body, orders, drift>>
        BY <1>6 DEF Advances, drift
    <2>2. /\ \A asset \in Sums : Spending(asset)' = Spending(asset)
          /\ Amounts' = Amounts /\ slipped' = slipped
        BY <2>1 DEF Spending, Counted, drift, Amounts
    <2>3. \A asset \in Sums : Spent(asset)' = Spent(asset)
        BY <2>2, Zenon DEF Spent
    <2>4. /\ \A d \in Calls : d # c => at'[d] = at[d]
          /\ at'[c] = step
        BY <1>1, <1>6 DEF Advances, TypeOK
    <2>5. ASSUME step = "judged", ~body[c].reduceOnly, body[c].amount # 0,
                 NEW asset \in {None, body[c].asset}
          PROVE  Spent(asset) + body[c].amount <= Cap(asset) + slipped
        <3>1. Notional(None) + body[c].amount <= DailyCap
              /\ Notional(body[c].asset) + body[c].amount <= SymbolCap
            BY <1>6, <2>5 DEF Advances, Establishes, WithinCaps
        <3>2. /\ Spent(asset) <= Notional(asset) /\ Spent(asset) \in Nat /\ Notional(asset) \in Nat
              /\ body[c].amount \in Nat
            BY <1>1, <1>2, SpentType
        <3>3. body[c].asset # None
            BY <1>1 DEF TypeOK, Request, Assets, None
        <3>4. Notional(asset) + body[c].amount <= Cap(asset) /\ Cap(asset) \in Nat
            BY <3>1, <3>3, CapsAssumption DEF Cap
        <3>5. QED BY <1>1, <3>2, <3>4
    <2>6. NotionalRoom'
        BY <1>2, <2>1, <2>2, <2>3, <2>4, <2>5 DEF Afforded, NotionalRoom, Cap
    <2>7. QED BY <2>2, <2>3, <2>6 DEF Afforded, Cap
<1>7. ASSUME Outside PROVE Afforded'
    <2>1. Drifts /\ UNCHANGED <<at, body>>
        BY <1>7 DEF Outside
    <2>2. \A asset \in Sums : Spending(asset)' \subseteq Spending(asset)
        BY <2>1 DEF Drifts, Weighs, Spending, Counted
    <2>3. QED BY <1>3, <2>1, <2>2
<1>8. QED BY <1>1, <1>4, <1>5, <1>6, <1>7, StepKinds

\* Nor can overlapping calls take a user past the day's cap on notional, or an
\* asset's, except by what fills cost above the price that was asked; for any
\* caps, amounts and calls (risk.py check_order, _sum_notional).
THEOREM NotionalAlwaysCapped == Spec => []NotionalCapped
<1>1. Init => Section /\ Afforded
    <2>1. ASSUME Init PROVE Afforded
        <3>1. \A asset : Spending(asset) = {}
            BY <2>1 DEF Init, Spending, Counted, NoOrder
        <3>2. \A asset : Spent(asset) = 0
            BY <3>1, SumEmpty, Zenon DEF Spent
        <3>3. NotionalRoom
            BY <2>1 DEF Init, NotionalRoom
        <3>4. slipped = 0
            BY <2>1 DEF Init
        <3>5. QED BY <3>2, <3>3, <3>4, CapsAssumption DEF Afforded, Cap
    <2>2. QED BY <2>1, InitSection
<1>2. Section /\ Afforded /\ [Next]_vars => (Section /\ Afforded)'
    BY StepSection, StepAfforded
<1>3. Section /\ Afforded => NotionalCapped
    <2>1. SUFFICES ASSUME Section, Afforded PROVE NotionalCapped
        OBVIOUS
    <2>2. \A asset : Counted(asset) \cap Judged({"open", "filled"}) = Spending(asset)
        BY DEF Counted, Judged, Spending
    <2>3. \A asset : SumFunctionOnSet(Amounts, Counted(asset) \cap Judged({"open", "filled"}))
                         = Spent(asset)
        BY <2>2, Zenon DEF Spent
    <2>4. \A c \in Calls : body[c].asset \in Assets
        BY <2>1 DEF Section, TypeOK, Request
    <2>5. \A asset \in Assets : asset # None
        BY DEF Assets, None
    <2>6. Spent(None) <= DailyCap + slipped /\ \A asset \in Assets : Spent(asset) <= SymbolCap + slipped
        BY <2>1, <2>5 DEF Afforded, Sums, Cap
    <2>7. QED BY <2>3, <2>4, <2>6 DEF NotionalCapped
<1>4. QED BY <1>1, <1>2, <1>3, PTL DEF Spec

===========================================================================
