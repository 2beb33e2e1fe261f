------------------------ MODULE AccountBindingProofs -----------------------
(***************************************************************************)
(* AccountBinding for any number of users, wallets, Telegram identities,    *)
(* nonces and overlapping requests.                                         *)
(***************************************************************************)
EXTENDS AccountBinding, TLAPS

Request ==
    [step: Steps, kind: Kinds, wallet: MaybeWallet, nonce: Nonces \cup {None},
     tg: Telegrams \cup {None}, user: MaybeUser, copy: Row]

\* A Telegram sign-in has an identity.
TelegramsNamed ==
    \A r \in Requests : req[r].kind = "telegram" => req[r].tg \in Telegrams
Typed == TypeOK /\ TelegramsNamed

LEMMA Constants ==
    /\ NoRow \in Row /\ NewRow \in Row /\ NewRow.exists /\ NewRow.wallet = None
    /\ Idle \in Request
BY DEF NoRow, NewRow, Row, Idle, Request, Steps, Kinds, MaybeWallet, MaybeUser

LEMMA InitTyped == Init => Typed
<1>1. Init => TypeOK
    <2>1. SUFFICES ASSUME Init PROVE TypeOK
        OBVIOUS
    <2>2. users \in [UserIds -> Row] /\ req \in [Requests -> Request]
        BY <2>1, Constants DEF Init
    <2>3. /\ channel \in [Telegrams -> MaybeUser]
          /\ nonces \in [Nonces -> MaybeWallet] /\ spent \subseteq Nonces
          /\ unbinds \in 0 .. MaxUnbinds
        BY <2>1, BoundAssumption DEF Init, MaybeUser, MaybeWallet
    <2>4. QED BY <2>2, <2>3 DEF TypeOK, Request
<1>2. Init => TelegramsNamed
    BY DEF Init, TelegramsNamed, Idle, None
<1>3. QED BY <1>1, <1>2 DEF Typed


----------------------------------------------------------------------------
(* Two fields of a record at once.                                           *)

\* What is kept of a request whose step and user, or copy, change.
Keeps(p, q) ==
    p.kind = q.kind /\ p.nonce = q.nonce /\ p.tg = q.tg /\ p.wallet = q.wallet

GoneWithUser(q, step, user) == [q EXCEPT !.step = step, !.user = user]
GoneWithCopy(q, step, copy) == [q EXCEPT !.step = step, !.copy = copy]
RowWithKeys(x, account, key) == [x EXCEPT !.account = account, !.key = key]

LEMMA WithUser ==
    ASSUME NEW q \in Request, NEW step \in Steps, NEW user \in MaybeUser,
           NEW p, p = GoneWithUser(q, step, user)
    PROVE  p \in Request /\ p.step = step /\ p.user = user /\ Keeps(p, q)
<1>1. PICK m \in Request : m = [q EXCEPT !.step = step]
    BY DEF Request
<1>2. m.step = step /\ Keeps(m, q)
    BY <1>1 DEF Request, Keeps
<1>3. PICK n \in Request : n = [m EXCEPT !.user = user]
    BY DEF Request
<1>4. n.step = m.step /\ n.user = user /\ Keeps(n, m)
    BY <1>3 DEF Request, Keeps
<1>5. p = n
    BY <1>1, <1>3 DEF GoneWithUser
<1>6. QED BY <1>2, <1>4, <1>5 DEF Keeps

LEMMA WithCopy ==
    ASSUME NEW q \in Request, NEW step \in Steps, NEW copy \in Row,
           NEW p, p = GoneWithCopy(q, step, copy)
    PROVE  p \in Request /\ p.step = step /\ p.user = q.user /\ Keeps(p, q)
<1>1. PICK m \in Request : m = [q EXCEPT !.step = step]
    BY DEF Request
<1>2. m.step = step /\ m.user = q.user /\ Keeps(m, q)
    BY <1>1 DEF Request, Keeps
<1>3. PICK n \in Request : n = [m EXCEPT !.copy = copy]
    BY DEF Request
<1>4. n.step = m.step /\ n.user = m.user /\ Keeps(n, m)
    BY <1>3 DEF Request, Keeps
<1>5. p = n
    BY <1>1, <1>3 DEF GoneWithCopy
<1>6. QED BY <1>2, <1>4, <1>5 DEF Keeps

LEMMA WithKeys ==
    ASSUME NEW x \in Row, NEW account \in MaybeWallet, NEW key \in MaybeWallet,
           NEW y, y = RowWithKeys(x, account, key)
    PROVE  y \in Row /\ y.exists = x.exists /\ y.wallet = x.wallet
<1>1. PICK m \in Row : m = [x EXCEPT !.account = account]
    BY DEF Row
<1>2. m.exists = x.exists /\ m.wallet = x.wallet
    BY <1>1 DEF Row
<1>3. PICK z \in Row : z = [m EXCEPT !.key = key]
    BY DEF Row
<1>4. z.exists = m.exists /\ z.wallet = m.wallet
    BY <1>3 DEF Row
<1>5. y = z
    BY <1>1, <1>3 DEF RowWithKeys
<1>6. QED BY <1>2, <1>4, <1>5

----------------------------------------------------------------------------
(* The kinds of steps.                                                       *)

\* A request goes on: it keeps the nonce it has, or starts without one.
Moves(r) ==
    /\ req' \in [Requests -> Request]
    /\ \A q \in Requests \ {r} : req'[q] = req[q]
    /\ req[r].step \notin {"done", "refused"}
    /\ req'[r].nonce \in {req[r].nonce, None}
    /\ req'[r].kind = "telegram" => req'[r].tg \in Telegrams

\* No row comes, goes or changes its wallet.
RowsStay ==
    /\ users' \in [UserIds -> Row]
    /\ \A u \in UserIds : users'[u].exists = users[u].exists /\ users'[u].wallet = users[u].wallet

\* A request puts the wallet it proved, which nobody else holds, on a row and ends.
Claims(r, u) ==
    /\ Moves(r)
    /\ req[r].kind = "verify" /\ req[r].step # "done"
    /\ req'[r].kind = "verify" /\ req'[r].step = "done"
    /\ req'[r].user = u /\ req'[r].wallet = req[r].wallet
    /\ Holders(req[r].wallet) \subseteq {u}
    /\ users' \in [UserIds -> Row] /\ users'[u].wallet = req[r].wallet
    /\ \A v \in UserIds \ {u} : users'[v] = users[v]

\* A new user becomes that of a Telegram identity that had none.
Joins(r, u) ==
    /\ Moves(r) /\ u \notin Existing
    /\ users' \in [UserIds -> Row] /\ users'[u] = NewRow
    /\ \A v \in UserIds \ {u} : users'[v] = users[v]
    /\ channel' \in [Telegrams -> MaybeUser]
    /\ \E t \in Telegrams : channel'[t] = u
    /\ \A t \in Telegrams : channel'[t] # channel[t] => channel[t] = None

\* A nonce is taken from the cache by the request it lets in.
LetsIn(r, n) ==
    /\ req' \in [Requests -> Request]
    /\ \A q \in Requests \ {r} : req'[q] = req[q]
    /\ req[r].step = "idle" /\ req'[r].nonce = n /\ req'[r].kind # "telegram"
    /\ nonces[n] # None /\ nonces' = [nonces EXCEPT ![n] = None] /\ spent' = spent \cup {n}

Rest == <<channel, nonces, spent, unbinds>>
Cached == <<nonces, spent, unbinds>>

LEMMA VerifyMoves ==
    ASSUME Typed, NEW r \in Requests,
           LoadSession(r) \/ CheckBinding(r) \/ FindByWallet(r)
    PROVE  Moves(r) /\ UNCHANGED users /\ UNCHANGED Rest
<1>0. users \in [UserIds -> Row] /\ req \in [Requests -> Request]
    BY DEF Typed, TypeOK, Request
<1>1. CASE LoadSession(r)
    <2>1. /\ req[r].user \in UserIds /\ req[r].kind = "verify" /\ req[r].step = "proven"
          /\ req' = [req EXCEPT ![r].step = "loaded", ![r].copy = users[req[r].user]]
        BY <1>0, <1>1 DEF LoadSession, At, Request, MaybeUser
    <2>2. req'[r] = GoneWithCopy(req[r], "loaded", users[req[r].user])
        BY <1>0, <2>1 DEF GoneWithCopy
    <2>3. users[req[r].user] \in Row /\ "loaded" \in Steps /\ req[r] \in Request
        BY <1>0, <2>1 DEF Steps
    <2>4. req'[r] \in Request /\ Keeps(req'[r], req[r])
        BY <2>2, <2>3, WithCopy
    <2>5. QED BY <1>0, <1>1, <2>1, <2>4 DEF LoadSession, Moves, Keeps, Rest
<1>2. CASE CheckBinding(r)
    <2>1. PICK step \in {"done", "refused", "unclaimed"} : req' = [req EXCEPT ![r].step = step]
        BY <1>2 DEF CheckBinding, Go
    <2>2. req[r].kind = "verify" /\ req[r].step = "loaded"
        BY <1>2 DEF CheckBinding, At
    <2>3. req'[r] = [req[r] EXCEPT !.step = step] /\ req[r] \in Request
        BY <1>0, <2>1
    <2>4. req'[r] \in Request /\ Keeps(req'[r], req[r])
        BY <2>1, <2>3 DEF Request, Steps, Keeps
    <2>5. QED BY <1>0, <1>2, <2>1, <2>2, <2>4 DEF CheckBinding, Moves, Keeps, Rest
<1>3. CASE FindByWallet(r)
    <2>1. req[r].kind = "verify" /\ req[r].step = "proven" /\ req[r] \in Request
        BY <1>0, <1>3 DEF FindByWallet, At
    <2>2. CASE \E u \in Holders(req[r].wallet) :
                   req' = [req EXCEPT ![r].step = "done", ![r].user = u]
        <3>1. PICK u \in UserIds : req' = [req EXCEPT ![r].step = "done", ![r].user = u]
            BY <2>2 DEF Holders, Existing
        <3>2. req'[r] = GoneWithUser(req[r], "done", u)
            BY <1>0, <3>1 DEF GoneWithUser
        <3>3. u \in MaybeUser /\ "done" \in Steps
            BY DEF MaybeUser, Steps
        <3>4. req'[r] \in Request /\ Keeps(req'[r], req[r])
            BY <2>1, <3>2, <3>3, WithUser
        <3>5. QED BY <1>0, <1>3, <2>1, <3>1, <3>4 DEF FindByWallet, Moves, Keeps, Rest
    <2>3. CASE Go(r, "absent")
        <3>1. req'[r] = [req[r] EXCEPT !.step = "absent"]
            BY <1>0, <2>3 DEF Go
        <3>2. req'[r] \in Request /\ Keeps(req'[r], req[r])
            BY <2>1, <3>1 DEF Request, Steps, Keeps
        <3>3. QED BY <1>0, <1>3, <2>1, <2>3, <3>2 DEF FindByWallet, Go, Moves, Keeps, Rest
    <2>4. QED BY <1>3, <2>2, <2>3 DEF FindByWallet
<1>4. QED BY <1>1, <1>2, <1>3

LEMMA BindClaims ==
    ASSUME Typed, NEW r \in Requests, BindWallet(r)
    PROVE  /\ UNCHANGED Rest
           /\ \/ Moves(r) /\ RowsStay
              \/ \E u \in UserIds : Claims(r, u)
<1>0. users \in [UserIds -> Row] /\ req \in [Requests -> Request]
    BY DEF Typed, TypeOK, Request
<1>1. req[r].kind = "verify" /\ req[r].step = "unclaimed" /\ req[r] \in Request /\ UNCHANGED Rest
    BY <1>0 DEF BindWallet, At, Rest
<1>2. PICK step \in {"done", "refused"} : Go(r, step)
    BY DEF BindWallet
<1>3. req'[r] = [req[r] EXCEPT !.step = step]
    BY <1>0, <1>2 DEF Go
<1>4. req'[r] \in Request /\ Keeps(req'[r], req[r]) /\ req'[r].user = req[r].user
    BY <1>1, <1>3 DEF Request, Steps, Keeps
<1>5. Moves(r)
    BY <1>0, <1>1, <1>2, <1>4 DEF Go, Moves, Keeps
<1>6. CASE UNCHANGED users
    BY <1>0, <1>1, <1>5, <1>6 DEF RowsStay
<1>7. CASE /\ Holders(req[r].wallet) \ {req[r].user} = {} /\ Go(r, "done")
           /\ users' = [users EXCEPT ![req[r].user].wallet = req[r].wallet]
    <2>1. CASE req[r].user \in UserIds
        <3>1. users'[req[r].user] \in Row /\ users'[req[r].user].wallet = req[r].wallet
            BY <1>0, <1>1, <1>7, <2>1 DEF Request, Row
        <3>2. users' \in [UserIds -> Row] /\ \A v \in UserIds \ {req[r].user} : users'[v] = users[v]
            BY <1>0, <1>7, <2>1, <3>1
        <3>3. req'[r].step = "done"
            BY <1>0, <1>7 DEF Go, Request
        <3>4. Claims(r, req[r].user)
            BY <1>1, <1>4, <1>5, <1>7, <3>1, <3>2, <3>3 DEF Claims, Keeps
        <3>5. QED BY <1>1, <2>1, <3>4
    <2>2. CASE req[r].user \notin UserIds
        <3>1. users' = users
            BY <1>0, <1>7, <2>2
        <3>2. QED BY <1>0, <1>1, <1>5, <3>1 DEF RowsStay
    <2>3. QED BY <2>1, <2>2
<1>8. QED BY <1>6, <1>7 DEF BindWallet

LEMMA CreateClaims ==
    ASSUME Typed, NEW r \in Requests, CreateByWallet(r)
    PROVE  /\ UNCHANGED Rest
           /\ \/ Moves(r) /\ RowsStay
              \/ \E u \in UserIds : Claims(r, u)
<1>0. users \in [UserIds -> Row] /\ req \in [Requests -> Request]
    BY DEF Typed, TypeOK, Request
<1>1. req[r].kind = "verify" /\ req[r].step = "absent" /\ req[r] \in Request /\ UNCHANGED Rest
    BY <1>0 DEF CreateByWallet, At, Rest
<1>2. PICK u \in UserIds :
          /\ req' = [req EXCEPT ![r].step = "done", ![r].user = u]
          /\ \/ UNCHANGED users
             \/ /\ Holders(req[r].wallet) = {}
                /\ users' = [users EXCEPT ![u] = [NewRow EXCEPT !.wallet = req[r].wallet]]
    BY DEF CreateByWallet, Holders, Existing
<1>3. req'[r] = GoneWithUser(req[r], "done", u)
    BY <1>0, <1>2 DEF GoneWithUser
<1>4. u \in MaybeUser /\ "done" \in Steps
    BY DEF MaybeUser, Steps
<1>5. req'[r] \in Request /\ req'[r].step = "done" /\ req'[r].user = u /\ Keeps(req'[r], req[r])
    BY <1>1, <1>3, <1>4, WithUser
<1>6. Moves(r)
    BY <1>0, <1>1, <1>2, <1>5 DEF Moves, Keeps
<1>7. CASE UNCHANGED users
    BY <1>0, <1>1, <1>6, <1>7 DEF RowsStay
<1>8. CASE /\ Holders(req[r].wallet) = {}
           /\ users' = [users EXCEPT ![u] = [NewRow EXCEPT !.wallet = req[r].wallet]]
    <2>1. PICK x \in Row : x = [NewRow EXCEPT !.wallet = req[r].wallet] /\ x.wallet = req[r].wallet
        <3>1. PICK w \in MaybeWallet : w = req[r].wallet
            BY <1>1 DEF Request
        <3>2. PICK x : x = [NewRow EXCEPT !.wallet = w]
            OBVIOUS
        <3>3. x \in Row /\ x.wallet = w
            BY <3>2, Constants DEF Row
        <3>4. QED BY <3>1, <3>2, <3>3
    <2>2. users' \in [UserIds -> Row] /\ users'[u] = x /\ \A v \in UserIds \ {u} : users'[v] = users[v]
        BY <1>0, <1>8, <2>1
    <2>3. Claims(r, u)
        BY <1>1, <1>5, <1>6, <1>8, <2>1, <2>2 DEF Claims, Keeps
    <2>4. QED BY <1>1, <2>3
<1>9. QED BY <1>2, <1>7, <1>8

LEMMA FindByTelegramMoves ==
    ASSUME Typed, NEW r \in Requests, NEW t \in Telegrams, FindByTelegram(r, t)
    PROVE  Moves(r) /\ UNCHANGED users /\ UNCHANGED Rest
<1>0. req \in [Requests -> Request] /\ channel[t] \in MaybeUser
    BY DEF Typed, TypeOK, Request
<1>a. PICK step \in {"done", "absent"} : step = IF channel[t] # None THEN "done" ELSE "absent"
    OBVIOUS
<1>b. req' = [req EXCEPT ![r] = [Idle EXCEPT !.kind = "telegram", !.tg = t,
                    !.step = IF channel[t] # None THEN "done" ELSE "absent",
                    !.user = channel[t]]]
    BY DEF FindByTelegram
<1>1. req'[r] = [step |-> step, kind |-> "telegram", wallet |-> None, nonce |-> None,
                 tg |-> t, user |-> channel[t], copy |-> NoRow]
    BY <1>0, <1>a, <1>b DEF Idle
<1>2. req'[r] \in Request /\ req'[r].nonce = None /\ req'[r].tg = t
    BY <1>0, <1>1, Constants DEF Request, Steps, Kinds, MaybeWallet
<1>3. QED BY <1>0, <1>b, <1>2 DEF FindByTelegram, Moves, Rest

LEMMA LoadForKeyMoves ==
    ASSUME Typed, NEW r \in Requests, NEW u \in UserIds, LoadForKey(r, u)
    PROVE  Moves(r) /\ UNCHANGED users /\ UNCHANGED Rest
<1>0. req \in [Requests -> Request] /\ users[u] \in Row /\ users[u].wallet \in MaybeWallet
    BY DEF Typed, TypeOK, Request, Row
<1>a. req' = [req EXCEPT ![r] = [Idle EXCEPT !.kind = "apikey", !.step = "loaded",
                    !.user = u, !.copy = users[u], !.wallet = users[u].wallet]]
    BY DEF LoadForKey
<1>1. req'[r] = [step |-> "loaded", kind |-> "apikey", wallet |-> users[u].wallet,
                 nonce |-> None, tg |-> None, user |-> u, copy |-> users[u]]
    BY <1>0, <1>a DEF Idle
<1>2. req'[r] \in Request /\ req'[r].nonce = None /\ req'[r].kind # "telegram"
    BY <1>0, <1>1 DEF Request, Steps, Kinds, MaybeUser
<1>3. QED BY <1>0, <1>a, <1>2 DEF LoadForKey, Moves, Rest

LEMMA SetApiKeyMoves ==
    ASSUME Typed, NEW r \in Requests, SetApiKey(r)
    PROVE  Moves(r) /\ RowsStay /\ UNCHANGED Rest
<1>0. users \in [UserIds -> Row] /\ req \in [Requests -> Request]
    BY DEF Typed, TypeOK, Request
<1>1. /\ req[r].kind = "apikey" /\ req[r].step = "loaded" /\ req[r] \in Request
      /\ req' = [req EXCEPT ![r].step = "done"] /\ UNCHANGED Rest
    BY <1>0 DEF SetApiKey, At, Go, Rest
<1>2. req'[r] \in Request /\ Keeps(req'[r], req[r])
    BY <1>1 DEF Request, Steps, Keeps
<1>3. Moves(r)
    BY <1>0, <1>1, <1>2 DEF Moves, Keeps
<1>4. CASE req[r].user \in UserIds
    <2> DEFINE x == users[req[r].user]
               account == IF req[r].copy.account = req[r].wallet THEN x.account ELSE req[r].wallet
               key == IF req[r].copy.key = req[r].wallet THEN x.key ELSE req[r].wallet
    <2>1. x \in Row /\ account \in MaybeWallet /\ key \in MaybeWallet
        BY <1>0, <1>1, <1>4 DEF Row, Request
    <2>2. /\ users' \in [UserIds -> {users[u] : u \in UserIds} \cup {users'[req[r].user]}]
          /\ \A u \in UserIds \ {req[r].user} : users'[u] = users[u]
        BY <1>0, <1>4 DEF SetApiKey
    <2>a. users'[req[r].user] = RowWithKeys(x, account, key)
        BY <1>0, <1>4 DEF SetApiKey, RowWithKeys
    <2>3. PICK y : y = RowWithKeys(x, account, key)
        OBVIOUS
    <2>4. y \in Row /\ y.exists = x.exists /\ y.wallet = x.wallet
        BY <2>1, <2>3, WithKeys
    <2>5. RowsStay
        BY <1>0, <1>4, <2>2, <2>a, <2>3, <2>4 DEF RowsStay
    <2>6. QED BY <1>1, <1>3, <2>5
<1>5. CASE req[r].user \notin UserIds
    <2>1. users' = users
        BY <1>0, <1>5 DEF SetApiKey
    <2>2. QED BY <1>0, <1>1, <1>3, <2>1 DEF RowsStay
<1>6. QED BY <1>4, <1>5

LEMMA CreateByTelegramJoins ==
    ASSUME Typed, NEW r \in Requests, CreateByTelegram(r)
    PROVE  /\ UNCHANGED Cached
           /\ \/ Moves(r) /\ UNCHANGED <<users, channel>>
              \/ \E u \in UserIds : Joins(r, u)
<1>0. /\ users \in [UserIds -> Row] /\ req \in [Requests -> Request]
      /\ channel \in [Telegrams -> MaybeUser]
    BY DEF Typed, TypeOK, Request
<1>1. /\ req[r].step = "absent" /\ req[r].kind = "telegram" /\ req[r] \in Request
      /\ req[r].tg \in Telegrams /\ UNCHANGED Cached
    BY <1>0 DEF CreateByTelegram, At, Typed, TelegramsNamed, Cached
<1>2. ASSUME NEW u \in MaybeUser, req' = [req EXCEPT ![r].step = "done", ![r].user = u]
      PROVE  Moves(r)
    <2>1. req'[r] = GoneWithUser(req[r], "done", u)
        BY <1>0, <1>2 DEF GoneWithUser
    <2>2. "done" \in Steps
        BY DEF Steps
    <2>3. req'[r] \in Request /\ Keeps(req'[r], req[r])
        BY <1>1, <2>1, <2>2, WithUser
    <2>4. QED BY <1>0, <1>1, <1>2, <2>3 DEF Moves, Keeps
<1>3. CASE channel[req[r].tg] # None
    <2>1. channel[req[r].tg] \in MaybeUser
        BY <1>0, <1>1
    <2>2. /\ req' = [req EXCEPT ![r].step = "done", ![r].user = channel[req[r].tg]]
          /\ UNCHANGED <<users, channel>>
        BY <1>3 DEF CreateByTelegram
    <2>3. QED BY <1>1, <1>2, <2>1, <2>2
<1>4. CASE channel[req[r].tg] = None
    <2>1. PICK u \in UserIds \ Existing :
              /\ users' = [users EXCEPT ![u] = NewRow]
              /\ channel' = [channel EXCEPT ![req[r].tg] = u]
              /\ req' = [req EXCEPT ![r].step = "done", ![r].user = u]
        BY <1>4 DEF CreateByTelegram
    <2>2. u \in MaybeUser
        BY DEF MaybeUser
    <2>3. Moves(r)
        BY <1>2, <2>1, <2>2
    <2>4. /\ users' \in [UserIds -> Row] /\ users'[u] = NewRow
          /\ \A v \in UserIds \ {u} : users'[v] = users[v]
        BY <1>0, <2>1, Constants
    <2>5. /\ channel' \in [Telegrams -> MaybeUser] /\ channel'[req[r].tg] = u
          /\ \A t \in Telegrams : channel'[t] # channel[t] => channel[t] = None
        BY <1>0, <1>1, <1>4, <2>1, <2>2
    <2>6. Joins(r, u)
        BY <1>1, <2>1, <2>3, <2>4, <2>5 DEF Joins
    <2>7. QED BY <1>1, <2>6
<1>5. QED BY <1>3, <1>4

LEMMA ConsumeLetsIn ==
    ASSUME Typed, NEW r \in Requests, NEW n \in Nonces, Consume(r, n)
    PROVE  LetsIn(r, n) /\ UNCHANGED <<users, channel, unbinds>>
<1>0. req \in [Requests -> Request] /\ nonces[n] \in MaybeWallet
    BY DEF Typed, TypeOK, Request
<1>1. PICK session \in Existing \cup {None} :
          req' = [req EXCEPT ![r] = [Idle EXCEPT !.step = "proven", !.kind = "verify",
                    !.wallet = nonces[n], !.nonce = n, !.user = session]]
    BY DEF Consume, Proves
<1>2. req'[r] = [step |-> "proven", kind |-> "verify", wallet |-> nonces[n], nonce |-> n,
                 tg |-> None, user |-> session, copy |-> NoRow]
    BY <1>0, <1>1 DEF Idle
<1>3. session \in MaybeUser
    BY DEF Existing, MaybeUser
<1>4. req'[r] \in Request /\ req'[r].kind # "telegram" /\ req'[r].nonce = n
    BY <1>0, <1>2, <1>3, Constants DEF Request, Steps, Kinds
<1>5. QED BY <1>0, <1>1, <1>4 DEF Consume, Proves, LetsIn

\* A step moves one request, lets one in, or concerns the cache or one row only.
CacheStep ==
    /\ UNCHANGED <<users, channel, req, unbinds>>
    /\ \/ \E n \in Nonces, w \in Wallets :
             n \notin spent /\ nonces' = [nonces EXCEPT ![n] = w] /\ UNCHANGED spent
       \/ \E n \in Nonces : nonces' = [nonces EXCEPT ![n] = None] /\ spent' = spent \cup {n}
Clears(u) ==
    /\ users[u].exists /\ users' = [users EXCEPT ![u] = NewRow]
    /\ UNCHANGED <<channel, nonces, spent, req>> /\ unbinds' \in 0 .. MaxUnbinds

LEMMA StepKinds ==
    ASSUME Typed, [Next]_vars
    PROVE  \/ \E r \in Requests :
                 \/ Moves(r) /\ RowsStay /\ UNCHANGED Rest
                 \/ \E u \in UserIds : Claims(r, u) /\ UNCHANGED Rest
                 \/ \E u \in UserIds : Joins(r, u) /\ UNCHANGED Cached
                 \/ \E n \in Nonces : LetsIn(r, n) /\ UNCHANGED <<users, channel, unbinds>>
           \/ CacheStep
           \/ \E u \in UserIds : Clears(u)
           \/ UNCHANGED vars
<1>0. users \in [UserIds -> Row]
    BY DEF Typed, TypeOK
<1>1. UNCHANGED users => RowsStay
    BY <1>0 DEF RowsStay
<1>2. ASSUME NEW r \in Requests, LoadSession(r) \/ CheckBinding(r) \/ FindByWallet(r)
      PROVE  Moves(r) /\ RowsStay /\ UNCHANGED Rest
    BY <1>1, <1>2, VerifyMoves
<1>3. ASSUME NEW r \in Requests, NEW t \in Telegrams, FindByTelegram(r, t)
      PROVE  Moves(r) /\ RowsStay /\ UNCHANGED Rest
    BY <1>1, <1>3, FindByTelegramMoves
<1>4. ASSUME NEW r \in Requests, NEW u \in UserIds, LoadForKey(r, u)
      PROVE  Moves(r) /\ RowsStay /\ UNCHANGED Rest
    BY <1>1, <1>4, LoadForKeyMoves
<1>5. ASSUME NEW r \in Requests, CreateByTelegram(r)
      PROVE  \/ Moves(r) /\ RowsStay /\ UNCHANGED Rest
             \/ \E u \in UserIds : Joins(r, u) /\ UNCHANGED Cached
    BY <1>1, <1>5, CreateByTelegramJoins DEF Rest, Cached
<1>6. ASSUME NEW n \in Nonces, NEW w \in Wallets, IssueNonce(n, w) PROVE CacheStep
    BY <1>6 DEF IssueNonce, CacheStep
<1>7. ASSUME NEW n \in Nonces, ForgetNonce(n) PROVE CacheStep
    BY <1>7 DEF ForgetNonce, CacheStep
<1>8. ASSUME NEW u \in UserIds, Unbind(u) PROVE Clears(u)
    <2>1. unbinds' \in 0 .. MaxUnbinds
        BY <1>8, BoundAssumption DEF Unbind, Typed, TypeOK
    <2>2. QED BY <1>8, <2>1 DEF Unbind, Clears
<1>9. QED
    BY <1>2, <1>3, <1>4, <1>5, <1>6, <1>7, <1>8, BindClaims, CreateClaims, SetApiKeyMoves,
       ConsumeLetsIn DEF Next

----------------------------------------------------------------------------
(* The invariant.                                                            *)

LEMMA StepTyped ==
    ASSUME Typed, [Next]_vars
    PROVE  Typed'
<1>0. /\ users \in [UserIds -> Row] /\ req \in [Requests -> Request]
      /\ channel \in [Telegrams -> MaybeUser] /\ nonces \in [Nonces -> MaybeWallet]
      /\ spent \subseteq Nonces /\ unbinds \in 0 .. MaxUnbinds /\ TelegramsNamed
    BY DEF Typed, TypeOK, Request
<1>1. SUFFICES /\ users' \in [UserIds -> Row] /\ req' \in [Requests -> Request]
               /\ channel' \in [Telegrams -> MaybeUser] /\ nonces' \in [Nonces -> MaybeWallet]
               /\ spent' \subseteq Nonces /\ unbinds' \in 0 .. MaxUnbinds /\ TelegramsNamed'
    BY DEF Typed, TypeOK, Request
<1>2. ASSUME NEW r \in Requests, Moves(r)
      PROVE  req' \in [Requests -> Request] /\ TelegramsNamed'
    BY <1>0, <1>2 DEF Moves, TelegramsNamed
<1>3. CASE \E r \in Requests : Moves(r) /\ RowsStay /\ UNCHANGED Rest
    BY <1>0, <1>2, <1>3 DEF RowsStay, Rest
<1>4. CASE \E r \in Requests, u \in UserIds : Claims(r, u) /\ UNCHANGED Rest
    BY <1>0, <1>2, <1>4 DEF Claims, Rest
<1>5. CASE \E r \in Requests, u \in UserIds : Joins(r, u) /\ UNCHANGED Cached
    BY <1>0, <1>2, <1>5 DEF Joins, Cached
<1>6. CASE \E r \in Requests, n \in Nonces : LetsIn(r, n) /\ UNCHANGED <<users, channel, unbinds>>
    BY <1>0, <1>6 DEF LetsIn, TelegramsNamed, MaybeWallet
<1>7. CASE CacheStep
    BY <1>0, <1>7 DEF CacheStep, TelegramsNamed, MaybeWallet
<1>8. CASE \E u \in UserIds : Clears(u)
    BY <1>0, <1>8, Constants DEF Clears, TelegramsNamed
<1>9. CASE UNCHANGED vars
    BY <1>0, <1>9 DEF vars, TelegramsNamed
<1>10. QED BY <1>3, <1>4, <1>5, <1>6, <1>7, <1>8, <1>9, StepKinds

\* A nonce that let a request in has left the cache for good.
NoncesLeave ==
    /\ \A r \in Requests : req[r].nonce # None => req[r].nonce \in spent
    /\ \A n \in spent : nonces[n] = None

IInv == Typed /\ WalletsDistinct /\ NoncesLeave /\ NoncesOneShot /\ NoOrphanUsers

LEMMA InitIInv == Init => IInv
<1>1. SUFFICES ASSUME Init PROVE IInv
    OBVIOUS
<1>2. Typed
    BY <1>1, InitTyped
<1>3. Existing = {}
    BY <1>1 DEF Init, Existing, NoRow
<1>4. \A r \in Requests : req[r].nonce = None
    BY <1>1 DEF Init, Idle
<1>5. QED
    BY <1>1, <1>2, <1>3, <1>4 DEF Init, IInv, WalletsDistinct, NoncesLeave, NoncesOneShot, NoOrphanUsers

\* No row comes or changes its wallet, except row u.
OnlyRow(u) ==
    \A v \in UserIds \ {u} :
        users'[v].exists = users[v].exists /\ users'[v].wallet = users[v].wallet

LEMMA WalletsStayDistinct ==
    ASSUME IInv, [Next]_vars
    PROVE  WalletsDistinct'
<1>0. /\ WalletsDistinct /\ users \in [UserIds -> Row]
      /\ Existing \subseteq UserIds /\ Existing' \subseteq UserIds
    BY DEF IInv, Typed, TypeOK, Existing
<1>1. CASE RowsStay
    BY <1>0, <1>1 DEF RowsStay, WalletsDistinct, Existing
<1>2. ASSUME NEW r \in Requests, NEW u \in UserIds, Claims(r, u) PROVE WalletsDistinct'
    <2>1. \A v \in UserIds \ {u} : users'[v] = users[v]
        BY <1>2 DEF Claims
    <2>2. users'[u].wallet = req[r].wallet /\ Holders(req[r].wallet) \subseteq {u}
        BY <1>2 DEF Claims
    <2>3. QED BY <1>0, <2>1, <2>2 DEF Holders, Existing, WalletsDistinct
<1>3. ASSUME NEW u \in UserIds, users'[u] = NewRow, \A v \in UserIds \ {u} : users'[v] = users[v]
      PROVE  WalletsDistinct'
    <2>1. users'[u].wallet = None
        BY <1>3, Constants
    <2>2. QED BY <1>0, <1>3, <2>1 DEF Existing, WalletsDistinct
<1>4. CASE \E r \in Requests, u \in UserIds : Joins(r, u)
    BY <1>3, <1>4 DEF Joins
<1>5. CASE \E u \in UserIds : Clears(u)
    BY <1>0, <1>3, <1>5 DEF Clears
<1>6. UNCHANGED users => RowsStay
    BY <1>0 DEF RowsStay
<1>7. QED
    BY <1>1, <1>2, <1>4, <1>5, <1>6, StepKinds DEF IInv, CacheStep, vars

LEMMA NoncesStayOneShot ==
    ASSUME IInv, [Next]_vars
    PROVE  NoncesLeave' /\ NoncesOneShot'
<1>0. /\ NoncesLeave /\ NoncesOneShot /\ req \in [Requests -> Request]
      /\ nonces \in [Nonces -> MaybeWallet] /\ spent \subseteq Nonces
    BY DEF IInv, Typed, TypeOK, Request
<1>1. ASSUME NEW r \in Requests, Moves(r), UNCHANGED Cached
      PROVE  NoncesLeave' /\ NoncesOneShot'
    <2>1. \A q \in Requests : req'[q].nonce \in {req[q].nonce, None}
        BY <1>1 DEF Moves
    <2>2. QED BY <1>0, <1>1, <2>1 DEF Cached, NoncesLeave, NoncesOneShot
<1>2. ASSUME NEW r \in Requests, NEW n \in Nonces, LetsIn(r, n)
      PROVE  NoncesLeave' /\ NoncesOneShot'
    <2>1. /\ req'[r].nonce = n /\ \A q \in Requests \ {r} : req'[q] = req[q]
          /\ spent' = spent \cup {n}
          /\ nonces[n] # None /\ nonces' = [nonces EXCEPT ![n] = None]
        BY <1>2 DEF LetsIn
    <2>2. n \notin spent
        BY <1>0, <2>1 DEF NoncesLeave
    <2>3. NoncesLeave'
        BY <1>0, <2>1 DEF NoncesLeave
    <2>4. \A q \in Requests \ {r} : req[q].nonce # n
        BY <1>0, <2>2, NoneAssumption DEF NoncesLeave
    <2>5. NoncesOneShot'
        BY <1>0, <2>1, <2>4 DEF NoncesOneShot
    <2>6. QED BY <2>3, <2>5
<1>3. CASE CacheStep
    BY <1>0, <1>3 DEF CacheStep, NoncesLeave, NoncesOneShot
<1>4. CASE UNCHANGED <<nonces, spent, req>>
    BY <1>0, <1>4 DEF NoncesLeave, NoncesOneShot
<1>5. UNCHANGED Rest => UNCHANGED Cached
    BY DEF Rest, Cached
<1>6. QED
    BY <1>1, <1>2, <1>3, <1>4, <1>5, StepKinds DEF IInv, Claims, Joins, Clears, vars

LEMMA UsersStayReachable ==
    ASSUME IInv, [Next]_vars
    PROVE  NoOrphanUsers'
<1>0. /\ NoOrphanUsers /\ Existing \subseteq UserIds /\ Existing' \subseteq UserIds
      /\ channel \in [Telegrams -> MaybeUser]
    BY DEF IInv, Typed, TypeOK, Existing
<1> DEFINE Served(u) == \E r \in Requests : At(r, "verify", "done") /\ req[r].user = u
           Linked(u) == \E t \in Telegrams : channel[t] = u
<1>1. \A u \in Existing : Linked(u) \/ Served(u)
    BY <1>0 DEF NoOrphanUsers
<1>2. SUFFICES \A u \in Existing' : Linked(u)' \/ Served(u)'
    BY DEF NoOrphanUsers
<1>3. ASSUME NEW r \in Requests, req[r].step # "done", \A q \in Requests \ {r} : req'[q] = req[q]
      PROVE  \A u \in UserIds : Served(u) => Served(u)'
    BY <1>3 DEF At
<1>4. UNCHANGED channel => \A u \in UserIds : Linked(u) => Linked(u)'
    OBVIOUS
<1>5. UNCHANGED req => \A u \in UserIds : Served(u) => Served(u)'
    BY DEF At
<1>6. ASSUME NEW r \in Requests, Moves(r) PROVE \A u \in UserIds : Served(u) => Served(u)'
    BY <1>3, <1>6 DEF Moves
<1>7. CASE \E r \in Requests : Moves(r) /\ RowsStay /\ UNCHANGED channel
    <2>1. Existing' = Existing
        BY <1>7 DEF RowsStay, Existing
    <2>2. QED BY <1>0, <1>1, <1>4, <1>6, <1>7, <2>1
<1>8. ASSUME NEW r \in Requests, NEW u \in UserIds, Claims(r, u), UNCHANGED channel
      PROVE  \A v \in Existing' : Linked(v)' \/ Served(v)'
    <2>1. Moves(r) /\ \A v \in UserIds \ {u} : users'[v] = users[v]
        BY <1>8 DEF Claims
    <2>2. Served(u)'
        BY <1>8 DEF Claims, At
    <2>3. \A v \in Existing' \ {u} : v \in Existing
        BY <1>0, <2>1 DEF Existing
    <2>4. QED BY <1>0, <1>1, <1>4, <1>6, <1>8, <2>1, <2>2, <2>3
<1>9. ASSUME NEW r \in Requests, NEW u \in UserIds, Joins(r, u)
      PROVE  \A v \in Existing' : Linked(v)' \/ Served(v)'
    <2>1. Moves(r) /\ Linked(u)' /\ \A v \in UserIds \ {u} : users'[v] = users[v]
        BY <1>9 DEF Joins
    <2>2. \A v \in Existing' \ {u} : v \in Existing
        BY <1>0, <2>1 DEF Existing
    <2>3. \A v \in UserIds : Linked(v) => Linked(v)'
        BY <1>9, NoneAssumption DEF Joins
    <2>4. QED BY <1>0, <1>1, <1>6, <2>1, <2>2, <2>3
<1>10. CASE \E r \in Requests, n \in Nonces : LetsIn(r, n) /\ UNCHANGED <<users, channel, unbinds>>
    <2>1. Existing' = Existing
        BY <1>10 DEF Existing
    <2>2. \A u \in UserIds : Served(u) => Served(u)'
        BY <1>3, <1>10 DEF LetsIn
    <2>3. QED BY <1>0, <1>1, <1>4, <1>10, <2>1, <2>2
<1>11. CASE \E u \in UserIds : Clears(u)
    <2>1. Existing' = Existing
        BY <1>11, Constants DEF Clears, Existing, IInv, Typed, TypeOK
    <2>2. QED BY <1>0, <1>1, <1>4, <1>5, <1>11, <2>1 DEF Clears
<1>12. CASE UNCHANGED <<users, channel, req>>
    <2>1. Existing' = Existing
        BY <1>12 DEF Existing
    <2>2. QED BY <1>0, <1>1, <1>4, <1>5, <1>12, <2>1
<1>13. UNCHANGED Rest => UNCHANGED channel
    BY DEF Rest
<1>14. QED
    BY <1>7, <1>8, <1>9, <1>10, <1>11, <1>12, <1>13, StepKinds DEF IInv, CacheStep, vars

LEMMA StepIInv == IInv /\ [Next]_vars => IInv'
BY StepTyped, WalletsStayDistinct, NoncesStayOneShot, UsersStayReachable DEF IInv

THEOREM Invariance == Spec => []IInv
<1>1. QED BY InitIInv, StepIInv, PTL DEF Spec

\* TypeOK: rows, channels, nonces and requests keep the shapes of their tables and
\* of the handlers' locals, whatever calls overlap.
THEOREM TypeCorrect == Spec => []TypeOK
<1>1. IInv => TypeOK
    BY DEF IInv, Typed
<1>2. QED BY <1>1, Invariance, PTL

\* A wallet belongs to one user, whatever /verify calls overlap: the unique index
\* closes the window between the check and the write.
THEOREM WalletsAlwaysDistinct == Spec => []WalletsDistinct
<1>1. IInv => WalletsDistinct
    BY DEF IInv
<1>2. QED BY <1>1, Invariance, PTL

\* A signed message lets one request in: the nonce it used has left the cache and is
\* never issued again.
THEOREM NoncesAlwaysOneShot == Spec => []NoncesOneShot
<1>1. IInv => NoncesOneShot
    BY DEF IInv
<1>2. QED BY <1>1, Invariance, PTL

\* Whoever loses the race for a Telegram identity or a wallet leaves no user behind.
THEOREM UsersAlwaysReachable == Spec => []NoOrphanUsers
<1>1. IInv => NoOrphanUsers
    BY DEF IInv
<1>2. QED BY <1>1, Invariance, PTL

LEMMA StepBoundByProof ==
    ASSUME Typed, [Next]_vars, NEW u \in UserIds, users'[u].wallet \notin {users[u].wallet, None}
    PROVE  \E r \in Requests : /\ req[r].kind = "verify" /\ req[r].step # "done"
                               /\ req'[r].step = "done" /\ req'[r].user = u
                               /\ req'[r].wallet = users'[u].wallet
<1>0. users \in [UserIds -> Row]
    BY DEF Typed, TypeOK
<1>1. ~UNCHANGED users /\ ~RowsStay
    BY DEF RowsStay
<1>2. \A v \in UserIds : ~Clears(v)
    BY <1>0, Constants DEF Clears
<1>3. \A r \in Requests, v \in UserIds : ~Joins(r, v)
    BY Constants DEF Joins
<1>4. PICK r \in Requests, v \in UserIds : Claims(r, v)
    BY <1>1, <1>2, <1>3, StepKinds DEF CacheStep, vars
<1>5. v = u
    BY <1>4 DEF Claims
<1>6. QED BY <1>4, <1>5 DEF Claims

\* A wallet comes onto a row only in the step that ends the request that proved to
\* own it, so no stale write brings back what the admin has unbound.
THEOREM WalletsBoundByProof == Spec => BoundByProof
<1>1. IInv /\ [Next]_vars =>
        [\A u \in UserIds : users'[u].wallet \notin {users[u].wallet, None} =>
            \E r \in Requests : /\ req[r].kind = "verify" /\ req[r].step # "done"
                                /\ req'[r].step = "done" /\ req'[r].user = u
                                /\ req'[r].wallet = users'[u].wallet]_vars
    BY StepBoundByProof DEF IInv
<1>2. QED BY <1>1, Invariance, PTL DEF Spec, BoundByProof
===========================================================================
