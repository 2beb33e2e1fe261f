---------------------------- MODULE AccountBinding -------------------------
(***************************************************************************)
(* Who a user is: the users rows, the wallet bound to each, the API keys    *)
(* registered for it, and the Telegram identity.                            *)
(*                                                                          *)
(*  /wallet/nonce, /wallet/verify, /wallet/api-key    api/routes/wallet.py, *)
(*                                                    api/auth_siwe.py      *)
(*  /auth/telegram/verify and the bot's /start        identity.py           *)
(*  admin unbind-wallet                               api/routes/admin.py   *)
(*                                                                          *)
(* A request is cut at its awaits.  A flush and the commit after it are one *)
(* step: the row and unique-index locks make every conflicting writer wait  *)
(* in between, and nobody reads what is not committed.  A row loaded before *)
(* keeps its attributes when it is selected again FOR UPDATE, and a flush   *)
(* writes the attributes that differ from what was loaded.                  *)
(***************************************************************************)
EXTENDS Naturals, FiniteSets

CONSTANTS
    UserIds,     \* bound: the rows users may get
    Wallets,
    Telegrams,   \* Telegram identities
    Nonces,      \* bound: SIWE nonces that may be issued
    Requests,    \* bound: requests that may be served
    MaxUnbinds   \* bound: unbinds by the admin

None == "none"
ASSUME NoneAssumption == None \notin UserIds \cup Wallets \cup Nonces
ASSUME BoundAssumption == MaxUnbinds \in Nat

VARIABLES
    users,     \* id -> row; `exists` is FALSE until it is inserted
    channel,   \* Telegram identity -> the user of its notification channel
    nonces,    \* the cache of issued nonces: the wallet each was issued to
    spent,     \* nonces no longer in the cache
    req,       \* what each request holds
    unbinds    \* unbinds so far

vars == <<users, channel, nonces, spent, req, unbinds>>

MaybeUser == UserIds \cup {None}
MaybeWallet == Wallets \cup {None}
\* `account` and `key` name the wallet they were registered for.
Row == [exists: BOOLEAN, wallet: MaybeWallet, account: MaybeWallet, key: MaybeWallet]
NoRow == [exists |-> FALSE, wallet |-> None, account |-> None, key |-> None]
NewRow == [NoRow EXCEPT !.exists = TRUE]
Idle ==
    [step |-> "idle", kind |-> None, wallet |-> None, nonce |-> None, tg |-> None,
     user |-> None, copy |-> NoRow]
Kinds == {None, "verify", "apikey", "telegram"}
Steps == {"idle", "proven", "loaded", "unclaimed", "absent", "done", "refused"}

TypeOK ==
    /\ users \in [UserIds -> Row]
    /\ channel \in [Telegrams -> MaybeUser]
    /\ nonces \in [Nonces -> MaybeWallet] /\ spent \subseteq Nonces
    /\ req \in [Requests -> [step: Steps, kind: Kinds, wallet: MaybeWallet,
                             nonce: Nonces \cup {None}, tg: Telegrams \cup {None},
                             user: MaybeUser, copy: Row]]
    /\ unbinds \in 0 .. MaxUnbinds

Init ==
    /\ users = [u \in UserIds |-> NoRow]
    /\ channel = [t \in Telegrams |-> None]
    /\ nonces = [n \in Nonces |-> None] /\ spent = {}
    /\ req = [r \in Requests |-> Idle]
    /\ unbinds = 0

Existing == {u \in UserIds : users[u].exists}
Holders(w) == {u \in Existing : users[u].wallet = w}
At(r, kind, step) == req[r].kind = kind /\ req[r].step = step
Go(r, step) == req' = [req EXCEPT ![r].step = step]

---------------------------------------------------------------------------
(* SIWE nonces. *)

\* issue_nonce.
IssueNonce(n, w) ==
    /\ nonces[n] = None /\ n \notin spent
    /\ nonces' = [nonces EXCEPT ![n] = w]
    /\ UNCHANGED <<users, channel, spent, req, unbinds>>

\* The TTL, an eviction by size, a restart: the cache forgets it.
ForgetNonce(n) ==
    /\ nonces[n] # None
    /\ nonces' = [nonces EXCEPT ![n] = None]
    /\ spent' = spent \cup {n}
    /\ UNCHANGED <<users, channel, req, unbinds>>

\* What a verified message leaves in the request: the wallet it proves, the
\* session its bearer token names, if any.  A token that does not verify, or
\* whose user is gone, counts as no token.
Proves(r, n) ==
    /\ req[r].step = "idle" /\ nonces[n] # None
    /\ \E session \in Existing \cup {None} :
          req' = [req EXCEPT ![r] = [Idle EXCEPT !.step = "proven", !.kind = "verify",
                        !.wallet = nonces[n], !.nonce = n, !.user = session]]

\* (mutant) The nonce stays in the cache until its TTL.
ConsumeKeeping(r, n) ==
    Proves(r, n) /\ UNCHANGED <<users, channel, nonces, spent, unbinds>>

\* consume_and_verify: the nonce must be in the cache and the signer be the
\* wallet it was issued to; there is no await between the look-up and the pop.
\* A message that fails leaves the nonce where it is.
Consume(r, n) ==
    /\ Proves(r, n)
    /\ nonces' = [nonces EXCEPT ![n] = None]
    /\ spent' = spent \cup {n}
    /\ UNCHANGED <<users, channel, unbinds>>

---------------------------------------------------------------------------
(* /wallet/verify with a session: _bind_wallet_to_existing_user. *)

\* session.get of the token's user.
LoadSession(r) ==
    /\ At(r, "verify", "proven") /\ req[r].user # None
    /\ req' = [req EXCEPT ![r].step = "loaded", ![r].copy = users[req[r].user]]
    /\ UNCHANGED <<users, channel, nonces, spent, unbinds>>

\* Bound to this wallet already: nothing to do.  Bound to another, or the wallet
\* bound to another user: 409.
CheckBinding(r) ==
    /\ At(r, "verify", "loaded")
    /\ Go(r, IF req[r].copy.wallet = req[r].wallet THEN "done"
             ELSE IF req[r].copy.wallet # None THEN "refused"
             ELSE IF Holders(req[r].wallet) \ {req[r].user} # {} THEN "refused"
             ELSE "unclaimed")
    /\ UNCHANGED <<users, channel, nonces, spent, unbinds>>

\* (mutant) Without the unique index on wallet_address.
BindWalletUnindexed(r) ==
    /\ At(r, "verify", "unclaimed")
    /\ users' = [users EXCEPT ![req[r].user].wallet = req[r].wallet]
    /\ Go(r, "done")
    /\ UNCHANGED <<channel, nonces, spent, unbinds>>

\* UPDATE users SET wallet_address, by id only: the unique index refuses a wallet
\* that another row holds by now, and nothing looks at this row's own wallet again.
BindWallet(r) ==
    /\ At(r, "verify", "unclaimed")
    /\ IF Holders(req[r].wallet) \ {req[r].user} # {}
       THEN Go(r, "refused") /\ UNCHANGED users
       ELSE /\ users' = [users EXCEPT ![req[r].user].wallet = req[r].wallet]
            /\ Go(r, "done")
    /\ UNCHANGED <<channel, nonces, spent, unbinds>>

---------------------------------------------------------------------------
(* /wallet/verify without a session: _resolve_or_create_user_by_wallet. *)

FindByWallet(r) ==
    /\ At(r, "verify", "proven") /\ req[r].user = None
    /\ \/ \E u \in Holders(req[r].wallet) :
             req' = [req EXCEPT ![r].step = "done", ![r].user = u]
       \/ Holders(req[r].wallet) = {} /\ Go(r, "absent")
    /\ UNCHANGED <<users, channel, nonces, spent, unbinds>>

\* INSERT; the loser of a race rolls back and selects the winner's row.
CreateByWallet(r) ==
    /\ At(r, "verify", "absent")
    /\ \/ \E u \in Holders(req[r].wallet) :
             req' = [req EXCEPT ![r].step = "done", ![r].user = u] /\ UNCHANGED users
       \/ /\ Holders(req[r].wallet) = {}
          /\ \E u \in UserIds \ Existing :
                /\ users' = [users EXCEPT ![u] = [NewRow EXCEPT !.wallet = req[r].wallet]]
                /\ req' = [req EXCEPT ![r].step = "done", ![r].user = u]
    /\ UNCHANGED <<channel, nonces, spent, unbinds>>

---------------------------------------------------------------------------
(* resolve_or_create_user_by_tg_id, from the bot and from the WebApp route. *)

FindByTelegram(r, t) ==
    /\ req[r].step = "idle"
    /\ req' = [req EXCEPT ![r] = [Idle EXCEPT !.kind = "telegram", !.tg = t,
                    !.step = IF channel[t] # None THEN "done" ELSE "absent",
                    !.user = channel[t]]]
    /\ UNCHANGED <<users, channel, nonces, spent, unbinds>>

\* (mutant) The user is committed before its channel is known to be free.
CreateByTelegramEarly(r) ==
    /\ At(r, "telegram", "absent")
    /\ \E u \in UserIds \ Existing :
          /\ users' = [users EXCEPT ![u] = NewRow]
          /\ channel' = IF channel[req[r].tg] = None
                        THEN [channel EXCEPT ![req[r].tg] = u] ELSE channel
          /\ req' = [req EXCEPT ![r].step = "done", ![r].user = channel'[req[r].tg]]
    /\ UNCHANGED <<nonces, spent, unbinds>>

\* The user and its channel in one transaction; the unique index on the channel
\* makes the loser roll both back and take the winner's user.
CreateByTelegram(r) ==
    /\ At(r, "telegram", "absent")
    /\ IF channel[req[r].tg] # None
       THEN /\ req' = [req EXCEPT ![r].step = "done", ![r].user = channel[req[r].tg]]
            /\ UNCHANGED <<users, channel>>
       ELSE \E u \in UserIds \ Existing :
            /\ users' = [users EXCEPT ![u] = NewRow]
            /\ channel' = [channel EXCEPT ![req[r].tg] = u]
            /\ req' = [req EXCEPT ![r].step = "done", ![r].user = u]
    /\ UNCHANGED <<nonces, spent, unbinds>>

---------------------------------------------------------------------------
(* /wallet/api-key and the admin's unbind. *)

\* get_current_user: 403 while no wallet is bound.
LoadForKey(r, u) ==
    /\ req[r].step = "idle" /\ u \in Existing /\ users[u].wallet # None
    /\ req' = [req EXCEPT ![r] = [Idle EXCEPT !.kind = "apikey", !.step = "loaded",
                    !.user = u, !.copy = users[u], !.wallet = users[u].wallet]]
    /\ UNCHANGED <<users, channel, nonces, spent, unbinds>>

\* (mutant) The flush writes every column of the loaded object.
SetApiKeyWholeRow(r) ==
    /\ At(r, "apikey", "loaded")
    /\ users' = [users EXCEPT ![req[r].user] =
                    [req[r].copy EXCEPT !.account = req[r].wallet, !.key = req[r].wallet]]
    /\ Go(r, "done")
    /\ UNCHANGED <<channel, nonces, spent, unbinds>>

\* SELECT FOR UPDATE returns the loaded object; of the account id and the key the
\* flush writes what differs from it.
SetApiKey(r) ==
    /\ At(r, "apikey", "loaded")
    /\ LET row == users[req[r].user]
           written(old, inRow) == IF old = req[r].wallet THEN inRow ELSE req[r].wallet
       IN  users' = [users EXCEPT ![req[r].user] =
                        [row EXCEPT !.account = written(req[r].copy.account, row.account),
                                    !.key = written(req[r].copy.key, row.key)]]
    /\ Go(r, "done")
    /\ UNCHANGED <<channel, nonces, spent, unbinds>>

\* unbind_user_wallet loads the row under its lock and clears four columns.
Unbind(u) ==
    /\ users[u].exists /\ unbinds < MaxUnbinds
    /\ users' = [users EXCEPT ![u] = NewRow]
    /\ unbinds' = unbinds + 1
    /\ UNCHANGED <<channel, nonces, spent, req>>

Next ==
    \/ \E n \in Nonces : ForgetNonce(n) \/ \E w \in Wallets : IssueNonce(n, w)
    \/ \E r \in Requests :
          \/ \E n \in Nonces : Consume(r, n)
          \/ LoadSession(r) \/ CheckBinding(r) \/ BindWallet(r)
          \/ FindByWallet(r) \/ CreateByWallet(r)
          \/ \E t \in Telegrams : FindByTelegram(r, t)
          \/ CreateByTelegram(r)
          \/ \E u \in UserIds : LoadForKey(r, u)
          \/ SetApiKey(r)
    \/ \E u \in UserIds : Unbind(u)

Spec == Init /\ [][Next]_vars

---------------------------------------------------------------------------
\* A wallet belongs to one user, whatever /verify calls overlap.
WalletsDistinct ==
    \A u, v \in Existing :
        users[u].wallet # None /\ users[u].wallet = users[v].wallet => u = v

\* A signed message is good for one sign-in: no two requests were let in by the
\* same nonce.
NoncesOneShot ==
    \A r, q \in Requests :
        req[r].nonce # None /\ req[r].nonce = req[q].nonce => r = q

\* A wallet comes onto a row only by a request that has proved to own it, in the
\* step that ends that request: no stale write brings back a wallet that the
\* admin has unbound.
BoundByProof ==
    [][\A u \in UserIds : users'[u].wallet \notin {users[u].wallet, None} =>
          \E r \in Requests : /\ req[r].kind = "verify" /\ req[r].step # "done"
                              /\ req'[r].step = "done" /\ req'[r].user = u
                              /\ req'[r].wallet = users'[u].wallet]_vars

\* Losing a race leaves no user behind that nobody can reach: every row has been
\* bound by somebody's proof or is the user of a Telegram identity.
NoOrphanUsers ==
    \A u \in Existing :
        \/ \E t \in Telegrams : channel[t] = u
        \/ \E r \in Requests : At(r, "verify", "done") /\ req[r].user = u

\* _bind_wallet_to_existing_user: "We do not silently overwrite either binding"
\* (wallet.py:634): a row's wallet never changes into another one.
NoSilentSwap ==
    [][\A u \in UserIds :
          users[u].wallet # None => users'[u].wallet \in {users[u].wallet, None}]_vars

===========================================================================
