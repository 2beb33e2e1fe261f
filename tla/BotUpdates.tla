---------------------------- MODULE BotUpdates ----------------------------
(***************************************************************************)
(* Updates from Telegram: how they are posted, let in and handled           *)
(* (api/routes/telegram.py, api/deps.py, bot/handlers), the secret that     *)
(* signs them and its rotation (api/routes/admin.py, bot/lifespan.py), and   *)
(* what the preferences they set mean for the fan-out of a signal            *)
(* (pipeline/delivery.py) and for the operator's delivery trace, which       *)
(* states the fan-out's filters a second time (api/routes/admin.py).         *)
(*                                                                          *)
(* The route awaits the handler, so updates overlap like requests.  A        *)
(* handler asks Telegram who the sender is, loads its row, changes its copy  *)
(* and commits; the UPDATE writes the columns that differ from what it       *)
(* loaded.  Telegram posts an update again until it has been answered with   *)
(* 200.  A handler that raises is answered with 200 as well.                 *)
(*                                                                          *)
(* pref_paused is left out: no code sets it.  A list of assets is a set.     *)
(***************************************************************************)
EXTENDS Integers, FiniteSets

CONSTANTS
    Users,            \* private chats; each has one user and one channel
    Groups,           \* group chats
    Assets,           \* VALID_ASSETS
    AssetLists,       \* the lists /prefs assets is called with
    DefaultAssets,    \* delivery_default_assets
    MinFloor, MaxFloor, DefaultFloor,   \* of pref_min_confidence
    Secrets, EnvSecret,                 \* telegram_webhook_secret is EnvSecret
    MinConfirmation,  \* delivery_min_confirmation
    MaxUpdates,       \* bound
    Scenarios         \* bound: in each, what is sent by whom, which signals are
                      \* fanned out, how many rotations and crashes there are

Chats == Users \cup Groups
Ids == 1 .. MaxUpdates
Market == "MARKET"
Null == -1

ASSUME ChatAssumption == Users \cap Groups = {}
ASSUME DefaultAssumption ==
    /\ IsFiniteSet(Assets)
    /\ DefaultAssets \in (SUBSET Assets) \ {{}} /\ AssetLists \subseteq (SUBSET Assets) \ {{}}
    /\ MinFloor \in Int /\ MaxFloor \in Int /\ DefaultFloor \in MinFloor .. MaxFloor
ASSUME SecretAssumption == EnvSecret \in Secrets

\* DeliveryPrefsMixin, shared by users and telegram_groups.
Row == [active : BOOLEAN, assets : SUBSET Assets, floor : MinFloor .. MaxFloor]
Defaults == [active |-> TRUE, assets |-> DefaultAssets, floor |-> DefaultFloor]

\* The buttons of the /prefs keyboard, and what is typed.
Taps == [kind : {"toggle"}, asset : Assets] \cup [kind : {"lower", "raise", "pause", "resume"}]
Tuning == [kind : {"assets"}, to : AssetLists] \cup [kind : {"floor"}, to : MinFloor .. MaxFloor]
            \cup [kind : {"malformed"}]
Commands == [kind : {"start", "subscribe", "unsubscribe", "show"}] \cup Tuning
Membership == [kind : {"added", "removed"}]
Contents(chat) == Taps \cup Commands \cup IF chat \in Groups THEN Membership ELSE {}

ASSUME BoundAssumption ==
    /\ MaxUpdates \in Nat
    /\ \A s \in Scenarios :
          /\ \A u \in s.sent : u.chat \in Chats /\ u.what \in Contents(u.chat) /\ u.sender \in {"admin", "member"}
          /\ s.rotations \in Nat /\ s.crashes \in Nat

VARIABLES
    scenario,
    row,        \* users with their channel, and telegram_groups: the registered chats
    silenced,   \* users whose channel the send worker has switched off
    update,     \* the updates sent so far and where their handling is
    signing,    \* the secret Telegram signs with
    accepted,   \* app.state.telegram_webhook_secrets; empty: no bot is attached
    up,         \* the process runs
    rotation,   \* the rotation in progress
    estranged,  \* a call to Telegram has failed so that its secret is not known here
    alert,      \* the fan-out: the signal, who was told, and what they had set
    rotations, crashes

webhookVars == <<signing, accepted, up, rotation, estranged, rotations, crashes>>
vars == <<scenario, row, silenced, update, webhookVars, alert>>

NoRotation == [at |-> "idle", old |-> {}, new |-> EnvSecret]
Registered(c) == c \in DOMAIN row
Sent == DOMAIN update
At(i, place) == i \in Sent /\ update[i].at = place
InProcess == {"posted", "asking", "loading", "inserting", "loaded", "committed"}

Init ==
    /\ scenario \in Scenarios
    /\ \E known \in SUBSET Chats : row = [c \in known |-> Defaults]
    /\ silenced = {} /\ update = <<>>
    /\ signing = EnvSecret /\ accepted = {EnvSecret} /\ up = TRUE
    /\ rotation = NoRotation /\ estranged = FALSE
    /\ alert = <<>> /\ rotations = 0 /\ crashes = 0

\* f, with a value at a further point.
With(f, x, e) == [y \in DOMAIN f \cup {x} |-> IF y = x THEN e ELSE f[y]]

\* u is now at a place of its handling, where it needs a secret or a copy of the row.
Put(u, place, secret, copy) ==
    [at |-> place, chat |-> u.chat, what |-> u.what, sender |-> u.sender,
     secret |-> secret, copy |-> copy]
Moved(i, place) == update' = [update EXCEPT ![i] = Put(@, place, EnvSecret, Defaults)]
Loaded(i) == update' = [update EXCEPT ![i] = Put(@, "loaded", EnvSecret, row[@.chat])]

\* Answered, and forgotten.
Over == [at |-> "answered", chat |-> CHOOSE c \in Chats : TRUE, what |-> [kind |-> "show"],
         sender |-> "member", secret |-> EnvSecret, copy |-> Defaults]
Answered(i) == update' = [update EXCEPT ![i] = Over]

----------------------------------------------------------------------------
(* The webhook.                                                              *)

\* Somebody taps or types, or Telegram reports the bot's own membership.
Send(u) ==
    /\ Cardinality(Sent) < MaxUpdates
    /\ update' = With(update, Cardinality(Sent) + 1, Put(u, "held", EnvSecret, Defaults))
    /\ UNCHANGED <<scenario, row, silenced, webhookVars, alert>>

Post(i) ==
    /\ At(i, "held") /\ up
    /\ update' = [update EXCEPT ![i] = Put(@, "posted", signing, Defaults)]
    /\ UNCHANGED <<scenario, row, silenced, webhookVars, alert>>

\* Taps, and /prefs with arguments, are for admins in a group.
Gated(u) == u.chat \in Groups /\ u.what \in Taps \cup Tuning

\* verify_bot_enabled, verify_telegram_secret: a 404 or 401 makes Telegram post again.
Verify(i) ==
    /\ At(i, "posted")
    /\ Moved(i, IF update[i].secret \notin accepted THEN "held"
                ELSE IF Gated(update[i]) THEN "asking" ELSE "loading")
    /\ UNCHANGED <<scenario, row, silenced, webhookVars, alert>>

\* The handler has returned or raised: 200.
Reply(i) ==
    /\ At(i, "committed")
    /\ Answered(i)
    /\ UNCHANGED <<scenario, row, silenced, webhookVars, alert>>

\* PTB logs what a handler raises; a commit that fails leaves nothing behind.
Raise(i) ==
    /\ i \in Sent /\ update[i].at \in InProcess \ {"posted", "committed"}
    /\ Answered(i)
    /\ UNCHANGED <<scenario, row, silenced, webhookVars, alert>>

----------------------------------------------------------------------------
(* The handlers.                                                             *)

\* is_group_admin: getChatMember may fail, and then says no.
AskAdmin(i) ==
    /\ At(i, "asking")
    /\ \/ update[i].sender = "admin" /\ Moved(i, "loading")
       \/ Answered(i)
    /\ UNCHANGED <<scenario, row, silenced, webhookVars, alert>>

\* get_or_create_target and _on_added register a chat; _resolve_target, which serves
\* the taps, and _on_removed do not.
Creates(what) == what \in Commands \/ what.kind = "added"

Load(i) ==
    LET u == update[i] IN
    /\ At(i, "loading")
    /\ \/ Registered(u.chat) /\ Loaded(i)
       \/ ~Registered(u.chat) /\ Creates(u.what) /\ Moved(i, "inserting")
       \/ ~Registered(u.chat) /\ ~Creates(u.what) /\ Answered(i)
    /\ UNCHANGED <<scenario, row, silenced, webhookVars, alert>>

\* _toggle_asset: the last asset stays.
Toggled(assets, a) ==
    IF a \notin assets THEN assets \cup {a}
    ELSE IF Cardinality(assets) = 1 THEN assets ELSE assets \ {a}

\* What a handler makes of its copy.
Changed(copy, what) ==
    CASE what.kind \in {"start", "subscribe", "added", "resume"} -> [copy EXCEPT !.active = TRUE]
      [] what.kind \in {"unsubscribe", "pause", "removed"} -> [copy EXCEPT !.active = FALSE]
      [] what.kind = "toggle" -> [copy EXCEPT !.assets = Toggled(copy.assets, what.asset)]
      [] what.kind = "lower" -> [copy EXCEPT !.floor = IF @ = MinFloor THEN MinFloor ELSE @ - 1]
      [] what.kind = "raise" -> [copy EXCEPT !.floor = IF @ = MaxFloor THEN MaxFloor ELSE @ + 1]
      [] what.kind = "assets" -> [copy EXCEPT !.assets = what.to]
      [] what.kind = "floor" -> [copy EXCEPT !.floor = what.to]
      [] what.kind \in {"show", "malformed"} -> copy

\* The UPDATE of a loaded row: its changed columns.
Merged(now, copy, new) ==
    [active |-> IF new.active # copy.active THEN new.active ELSE now.active,
     assets |-> IF new.assets # copy.assets THEN new.assets ELSE now.assets,
     floor |-> IF new.floor # copy.floor THEN new.floor ELSE now.floor]

\* A command that is refused does not commit, so it leaves no new row either.
Insert(i) ==
    LET u == update[i] IN
    /\ At(i, "inserting")
    /\ \/ /\ ~Registered(u.chat) /\ u.what.kind # "malformed"
          /\ row' = With(row, u.chat, Changed(Defaults, u.what))
          /\ Moved(i, "committed")
       \/ /\ ~Registered(u.chat) /\ u.what.kind = "malformed"
          /\ Answered(i) /\ UNCHANGED row
       \/ Registered(u.chat) /\ Loaded(i) /\ UNCHANGED row   \* IntegrityError: roll back, select
    /\ UNCHANGED <<scenario, silenced, webhookVars, alert>>

\* (mutant) A tap adds to, or removes from, the array that is stored.
CommitElements(i) ==
    LET u == update[i]
        new == Changed(u.copy, u.what) IN
    /\ At(i, "loaded")
    /\ row' = [row EXCEPT ![u.chat] = [Merged(@, u.copy, new) EXCEPT
                 !.assets = (row[u.chat].assets \ (u.copy.assets \ new.assets))
                              \cup (new.assets \ u.copy.assets)]]
    /\ Moved(i, "committed")
    /\ UNCHANGED <<scenario, silenced, webhookVars, alert>>

Commit(i) ==
    LET u == update[i] IN
    /\ At(i, "loaded")
    /\ row' = [row EXCEPT ![u.chat] = Merged(@, u.copy, Changed(u.copy, u.what))]
    /\ Moved(i, "committed")
    /\ UNCHANGED <<scenario, silenced, webhookVars, alert>>

----------------------------------------------------------------------------
(* The webhook's secret.                                                     *)

\* (mutant) The new secret is not accepted before Telegram has it.
RotateUnwidened(new) ==
    /\ up /\ accepted # {} /\ rotation.at = "idle" /\ rotations < scenario.rotations
    /\ rotation' = [at |-> "called", old |-> accepted, new |-> new]
    /\ rotations' = rotations + 1
    /\ UNCHANGED <<scenario, row, silenced, update, signing, accepted, up, estranged, crashes, alert>>

\* _do_rotate under its lock, up to the call of set_webhook: widen.
Rotate(new) ==
    /\ up /\ accepted # {} /\ rotation.at = "idle" /\ rotations < scenario.rotations
    /\ accepted' = accepted \cup {new}
    /\ rotation' = [at |-> "called", old |-> accepted, new |-> new]
    /\ rotations' = rotations + 1
    /\ UNCHANGED <<scenario, row, silenced, update, signing, up, estranged, crashes, alert>>

\* The call reaches Telegram.
Land ==
    /\ rotation.at = "called"
    /\ signing' = rotation.new
    /\ rotation' = [rotation EXCEPT !.at = "landed"]
    /\ UNCHANGED <<scenario, row, silenced, update, accepted, up, estranged, rotations, crashes, alert>>

\* (mutant) What is kept is the old secret.
ShrinkToOld ==
    /\ rotation.at = "landed"
    /\ accepted' = rotation.old /\ rotation' = NoRotation /\ estranged' = FALSE
    /\ UNCHANGED <<scenario, row, silenced, update, signing, up, rotations, crashes, alert>>

\* Telegram has answered: only the new secret is accepted from now on.
Shrink ==
    /\ rotation.at = "landed"
    /\ accepted' = {rotation.new} /\ rotation' = NoRotation /\ estranged' = FALSE
    /\ UNCHANGED <<scenario, row, silenced, update, signing, up, rotations, crashes, alert>>

\* A TelegramError, which a time-out of a call that has landed raises as well.
Revert ==
    /\ rotation.at \in {"called", "landed"}
    /\ accepted' = rotation.old /\ rotation' = NoRotation
    /\ estranged' = (estranged \/ rotation.at = "landed")
    /\ UNCHANGED <<scenario, row, silenced, update, signing, up, rotations, crashes, alert>>

\* Process death: Telegram keeps what has not been answered, and may still apply a
\* call that was on its way.
Crash ==
    /\ up /\ crashes < scenario.crashes
    /\ up' = FALSE /\ accepted' = {} /\ rotation' = NoRotation /\ crashes' = crashes + 1
    /\ signing' \in {signing, IF rotation.at = "called" THEN rotation.new ELSE signing}
    /\ update' = [i \in Sent |-> IF update[i].at \in InProcess
                                 THEN Put(update[i], "held", EnvSecret, Defaults) ELSE update[i]]
    /\ UNCHANGED <<scenario, row, silenced, estranged, rotations, alert>>

\* start_bot: initialize() may fail, and then no bot is attached; set_webhook may
\* fail, before or after Telegram has taken the secret, and is not tried again.
Boot ==
    /\ ~up
    /\ up' = TRUE
    /\ \/ accepted' = {} /\ estranged' = TRUE /\ UNCHANGED signing
       \/ accepted' = {EnvSecret} /\ signing' = EnvSecret /\ estranged' = FALSE
       \/ accepted' = {EnvSecret} /\ estranged' = (signing # EnvSecret) /\ UNCHANGED signing
    /\ UNCHANGED <<scenario, row, silenced, update, rotation, rotations, crashes, alert>>

----------------------------------------------------------------------------
(* The fan-out and the trace.                                                *)

\* _asset_pref_filter
AssetFilter(assets, asset) == asset = Market \/ assets = {} \/ asset \in assets

MatchUsers(s) ==
    {u \in Users \cap DOMAIN row : /\ row[u].active /\ u \notin silenced
                                  /\ AssetFilter(row[u].assets, s.asset)
                                  /\ row[u].floor <= s.confidence}
MatchGroups(s) ==
    {g \in Groups \cap DOMAIN row : /\ row[g].active
                                   /\ AssetFilter(row[g].assets, s.asset)
                                   /\ row[g].floor <= s.confidence}

\* fan_out_signal: PENDING, analysed, and confirmed if that could be scored.
FanOut(s) ==
    /\ alert = <<>>
    /\ s.confidence # Null /\ (s.confirmation = Null \/ s.confirmation >= MinConfirmation)
    /\ alert' = [signal |-> s, told |-> MatchUsers(s) \cup MatchGroups(s),
                 row |-> row, silenced |-> silenced]
    /\ UNCHANGED <<scenario, row, silenced, update, webhookVars>>

\* The send worker: a refused message switches the recipient off (SignalDelivery).
Refused(c) ==
    /\ alert # <<>> /\ c \in alert.told
    /\ \/ c \in Users \ silenced /\ silenced' = silenced \cup {c} /\ UNCHANGED row
       \/ c \in Groups /\ row[c].active /\ row' = [row EXCEPT ![c].active = FALSE] /\ UNCHANGED silenced
    /\ UNCHANGED <<scenario, update, webhookVars, alert>>

\* (mutant) Regime shifts are filtered like the signals of an asset.
AssetMatchesNoMarket(assets, asset) == Cardinality(assets) = 0 \/ asset \in assets

\* _asset_matches, _confidence_matches
AssetMatches(assets, asset) == asset = Market \/ Cardinality(assets) = 0 \/ asset \in assets
ConfidenceMatches(floor, confidence) == confidence # Null /\ floor <= confidence

\* _first_failing_reason
FirstFailing(active, channel, asset, confidence) ==
    CASE ~active -> "inactive"
      [] active /\ ~channel -> "channel inactive"
      [] active /\ channel /\ ~asset -> "asset"
      [] active /\ channel /\ asset /\ ~confidence -> "confidence"
      [] OTHER -> "none"

TraceUser(u, s) ==
    LET asset == AssetMatches(row[u].assets, s.asset)
        confidence == ConfidenceMatches(row[u].floor, s.confidence)
        matched == row[u].active /\ u \notin silenced /\ asset /\ confidence
    IN [matched |-> matched,
        reason |-> IF matched THEN "none"
                   ELSE FirstFailing(row[u].active, u \notin silenced, asset, confidence)]

TraceGroup(g, s) ==
    LET asset == AssetMatches(row[g].assets, s.asset)
        confidence == ConfidenceMatches(row[g].floor, s.confidence)
        matched == row[g].active /\ asset /\ confidence
    IN [matched |-> matched,
        reason |-> IF matched THEN "none" ELSE FirstFailing(row[g].active, TRUE, asset, confidence)]

\* get_signal_delivery_trace: who matched, and otherwise why not.
Trace(s) == [c \in DOMAIN row |-> IF c \in Users THEN TraceUser(c, s) ELSE TraceGroup(c, s)]

----------------------------------------------------------------------------
Handle(i) ==
    \/ Verify(i) \/ AskAdmin(i) \/ Load(i) \/ Insert(i) \/ Commit(i) \/ Reply(i) \/ Raise(i)

Next ==
    \/ \E u \in scenario.sent : Send(u)
    \/ \E i \in Sent : Post(i) \/ Handle(i)
    \/ \E new \in Secrets : Rotate(new)
    \/ Land \/ Shrink \/ Revert \/ Crash \/ Boot
    \/ \E s \in scenario.signals : FanOut(s)
    \/ \E c \in Chats : Refused(c)

Spec == Init /\ [][Next]_vars

\* Telegram posts again what was not answered, handlers and calls end, and a process
\* that died is started again.
FairSpec ==
    /\ Spec
    /\ \A i \in Ids : WF_vars(i \in Sent /\ Post(i)) /\ WF_vars(i \in Sent /\ Handle(i))
    /\ WF_vars(Shrink \/ Revert) /\ WF_vars(Boot)

TypeOK ==
    /\ DOMAIN row \subseteq Chats /\ \A c \in DOMAIN row : row[c] \in Row
    /\ silenced \subseteq Users
    /\ Sent \subseteq Ids
    /\ \A i \in Sent : /\ update[i].at \in InProcess \cup {"held", "answered"}
                       /\ update[i].chat \in Chats /\ update[i].copy \in Row
                       /\ update[i].secret \in Secrets
    /\ signing \in Secrets /\ accepted \subseteq Secrets
    /\ rotation \in [at : {"idle", "called", "landed"}, old : SUBSET Secrets, new : Secrets]
    /\ rotations \in 0 .. scenario.rotations /\ crashes \in 0 .. scenario.crashes

----------------------------------------------------------------------------
\* However taps and commands overlap, no list of assets becomes empty, which the
\* fan-out would take for all of them (callbacks.py _toggle_asset: "keeps the user
\* out of the 'I removed everything so I get nothing' trap").  A tap writes the whole
\* list it has computed: two taps that each remove one of the last two assets leave one.
NeverEmptied == \A c \in DOMAIN row : row[c].assets # {}

\* The trace of a signal that was fanned out tells who was told, of every recipient
\* whose settings are still what the fan-out saw, and it names a filter for each
\* recipient that was not (delivery.py _match_users, "Drift hazard").
TraceExplains ==
    alert # <<>> =>
        \A c \in DOMAIN row \cap DOMAIN alert.row :
            row[c] = alert.row[c] /\ (c \in silenced <=> c \in alert.silenced) =>
                LET t == Trace(alert.signal)[c]
                IN (t.matched <=> c \in alert.told) /\ (t.reason = "none" <=> t.matched)

\* What Telegram signs is let in, also while the secret is rotated, unless a call to
\* Telegram has failed after it took the new secret, or before it took back the old.
Heard == up /\ ~estranged => signing \in accepted

\* Every update is answered in the end, whatever rotations and crashes do to its
\* posts, unless the bot and Telegram disagree about the secret.
UpdatesAnswered == \A i \in Ids : At(i, "held") ~> At(i, "answered") \/ estranged

\* admin.py 631: after a failed call "Telegram is still signing with the old secret
\* (set_webhook never landed), so the bot keeps working".  The code does not keep
\* this: a call that timed out may have landed.
FailedRotationKeepsBot == [][Revert => (signing \in accepted => signing' \in accepted')]_vars

\* admin.py 117: the trace tells "who matched, who didn't, why".  The code does not
\* keep this for a signal the confirmation gate holds back: the trace has matched
\* recipients and no reason.
TraceExplainsGate ==
    \A s \in scenario.signals : s.confirmation # Null /\ s.confirmation < MinConfirmation =>
        \A c \in DOMAIN row : ~Trace(s)[c].matched
===========================================================================
