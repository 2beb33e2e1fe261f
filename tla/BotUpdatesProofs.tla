-------------------------- MODULE BotUpdatesProofs --------------------------
(***************************************************************************)
(* BotUpdates for any number of users, groups, assets, updates, secrets,    *)
(* rotations and crashes.                                                   *)
(*                                                                          *)
(* Three parts of the state are followed apart: the rows with the copies    *)
(* that updates hold of them, the secret, and the fan-out.                  *)
(***************************************************************************)
EXTENDS BotUpdates, FiniteSetTheorems, TLAPS

Places == InProcess \cup {"held", "answered"}

\* A row, or a copy of one, that lists an asset at least.
Good(r) == r \in Row /\ r.assets # {}

Handling(u) ==
    /\ u.at \in Places /\ u.chat \in Chats /\ u.what \in Contents(u.chat)
    /\ u.secret \in Secrets /\ Good(u.copy)

RowsGood == DOMAIN row \subseteq Chats /\ \A c \in DOMAIN row : Good(row[c])
UpdatesGood == Sent \subseteq Ids /\ \A i \in Sent : Handling(update[i])
Chatting == RowsGood /\ UpdatesGood /\ silenced \subseteq Users

\* Where a rotation is tells what Telegram signs with.
Signing ==
    /\ signing \in Secrets /\ accepted \subseteq Secrets
    /\ rotation \in [at : {"idle", "called", "landed"}, old : SUBSET Secrets, new : Secrets]
    /\ ~up => rotation.at = "idle"
    /\ rotation.at # "idle" => accepted = rotation.old \cup {rotation.new}
    /\ rotation.at = "landed" => signing = rotation.new
    /\ rotation.at = "called" /\ up /\ ~estranged => signing \in rotation.old
    /\ rotation.at = "idle" /\ up /\ ~estranged => signing \in accepted

Counting ==
    /\ scenario \in Scenarios
    /\ rotations \in 0 .. scenario.rotations /\ crashes \in 0 .. scenario.crashes

IInv == Chatting /\ Signing /\ Counting

----------------------------------------------------------------------------
(* Rows and updates.                                                         *)

LEMMA DefaultsGood == Good(Defaults)
BY DefaultAssumption DEF Good, Row, Defaults

\* A toggle keeps at least one asset.
LEMMA ToggledKeepsOne ==
    ASSUME NEW assets \in SUBSET Assets, assets # {}, NEW a \in Assets
    PROVE  Toggled(assets, a) \in SUBSET Assets /\ Toggled(assets, a) # {}
<1>1. CASE a \notin assets
    BY <1>1 DEF Toggled
<1>2. CASE a \in assets /\ assets \ {a} = {}
    <2>1. assets = {a}
        BY <1>2
    <2>2. Cardinality(assets) = 1
        BY <2>1, FS_Singleton
    <2>3. QED BY <1>2, <2>2 DEF Toggled
<1>3. CASE a \in assets /\ assets \ {a} # {}
    BY <1>3 DEF Toggled
<1>4. QED BY <1>1, <1>2, <1>3

LEMMA ChangedGood ==
    ASSUME NEW r, Good(r), NEW chat, NEW what \in Contents(chat)
    PROVE  Good(Changed(r, what))
<1>1. r \in Row /\ r.assets \in SUBSET Assets /\ r.assets # {} /\ r.floor \in MinFloor .. MaxFloor
    BY DEF Good, Row
<1>2. CASE what.kind \in {"start", "subscribe", "added", "resume"}
    BY <1>1, <1>2 DEF Changed, Good, Row
<1>3. CASE what.kind \in {"unsubscribe", "pause", "removed"}
    BY <1>1, <1>3 DEF Changed, Good, Row
<1>4. CASE what.kind = "toggle"
    <2>1. what.asset \in Assets
        BY <1>4 DEF Contents, Taps, Commands, Tuning, Membership
    <2>2. Toggled(r.assets, what.asset) \in SUBSET Assets /\ Toggled(r.assets, what.asset) # {}
        BY <1>1, <2>1, ToggledKeepsOne
    <2>3. Changed(r, what) = [r EXCEPT !.assets = Toggled(r.assets, what.asset)]
        BY <1>4 DEF Changed
    <2>4. QED BY <1>1, <2>2, <2>3 DEF Good, Row
<1>5. CASE what.kind = "lower"
    <2>1. Changed(r, what) = [r EXCEPT !.floor = IF r.floor = MinFloor THEN MinFloor ELSE r.floor - 1]
        BY <1>5 DEF Changed
    <2>2. (IF r.floor = MinFloor THEN MinFloor ELSE r.floor - 1) \in MinFloor .. MaxFloor
        BY <1>1, DefaultAssumption
    <2>3. QED BY <1>1, <2>1, <2>2 DEF Good, Row
<1>6. CASE what.kind = "raise"
    <2>1. Changed(r, what) = [r EXCEPT !.floor = IF r.floor = MaxFloor THEN MaxFloor ELSE r.floor + 1]
        BY <1>6 DEF Changed
    <2>2. (IF r.floor = MaxFloor THEN MaxFloor ELSE r.floor + 1) \in MinFloor .. MaxFloor
        BY <1>1, DefaultAssumption
    <2>3. QED BY <1>1, <2>1, <2>2 DEF Good, Row
<1>7. CASE what.kind = "assets"
    <2>1. what.to \in AssetLists
        BY <1>7 DEF Contents, Taps, Commands, Tuning, Membership
    <2>2. what.to \in SUBSET Assets /\ what.to # {}
        BY <2>1, DefaultAssumption
    <2>3. Changed(r, what) = [r EXCEPT !.assets = what.to]
        BY <1>7 DEF Changed
    <2>4. QED BY <1>1, <2>2, <2>3 DEF Good, Row
<1>8. CASE what.kind = "floor"
    <2>1. what.to \in MinFloor .. MaxFloor
        BY <1>8 DEF Contents, Taps, Commands, Tuning, Membership
    <2>2. Changed(r, what) = [r EXCEPT !.floor = what.to]
        BY <1>8 DEF Changed
    <2>3. QED BY <1>1, <2>1, <2>2 DEF Good, Row
<1>9. CASE what.kind \in {"show", "malformed"}
    BY <1>1, <1>9 DEF Changed, Good
<1>10. QED
    BY <1>2, <1>3, <1>4, <1>5, <1>6, <1>7, <1>8, <1>9
    DEF Contents, Taps, Commands, Tuning, Membership

LEMMA MergedGood ==
    ASSUME NEW now, NEW copy, NEW new, Good(now), Good(new)
    PROVE  Good(Merged(now, copy, new))
BY DEF Good, Merged, Row

\* A row that is added or replaced.
LEMMA RowsStayGood ==
    ASSUME RowsGood, NEW c \in Chats, NEW r, Good(r),
           row' = With(row, c, r) \/ row' = [row EXCEPT ![c] = r]
    PROVE  RowsGood'
<1>1. CASE row' = With(row, c, r)
    BY <1>1 DEF RowsGood, With
<1>2. CASE row' = [row EXCEPT ![c] = r]
    BY <1>2 DEF RowsGood
<1>3. QED BY <1>1, <1>2

LEMMA PutGood ==
    ASSUME NEW u, Handling(u), NEW place \in Places, NEW secret \in Secrets,
           NEW copy, Good(copy)
    PROVE  Handling(Put(u, place, secret, copy))
BY DEF Handling, Put

LEMMA OverGood ==
    ASSUME NEW c \in Chats
    PROVE  Handling(Over)
<1>1. (CHOOSE d \in Chats : TRUE) \in Chats
    OBVIOUS
<1>2. [kind |-> "show"] \in Contents(Over.chat)
    BY DEF Contents, Commands
<1>3. QED
    BY <1>1, <1>2, DefaultsGood, SecretAssumption DEF Handling, Over, Places

LEMMA ReplacedGood ==
    ASSUME UpdatesGood, NEW i \in Sent, NEW u, Handling(u), update' = [update EXCEPT ![i] = u]
    PROVE  UpdatesGood'
BY DEF UpdatesGood, Sent

LEMMA MovedGood ==
    ASSUME UpdatesGood, NEW i \in Sent, NEW place \in Places, Moved(i, place)
    PROVE  UpdatesGood'
<1>1. Handling(Put(update[i], place, EnvSecret, Defaults))
    BY PutGood, DefaultsGood, SecretAssumption DEF UpdatesGood
<1>2. update' = [update EXCEPT ![i] = Put(update[i], place, EnvSecret, Defaults)]
    BY DEF Moved, Sent
<1>3. QED BY <1>1, <1>2, ReplacedGood

LEMMA LoadedGood ==
    ASSUME RowsGood, UpdatesGood, NEW i \in Sent, Registered(update[i].chat), Loaded(i)
    PROVE  UpdatesGood'
<1>1. Good(row[update[i].chat])
    BY DEF RowsGood, Registered
<1>2. Handling(Put(update[i], "loaded", EnvSecret, row[update[i].chat]))
    BY <1>1, PutGood, SecretAssumption DEF UpdatesGood, Places, InProcess
<1>3. update' = [update EXCEPT ![i] = Put(update[i], "loaded", EnvSecret, row[update[i].chat])]
    BY DEF Loaded, Sent
<1>4. QED BY <1>2, <1>3, ReplacedGood

LEMMA AnsweredGood ==
    ASSUME UpdatesGood, NEW i \in Sent, Answered(i)
    PROVE  UpdatesGood'
<1>1. Handling(Over)
    BY OverGood DEF UpdatesGood, Handling
<1>2. QED BY <1>1, ReplacedGood DEF Answered

LEMMA SentFinite == UpdatesGood => IsFiniteSet(Sent) /\ Cardinality(Sent) \in Nat
<1>1. IsFiniteSet(Ids)
    BY BoundAssumption, FS_Interval, 1 \in Int, MaxUpdates \in Int DEF Ids
<1>2. QED BY <1>1, FS_Subset, FS_CardinalityType DEF UpdatesGood

LEMMA SendGood ==
    ASSUME Chatting, Counting, NEW u \in scenario.sent, Send(u)
    PROVE  Chatting'
<1>1. u.chat \in Chats /\ u.what \in Contents(u.chat)
    BY BoundAssumption DEF Counting
<1>2. Handling(Put(u, "held", EnvSecret, Defaults))
    BY <1>1, DefaultsGood, SecretAssumption DEF Handling, Put, Places
<1>3. Cardinality(Sent) + 1 \in Ids
    BY SentFinite, BoundAssumption DEF Send, Ids, Chatting
<1>4. UpdatesGood'
    BY <1>2, <1>3 DEF Send, With, UpdatesGood, Sent, Chatting
<1>5. QED BY <1>4 DEF Send, Chatting, RowsGood

\* What becomes of an update that Telegram holds or a handler works on.
LEMMA HandleGood ==
    ASSUME Chatting, Signing, NEW i \in Sent, Post(i) \/ Handle(i)
    PROVE  Chatting'
<1>1. Handling(update[i])
    BY DEF Chatting, UpdatesGood
<1>2. ASSUME UpdatesGood', UNCHANGED <<row, silenced>> PROVE Chatting'
    BY <1>2 DEF Chatting, RowsGood
<1>3. ASSUME UpdatesGood', RowsGood', UNCHANGED silenced PROVE Chatting'
    BY <1>3 DEF Chatting
<1>4. CASE Post(i)
    <2>1. Handling(Put(update[i], "posted", signing, Defaults))
        BY <1>1, PutGood, DefaultsGood DEF Signing, Places, InProcess
    <2>2. update' = [update EXCEPT ![i] = Put(update[i], "posted", signing, Defaults)]
        BY <1>4 DEF Post, Sent
    <2>3. UpdatesGood'
        BY <2>1, <2>2, ReplacedGood DEF Chatting
    <2>4. QED BY <1>2, <1>4, <2>3 DEF Post
<1>5. CASE Verify(i)
    <2>1. PICK place \in Places : Moved(i, place)
        BY <1>5 DEF Verify, Places, InProcess
    <2>2. UpdatesGood'
        BY <2>1, MovedGood DEF Chatting
    <2>3. QED BY <1>2, <1>5, <2>2 DEF Verify
<1>6. CASE AskAdmin(i)
    <2>1. UpdatesGood'
        BY <1>6, MovedGood, AnsweredGood DEF AskAdmin, Chatting, Places, InProcess
    <2>2. QED BY <1>2, <1>6, <2>1 DEF AskAdmin
<1>7. CASE Load(i)
    <2>1. UpdatesGood'
        BY <1>7, MovedGood, LoadedGood, AnsweredGood DEF Load, Chatting, Places, InProcess
    <2>2. QED BY <1>2, <1>7, <2>1 DEF Load
<1>8. CASE Insert(i)
    <2>1. UpdatesGood'
        BY <1>8, MovedGood, LoadedGood, AnsweredGood DEF Insert, Chatting, Places, InProcess
    <2>2. Good(Changed(Defaults, update[i].what))
        BY <1>1, ChangedGood, DefaultsGood DEF Handling
    <2>3. CASE row' = With(row, update[i].chat, Changed(Defaults, update[i].what))
        BY <1>1, <1>3, <1>8, <2>1, <2>2, <2>3, RowsStayGood DEF Insert, Chatting, Handling
    <2>4. CASE UNCHANGED row
        BY <1>2, <1>8, <2>1, <2>4 DEF Insert
    <2>5. QED BY <1>8, <2>3, <2>4 DEF Insert
<1>9. CASE Commit(i)
    <2> DEFINE u == update[i]
               new == Merged(row[u.chat], u.copy, Changed(u.copy, u.what))
    <2>1. UpdatesGood'
        BY <1>9, MovedGood DEF Commit, Chatting, Places, InProcess
    <2>2. row' = [row EXCEPT ![u.chat] = new]
        BY <1>9 DEF Commit
    <2>3. RowsGood'
        <3>1. CASE u.chat \notin DOMAIN row
            BY <2>2, <3>1 DEF RowsGood, Chatting
        <3>2. CASE u.chat \in DOMAIN row
            <4>1. Good(Changed(u.copy, u.what))
                BY <1>1, ChangedGood DEF Handling
            <4>2. Good(row[u.chat])
                BY <3>2 DEF Chatting, RowsGood
            <4>3. Good(new)
                BY <4>1, <4>2, MergedGood
            <4>4. QED BY <1>1, <2>2, <4>3, RowsStayGood DEF Handling, Chatting
        <3>3. QED BY <3>1, <3>2
    <2>4. QED BY <1>3, <1>9, <2>1, <2>3 DEF Commit
<1>10. CASE Reply(i) \/ Raise(i)
    <2>1. UpdatesGood'
        BY <1>10, AnsweredGood DEF Reply, Raise, Chatting
    <2>2. QED BY <1>2, <1>10, <2>1 DEF Reply, Raise
<1>11. QED BY <1>4, <1>5, <1>6, <1>7, <1>8, <1>9, <1>10 DEF Handle

LEMMA CrashGood ==
    ASSUME Chatting, Crash
    PROVE  Chatting'
<1>1. \A i \in Sent : Handling(Put(update[i], "held", EnvSecret, Defaults))
    BY PutGood, DefaultsGood, SecretAssumption DEF Chatting, UpdatesGood, Places
<1>2. UpdatesGood'
    BY <1>1 DEF Crash, Chatting, UpdatesGood, Sent
<1>3. QED BY <1>2 DEF Crash, Chatting, RowsGood

LEMMA RefusedGood ==
    ASSUME Chatting, NEW c \in Chats, Refused(c)
    PROVE  Chatting'
<1>1. UpdatesGood'
    BY DEF Refused, Chatting, UpdatesGood, Sent
<1>2. CASE c \in Users \ silenced /\ silenced' = silenced \cup {c} /\ UNCHANGED row
    BY <1>1, <1>2 DEF Chatting, RowsGood
<1>3. CASE row' = [row EXCEPT ![c].active = FALSE] /\ UNCHANGED silenced
    <2>1. RowsGood'
        BY <1>3 DEF Chatting, RowsGood, Good, Row
    <2>2. QED BY <1>1, <1>3, <2>1 DEF Chatting
<1>4. QED BY <1>2, <1>3 DEF Refused

LEMMA StepChatting == IInv /\ [Next]_vars => Chatting'
<1>1. SUFFICES ASSUME IInv, [Next]_vars PROVE Chatting'
    OBVIOUS
<1>2. ASSUME UNCHANGED <<row, update, silenced>> PROVE Chatting'
    BY <1>1, <1>2 DEF IInv, Chatting, RowsGood, UpdatesGood, Sent
<1>3. ASSUME NEW u \in scenario.sent, Send(u) PROVE Chatting'
    BY <1>1, <1>3, SendGood DEF IInv
<1>4. ASSUME NEW i \in Sent, Post(i) \/ Handle(i) PROVE Chatting'
    BY <1>1, <1>4, HandleGood DEF IInv
<1>5. ASSUME NEW new \in Secrets, Rotate(new) PROVE Chatting'
    BY <1>2, <1>5 DEF Rotate
<1>6. CASE Land \/ Shrink \/ Revert \/ Boot
    BY <1>2, <1>6 DEF Land, Shrink, Revert, Boot
<1>7. CASE Crash
    BY <1>1, <1>7, CrashGood DEF IInv
<1>8. ASSUME NEW s \in scenario.signals, FanOut(s) PROVE Chatting'
    BY <1>2, <1>8 DEF FanOut
<1>9. ASSUME NEW c \in Chats, Refused(c) PROVE Chatting'
    BY <1>1, <1>9, RefusedGood DEF IInv
<1>10. CASE UNCHANGED vars
    BY <1>2, <1>10 DEF vars
<1>11. QED
    BY <1>1, <1>3, <1>4, <1>5, <1>6, <1>7, <1>8, <1>9, <1>10 DEF Next

----------------------------------------------------------------------------
(* The secret.                                                               *)

LEMMA StepSigning == Signing /\ [Next]_vars => Signing'
<1>1. SUFFICES ASSUME Signing, [Next]_vars PROVE Signing'
    OBVIOUS
<1>2. ASSUME UNCHANGED <<signing, accepted, up, rotation, estranged>> PROVE Signing'
    BY <1>1, <1>2 DEF Signing
<1>3. NoRotation \in [at : {"idle", "called", "landed"}, old : SUBSET Secrets, new : Secrets]
    BY SecretAssumption DEF NoRotation
<1>4. ASSUME NEW new \in Secrets, Rotate(new) PROVE Signing'
    BY <1>1, <1>4 DEF Rotate, Signing
<1>5. CASE Land
    BY <1>1, <1>5 DEF Land, Signing
<1>6. CASE Shrink
    BY <1>1, <1>3, <1>6 DEF Shrink, Signing, NoRotation
<1>7. CASE Revert
    BY <1>1, <1>3, <1>7 DEF Revert, Signing, NoRotation
<1>8. CASE Crash
    BY <1>1, <1>3, <1>8 DEF Crash, Signing, NoRotation
<1>9. CASE Boot
    BY <1>1, <1>9, SecretAssumption DEF Boot, Signing
<1>10. CASE UNCHANGED webhookVars
    BY <1>2, <1>10 DEF webhookVars
<1>11. CASE Next
    BY <1>4, <1>5, <1>6, <1>7, <1>8, <1>9, <1>10, <1>11
    DEF Next, Handle, Send, Post, Verify, AskAdmin, Load, Insert, Commit, Reply, Raise, FanOut, Refused
<1>12. QED BY <1>1, <1>10, <1>11 DEF vars, webhookVars

LEMMA StepCounting == Counting /\ [Next]_vars => Counting'
<1>1. SUFFICES ASSUME Counting, [Next]_vars PROVE Counting'
    OBVIOUS
<1>2. scenario.rotations \in Nat /\ scenario.crashes \in Nat
    BY <1>1, BoundAssumption DEF Counting
<1>3. CASE UNCHANGED <<scenario, rotations, crashes>>
    BY <1>1, <1>3 DEF Counting
<1>4. ASSUME NEW new \in Secrets, Rotate(new) PROVE Counting'
    BY <1>1, <1>2, <1>4 DEF Rotate, Counting
<1>5. CASE Crash
    BY <1>1, <1>2, <1>5 DEF Crash, Counting
<1>6. CASE Next
    BY <1>3, <1>4, <1>5, <1>6
    DEF Next, Handle, Send, Post, Verify, AskAdmin, Load, Insert, Commit, Reply, Raise, FanOut, Refused,
        Land, Shrink, Revert, Boot, webhookVars
<1>7. QED BY <1>1, <1>3, <1>6 DEF vars, webhookVars

----------------------------------------------------------------------------

LEMMA InitIInv == Init => IInv
<1>1. SUFFICES ASSUME Init PROVE IInv
    OBVIOUS
<1>2. Chatting
    BY <1>1, DefaultsGood DEF Init, Chatting, RowsGood, UpdatesGood, Sent, Ids
<1>3. Signing
    BY <1>1, SecretAssumption DEF Init, Signing, NoRotation
<1>4. Counting
    BY <1>1, BoundAssumption DEF Init, Counting
<1>5. QED BY <1>2, <1>3, <1>4 DEF IInv

\* The invariant behind the theorems below, and what they take from it.
THEOREM Invariance == Spec => []IInv
<1>1. IInv /\ [Next]_vars => IInv'
    BY StepChatting, StepSigning, StepCounting DEF IInv
<1>2. QED BY InitIInv, <1>1, PTL DEF Spec

\* Rows, updates, secrets and the rotation keep their types.
THEOREM TypeCorrect == Spec => []TypeOK
<1>1. IInv => TypeOK
    BY DEF IInv, Chatting, RowsGood, UpdatesGood, Handling, Good, Places, Signing, Counting, TypeOK
<1>2. QED BY Invariance, <1>1, PTL

\* Overlapping taps and commands never leave a list of assets empty.
THEOREM AssetsNeverEmptied == Spec => []NeverEmptied
<1>1. IInv => NeverEmptied
    BY DEF IInv, Chatting, RowsGood, Good, NeverEmptied
<1>2. QED BY Invariance, <1>1, PTL

\* What Telegram signs is let in, unless a call to Telegram has failed and left its
\* secret unknown.
THEOREM TelegramHeard == Spec => []Heard
<1>1. IInv => Heard
    BY DEF IInv, Signing, Heard
<1>2. QED BY Invariance, <1>1, PTL

----------------------------------------------------------------------------
(* The fan-out and the trace.                                                *)

\* Who a signal is for, by the settings the fan-out saw.
ToldBy(s, r, off) ==
    {u \in Users \cap DOMAIN r : /\ r[u].active /\ u \notin off
                                /\ AssetFilter(r[u].assets, s.asset) /\ r[u].floor <= s.confidence}
    \cup {g \in Groups \cap DOMAIN r : /\ r[g].active
                                       /\ AssetFilter(r[g].assets, s.asset) /\ r[g].floor <= s.confidence}

AlertTold ==
    alert # <<>> => /\ alert.told = ToldBy(alert.signal, alert.row, alert.silenced)
                    /\ alert.signal.confidence # Null

LEMMA StepAlertTold == AlertTold /\ [Next]_vars => AlertTold'
<1>1. SUFFICES ASSUME AlertTold, [Next]_vars PROVE AlertTold'
    OBVIOUS
<1>2. CASE UNCHANGED alert
    BY <1>1, <1>2 DEF AlertTold
<1>3. ASSUME NEW s \in scenario.signals, FanOut(s) PROVE AlertTold'
    <2>1. /\ alert'.signal = s /\ alert'.told = MatchUsers(s) \cup MatchGroups(s)
          /\ alert'.row = row /\ alert'.silenced = silenced
        BY <1>3 DEF FanOut
    <2>2. MatchUsers(s) \cup MatchGroups(s) = ToldBy(s, row, silenced)
        BY DEF MatchUsers, MatchGroups, ToldBy
    <2>3. s.confidence # Null
        BY <1>3 DEF FanOut
    <2>4. QED BY <2>1, <2>2, <2>3 DEF AlertTold
<1>4. CASE Next
    BY <1>2, <1>3, <1>4
    DEF Next, Handle, Send, Post, Verify, AskAdmin, Load, Insert, Commit, Reply, Raise, Refused,
        Rotate, Land, Shrink, Revert, Crash, Boot
<1>5. QED BY <1>1, <1>2, <1>4 DEF vars

\* A chat that is not refused by any gate has no reason; each gate has one.
LEMMA ReasonsNamed ==
    ASSUME NEW active \in BOOLEAN, NEW channel \in BOOLEAN,
           NEW asset \in BOOLEAN, NEW confidence \in BOOLEAN,
           ~(active /\ channel /\ asset /\ confidence)
    PROVE  FirstFailing(active, channel, asset, confidence) # "none"
BY DEF FirstFailing

\* Counting the assets is asking whether there are any.
LEMMA SameAssetFilter ==
    ASSUME NEW assets \in SUBSET Assets, NEW asset
    PROVE  AssetMatches(assets, asset) <=> AssetFilter(assets, asset)
<1>1. Cardinality(assets) = 0 <=> assets = {}
    BY DefaultAssumption, FS_Subset, FS_EmptySet
<1>2. QED BY <1>1 DEF AssetMatches, AssetFilter

LEMMA TraceAgrees ==
    ASSUME Chatting, NEW s, s.confidence # Null, NEW c \in DOMAIN row
    PROVE  /\ Trace(s)[c].matched <=> c \in ToldBy(s, row, silenced)
           /\ Trace(s)[c].reason = "none" <=> Trace(s)[c].matched
<1>1. row[c] \in Row /\ row[c].assets \in SUBSET Assets /\ row[c].active \in BOOLEAN
    BY DEF Chatting, RowsGood, Good, Row
<1>2. AssetMatches(row[c].assets, s.asset) <=> AssetFilter(row[c].assets, s.asset)
    BY <1>1, SameAssetFilter
<1>3. ConfidenceMatches(row[c].floor, s.confidence) <=> row[c].floor <= s.confidence
    BY DEF ConfidenceMatches
<1>4. /\ AssetMatches(row[c].assets, s.asset) \in BOOLEAN
      /\ ConfidenceMatches(row[c].floor, s.confidence) \in BOOLEAN
    BY DEF AssetMatches, ConfidenceMatches
<1>5. c \in Users \/ c \in Groups
    BY DEF Chatting, RowsGood, Chats
<1>6. CASE c \in Users
    <2> DEFINE asset == AssetMatches(row[c].assets, s.asset)
               confidence == ConfidenceMatches(row[c].floor, s.confidence)
               m == row[c].active /\ c \notin silenced /\ asset /\ confidence
               reason == IF m THEN "none" ELSE FirstFailing(row[c].active, c \notin silenced, asset, confidence)
    <2>1. Trace(s)[c] = [matched |-> m, reason |-> reason]
        BY <1>6 DEF Trace, TraceUser
    <2>2. c \in ToldBy(s, row, silenced) <=> m
        <3>1. c \notin Groups
            BY <1>6, ChatAssumption
        <3>2. QED BY <1>2, <1>3, <1>6, <3>1 DEF ToldBy
    <2>3. reason = "none" <=> m
        BY <1>1, <1>4, ReasonsNamed
    <2>4. QED
        <3> HIDE DEF m, reason
        <3>1. Trace(s)[c].matched = m
            BY <2>1
        <3>2. Trace(s)[c].reason = reason
            BY <2>1
        <3>3. Trace(s)[c].matched <=> c \in ToldBy(s, row, silenced)
            BY <2>2, <3>1, Zenon
        <3>4. m <=> Trace(s)[c].reason = "none"
            BY <2>3, <3>2, Zenon
        <3>5. Trace(s)[c].matched <=> Trace(s)[c].reason = "none"
            BY <3>1, <3>4, Zenon
        <3>6. QED BY <3>3, <3>5
<1>7. CASE c \in Groups
    <2> DEFINE asset == AssetMatches(row[c].assets, s.asset)
               confidence == ConfidenceMatches(row[c].floor, s.confidence)
               m == row[c].active /\ asset /\ confidence
               reason == IF m THEN "none" ELSE FirstFailing(row[c].active, TRUE, asset, confidence)
    <2>1. c \notin Users
        BY <1>7, ChatAssumption
    <2>2. Trace(s)[c] = [matched |-> m, reason |-> reason]
        BY <2>1 DEF Trace, TraceGroup
    <2>3. c \in ToldBy(s, row, silenced) <=> m
        BY <1>2, <1>3, <1>7, <2>1 DEF ToldBy
    <2>4. reason = "none" <=> m
        BY <1>1, <1>4, ReasonsNamed
    <2>5. QED
        <3> HIDE DEF m, reason
        <3>1. Trace(s)[c].matched = m
            BY <2>2
        <3>2. Trace(s)[c].reason = reason
            BY <2>2
        <3>3. Trace(s)[c].matched <=> c \in ToldBy(s, row, silenced)
            BY <2>3, <3>1, Zenon
        <3>4. m <=> Trace(s)[c].reason = "none"
            BY <2>4, <3>2, Zenon
        <3>5. Trace(s)[c].matched <=> Trace(s)[c].reason = "none"
            BY <3>1, <3>4, Zenon
        <3>6. QED BY <3>3, <3>5
<1>8. QED BY <1>5, <1>6, <1>7

\* The trace agrees with the fan-out about every chat whose settings are still what
\* the fan-out saw, whatever has changed elsewhere.
THEOREM TraceAlwaysExplains == Spec => []TraceExplains
<1>1. Chatting /\ AlertTold => TraceExplains
    <2>1. SUFFICES ASSUME Chatting, AlertTold, alert # <<>>,
                          NEW c \in DOMAIN row \cap DOMAIN alert.row,
                          row[c] = alert.row[c], c \in silenced <=> c \in alert.silenced
                   PROVE  LET t == Trace(alert.signal)[c]
                          IN (t.matched <=> c \in alert.told) /\ (t.reason = "none" <=> t.matched)
        BY DEF TraceExplains
    <2>2. alert.signal.confidence # Null /\ alert.told = ToldBy(alert.signal, alert.row, alert.silenced)
        BY <2>1 DEF AlertTold
    <2>3. c \in alert.told <=> c \in ToldBy(alert.signal, row, silenced)
        BY <2>1, <2>2 DEF ToldBy
    <2>4. QED BY <2>1, <2>2, <2>3, TraceAgrees
<1>2. Init => AlertTold
    BY DEF Init, AlertTold
<1>3. IInv => Chatting
    BY DEF IInv
<1>4. QED BY Invariance, StepAlertTold, <1>1, <1>2, <1>3, PTL DEF Spec
=============================================================================
