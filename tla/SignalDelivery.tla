-------------------------- MODULE SignalDelivery --------------------------
(***************************************************************************)
(* From a persisted signal to Telegram messages: fan_out_signal and         *)
(* send_pending_deliveries (pipeline/delivery.py) as the scheduler runs     *)
(* them, the delivery reaper (fail_stuck_deliveries), and the bot handlers  *)
(* that register recipients and switch them on and off.                     *)
(*                                                                          *)
(* Every job runs in one transaction that its wrapper commits at the end.   *)
(* The send worker loads its rows once, sends for as long as it takes, and  *)
(* flushes at the end: until then nobody sees what it has done, and nothing *)
(* of it is kept when the tick fails.  As in OrderLifecycle, its UPDATEs    *)
(* write, by id, only the columns that differ from what it loaded.          *)
(*                                                                          *)
(* Preferences and confidence thresholds decide which active recipients     *)
(* match; here any subset of them may.  One basic group may become a        *)
(* supergroup, which has a chat id of its own.  Time is left out: a backoff  *)
(* may elapse, and an untried row be old enough for the reaper, at any time. *)
(* How a signal becomes due for fan-out, and expires, is left out as well.   *)
(***************************************************************************)
EXTENDS Naturals, FiniteSets

CONSTANTS
    Signals,
    Channels,     \* the users with a Telegram channel, by their private chat
    Groups,       \* rows of telegram_groups, once registered
    BasicChats,   \* chat ids of basic groups
    SuperChat,    \* the chat id of the supergroup one of them may become
    MaxAttempts,  \* delivery_max_attempts
    MaxMatched,   \* bound: recipients that match one signal
    MaxCrashes    \* bound: ticks cut short by a crash or a lost connection

Recipients == Channels \cup Groups
Deliveries == Signals \X Recipients
GroupChats == BasicChats \cup {SuperChat}
NoChat == "no chat"

ASSUME ChatAssumption == SuperChat \notin BasicChats /\ NoChat \notin GroupChats
ASSUME KindAssumption == Channels \cap Groups = {}
ASSUME BoundAssumption == MaxAttempts \in Nat \ {0} /\ MaxMatched \in Nat /\ MaxCrashes \in Nat

DeliveryStatus == {"absent", "pending", "delivered", "failed"}
Row == [status : DeliveryStatus, attempts : 0 .. MaxAttempts]
NoRow == [status |-> "absent", attempts |-> 0]

VARIABLES
    alerted,  \* signals that have been fanned out
    on,       \* users.is_active / telegram_groups.is_active
    open,     \* notification_channels.is_active
    chat,     \* telegram_groups.chat_id, NoChat before the row is inserted
    moved,    \* the basic chat that has become the supergroup, or NoChat
    row,      \* signal_deliveries, as committed
    send,     \* the transaction of the send worker
    reached,  \* deliveries whose message has reached the recipient
    excused,  \* those of them whose success the program could not record
    crashes

targetVars == <<on, open, chat, moved>>
ghosts == <<reached, excused, crashes>>
vars == <<alerted, targetVars, row, send, ghosts>>

\* What the tick has loaded (its rows and the recipients that were active) and
\* what it makes of it: done deliveries have had their send, flushed ones of them
\* are written and locked, though not committed; it switches recipients off and
\* follows groups to SuperChat.
IdleSend == [at |-> "idle", todo |-> {}, done |-> {}, flushed |-> {},
             view |-> [d \in Deliveries |-> NoRow], active |-> {}, off |-> {}, follow |-> {}]

TypeOK ==
    /\ alerted \subseteq Signals
    /\ on \in [Recipients -> BOOLEAN] /\ open \in [Channels -> BOOLEAN]
    /\ chat \in [Groups -> GroupChats \cup {NoChat}]
    /\ moved \in BasicChats \cup {NoChat}
    /\ row \in [Deliveries -> Row]
    /\ send \in [at : {"idle", "sending"}, todo : SUBSET Deliveries,
                 done : SUBSET Deliveries, flushed : SUBSET Deliveries,
                 view : [Deliveries -> Row], active : SUBSET Recipients,
                 off : SUBSET Recipients, follow : SUBSET Groups]
    /\ reached \subseteq Deliveries /\ excused \subseteq Deliveries
    /\ crashes \in 0 .. MaxCrashes

Init ==
    /\ alerted = {}
    /\ on = [r \in Recipients |-> r \in Channels]
    /\ open = [u \in Channels |-> TRUE]
    /\ chat = [g \in Groups |-> NoChat] /\ moved = NoChat
    /\ row = [d \in Deliveries |-> NoRow]
    /\ send = IdleSend
    /\ reached = {} /\ excused = {} /\ crashes = 0

---------------------------------------------------------------------------
\* Fan-out.

\* The recipients _match_users and _match_groups may return.
Matchable == {u \in Channels : on[u] /\ open[u]} \cup {g \in Groups : on[g]}

\* fan_out_signal and its wrapper's commit: a row for each recipient that matches,
\* and ALERTED also when nobody does.  (Its INSERT keeps a row that is there.)
FanOut(s) ==
    /\ s \notin alerted
    /\ alerted' = alerted \cup {s}
    /\ \E matched \in SUBSET Matchable :
          /\ Cardinality(matched) <= MaxMatched
          /\ row' = [d \in Deliveries |->
                        IF d[1] = s /\ d[2] \in matched /\ row[d].status = "absent"
                        THEN [status |-> "pending", attempts |-> 0] ELSE row[d]]
    /\ UNCHANGED <<targetVars, send, ghosts>>

---------------------------------------------------------------------------
\* The send worker.

Due(tried) == {d \in Deliveries : row[d].status = "pending" /\ (row[d].attempts > 0 <=> tried)}

\* The worker loads the PENDING rows that are untried and those past their
\* backoff, and with them their channels and groups.
SendLoad ==
    /\ send.at = "idle"
    /\ \E retries \in SUBSET Due(TRUE) :
          LET due == Due(FALSE) \cup retries IN
          /\ due # {}
          /\ send' = [IdleSend EXCEPT !.at = "sending", !.todo = due,
                         !.view = [d \in Deliveries |-> IF d \in due THEN row[d] ELSE NoRow],
                         !.active = {d[2] : d \in {e \in due :
                                        IF e[2] \in Channels THEN open[e[2]] ELSE on[e[2]]}}]
    /\ UNCHANGED <<alerted, targetVars, row, ghosts>>

\* d is the next row, its attempt counted, and its status is now st.
Attempt(d, st) ==
    /\ send.at = "sending" /\ d \in send.todo
    /\ send' = [send EXCEPT !.todo = @ \ {d}, !.done = @ \cup {d},
                   !.view[d] = [status |-> st, attempts |-> @.attempts + 1]]

\* A chat that became a supergroup answers with its new id, always.
IsMigrated(d) == d[2] \in Groups \ send.follow /\ chat[d[2]] = moved

Reaches(d) == reached' = reached \cup {d}

\* (mutant) A send that succeeds leaves the row for the next tick.
SendSucceedsPending(d) ==
    /\ ~IsMigrated(d) /\ send.view[d].attempts + 1 < MaxAttempts
    /\ Attempt(d, "pending") /\ Reaches(d)
    /\ UNCHANGED <<alerted, targetVars, row, excused, crashes>>

SendSucceeds(d) ==
    /\ ~IsMigrated(d)
    /\ Attempt(d, "delivered") /\ Reaches(d)
    /\ UNCHANGED <<alerted, targetVars, row, excused, crashes>>

\* (mutant) The last failed attempt counts as delivered.
AfterErrorDelivered(d) ==
    IF send.view[d].attempts + 1 >= MaxAttempts THEN "delivered" ELSE "pending"

\* A transient error is retried until the attempts are used up.
AfterError(d) == IF send.view[d].attempts + 1 >= MaxAttempts THEN "failed" ELSE "pending"

\* Rate limit, 5xx or network, also when Telegram did deliver the message.
SendErrs(d) ==
    /\ Attempt(d, AfterError(d))
    /\ \/ UNCHANGED <<reached, excused>>
       \/ ~IsMigrated(d) /\ Reaches(d) /\ excused' = excused \cup {d}
    /\ UNCHANGED <<alerted, targetVars, row, crashes>>

\* Bot blocked or chat not found: no more retries, and the channel or group is
\* deactivated.
SendRefused(d) ==
    /\ ~IsMigrated(d)
    /\ send.at = "sending" /\ d \in send.todo
    /\ send' = [send EXCEPT !.todo = @ \ {d}, !.done = @ \cup {d},
                   !.view[d] = [status |-> "failed", attempts |-> @.attempts + 1],
                   !.off = @ \cup ({d[2]} \cap send.active)]
    /\ UNCHANGED <<alerted, targetVars, row, ghosts>>

Migrate(d, offNow, followNow) ==
    /\ send.at = "sending" /\ d \in send.todo /\ IsMigrated(d)
    /\ send' = [send EXCEPT !.todo = @ \ {d}, !.done = @ \cup {d}, !.flushed = send.done,
                   !.view[d] = [status |-> "failed", attempts |-> @.attempts + 1],
                   !.off = @ \cup offNow, !.follow = @ \cup followNow]
    /\ UNCHANGED <<alerted, targetVars, row, ghosts>>

\* (mutant) The new chat id is written without a look at the other groups.
SendMigratedBlindly(d) == Migrate(d, {}, {d[2]})

\* The group has become a supergroup: follow it, unless the supergroup has a
\* row of its own by now.  That query flushes what the tick has done so far.
SendMigrated(d) ==
    IF \E g \in Groups \ {d[2]} : chat[g] = SuperChat
    THEN Migrate(d, {d[2]} \cap send.active, {})
    ELSE Migrate(d, {}, {d[2]})

\* The chat id the tick is about to write: another row has taken it meanwhile.
Collision == \E g \in send.follow : \E h \in Groups \ {g} : chat[h] = SuperChat

\* The final flush and the wrapper's commit.
SendCommit ==
    /\ send.at = "sending" /\ send.todo = {} /\ ~Collision
    /\ row' = [d \in Deliveries |->
                  IF d \notin send.done THEN row[d]
                  ELSE [status |-> IF send.view[d].status = "pending" THEN row[d].status
                                   ELSE send.view[d].status,
                        attempts |-> send.view[d].attempts]]
    /\ on' = [r \in Recipients |-> on[r] /\ (r \in Channels \/ r \notin send.off)]
    /\ open' = [u \in Channels |-> open[u] /\ u \notin send.off]
    /\ chat' = [g \in Groups |-> IF g \in send.follow THEN SuperChat ELSE chat[g]]
    /\ send' = IdleSend
    /\ UNCHANGED <<alerted, moved, ghosts>>

\* The tick fails or the process dies: its sends have happened, and no row
\* tells.
Forgets ==
    /\ send' = IdleSend
    /\ excused' = excused \cup (send.done \cap reached)
    /\ UNCHANGED <<alerted, targetVars, row, reached>>

\* The flush violates the unique chat id.
SendCollides ==
    /\ send.at = "sending" /\ send.todo = {} /\ Collision
    /\ Forgets
    /\ UNCHANGED crashes

Crash ==
    /\ crashes < MaxCrashes
    /\ send.at = "sending"
    /\ Forgets
    /\ crashes' = crashes + 1

---------------------------------------------------------------------------
\* The delivery reaper.

Fail(stuck) ==
    /\ stuck # {} /\ stuck \cap send.flushed = {}
    /\ row' = [d \in Deliveries |-> IF d \in stuck THEN [row[d] EXCEPT !.status = "failed"]
                                    ELSE row[d]]
    /\ UNCHANGED <<alerted, targetVars, send, ghosts>>

\* (mutant) Old rows fail whatever has become of them.
FailStuckAny == \E stuck \in SUBSET {d \in Deliveries : row[d].attempts > 0} : Fail(stuck)

\* fail_stuck_deliveries: one UPDATE over the old ones of the PENDING rows never
\* tried.  It waits for the rows the send worker has flushed.
FailStuck == \E stuck \in SUBSET Due(FALSE) : Fail(stuck)

---------------------------------------------------------------------------
\* The bot.

LockedGroups == {g \in send.off \cap Groups : \E s \in Signals : <<s, g>> \in send.flushed}

\* /start and /subscribe in a private chat: the user, not the channel.
Start(u) ==
    /\ on' = [on EXCEPT ![u] = TRUE]
    /\ UNCHANGED <<alerted, open, chat, moved, row, send, ghosts>>

\* The bot is added to a chat, or /start is sent there: the chat's row is
\* switched on, or inserted.
GroupAdded(g, c) ==
    /\ IF c = SuperChat THEN moved # NoChat ELSE moved # c
    /\ chat[g] = c \/ (chat[g] = NoChat /\ \A h \in Groups : chat[h] # c)
    /\ g \notin LockedGroups
    /\ chat' = [chat EXCEPT ![g] = c]
    /\ on' = [on EXCEPT ![g] = TRUE]
    /\ UNCHANGED <<alerted, open, moved, row, send, ghosts>>

\* /unsubscribe, or the bot is removed from the group.
SwitchedOff(r) ==
    /\ on[r] /\ r \notin LockedGroups
    /\ on' = [on EXCEPT ![r] = FALSE]
    /\ UNCHANGED <<alerted, open, chat, moved, row, send, ghosts>>

\* At Telegram: a basic group becomes the supergroup.
GroupMigrates(c) ==
    /\ moved = NoChat
    /\ moved' = c
    /\ UNCHANGED <<alerted, on, open, chat, row, send, ghosts>>

---------------------------------------------------------------------------
SendRow(d) == SendSucceeds(d) \/ SendErrs(d) \/ SendRefused(d) \/ SendMigrated(d)

Next ==
    \/ \E s \in Signals : FanOut(s)
    \/ SendLoad \/ SendCommit \/ SendCollides \/ Crash
    \/ \E d \in Deliveries : SendRow(d)
    \/ FailStuck
    \/ \E u \in Channels : Start(u)
    \/ \E g \in Groups, c \in GroupChats : GroupAdded(g, c)
    \/ \E r \in Recipients : SwitchedOff(r)
    \/ \E c \in BasicChats : GroupMigrates(c)

Spec == Init /\ [][Next]_vars

\* APScheduler runs the send worker for ever; a send ends (the client's timeout); a
\* backoff elapses, so that some later tick loads the row.  Nothing makes the
\* delivery reaper run, or anybody use the bot.
SendLoadOf(d) == SendLoad /\ d \in send'.todo

Fairness ==
    /\ WF_vars(SendCommit) /\ WF_vars(SendCollides)
    /\ \A d \in Deliveries : WF_vars(SendRow(d)) /\ SF_vars(SendLoadOf(d))

FairSpec == Spec /\ Fairness

---------------------------------------------------------------------------
\* A row says DELIVERED only if the message reached the recipient.
DeliveredWasSent == \A d \in Deliveries : row[d].status = "delivered" => d \in reached

\* A message that has reached its recipient is sent again only if Telegram's answer
\* was lost or the tick that sent it was rolled back: overlaps with the reaper, the
\* fan-out and the bot never cause a duplicate.
DuplicatesExcused ==
    [][\A d \in Deliveries :
          (d \in send'.done \ send.done /\ d \in reached) => d \in excused]_vars

\* A row that waits for a retry has an attempt left.
PendingHasAttempts ==
    \A d \in Deliveries : row[d].status = "pending" => row[d].attempts < MaxAttempts

\* DELIVERED is final, also for the reaper's UPDATE.
DeliveredIsFinal ==
    [][\A d \in Deliveries : row[d].status = "delivered" => row'[d].status = "delivered"]_vars

\* A delivery does not stay PENDING for ever: crashes, lost answers and a chat id
\* taken by another row cost ticks, never all of them (issue #77).
PendingSettles ==
    \A d \in Deliveries : (row[d].status = "pending") ~> (row[d].status # "pending")

\* Refuted: /start "flips them back on", so a signal can reach the user again.
StartReachesUser == [][\A u \in Channels : Start(u) => u \in Matchable']_vars

===========================================================================
