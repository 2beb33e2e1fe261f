---------------------------- MODULE MCBotUpdates ----------------------------
(***************************************************************************)
(* A small bot for TLC.  The scenarios: everything that can be sent, two     *)
(* updates overlapping; a signal fanned out while preferences change; the    *)
(* secret rotated, and a crash, while updates are posted.                    *)
(***************************************************************************)
EXTENDS BotUpdates

By(chat, sender, whats) == [chat : {chat}, what : whats, sender : {sender}]
Of(kinds) == [kind : kinds]

MCAssetLists == {{a} : a \in Assets}
MCScenarios ==
    {[sent |-> UNION {By(c, "admin", Contents(c)) : c \in Groups}
                 \cup UNION {By(c, "member", Taps \cup Of({"show", "malformed"})) : c \in Groups}
                 \cup UNION {By(c, "member", Taps \cup Of({"start", "unsubscribe"})) : c \in Users},
      signals |-> {}, rotations |-> 0, crashes |-> 0],
     [sent |-> UNION {By(c, "admin", [kind : {"toggle"}, asset : Assets]
                                        \cup Of({"start", "raise", "pause"})) : c \in Chats},
      signals |-> {[asset |-> Market, confidence |-> DefaultFloor, confirmation |-> Null]}
                     \cup [asset : Assets, confidence : {Null, DefaultFloor}, confirmation : {0, 1}],
      rotations |-> 0, crashes |-> 0],
     [sent |-> UNION {By(c, "admin", Of({"show", "unsubscribe", "raise"})) : c \in Groups},
      signals |-> {}, rotations |-> 2, crashes |-> 1]}
=============================================================================
