----------------------------- MODULE RecordsMC -----------------------------
(* The keeping of records, part by part: the migration of a legacy database,    *)
(* the carry of unsent intents, what the WhatsApp client writes of what it      *)
(* receives, a Google thread's live events and backfills, the ways to send, and *)
(* a Slack channel.  A behaviour is about one of them; they share no state, and *)
(* those that it is not about stay where they begin.                            *)
EXTENDS Transform, WhatsAppReceive, GoogleSync, SendPaths, SlackRiver, TLC

CONSTANT Sorts    \* the parts looked at

VARIABLE sort    \* what the behaviour is about

\* A database with one row that is not as usual, or one scheduled message.
Usual == [named |-> TRUE, home |-> TRUE, platform |-> "own", at |-> 2, remote |-> "r2",
          sender |-> "known", media |-> FALSE, transcript |-> FALSE, reactions |-> {}]
First == [Usual EXCEPT !.remote = "r1"]
Late == [Usual EXCEPT !.remote = "r3", !.at = 3]
Unusual ==
    {[Usual EXCEPT !.remote = r, !.at = t, !.transcript = x, !.media = d] :
        r \in {"", "r1", "r2"}, t \in {0, 1, 2}, x \in BOOLEAN, d \in BOOLEAN}
    \cup {[First EXCEPT !.reactions = e, !.home = h] :
        e \in SUBSET {"blank", "zero", "me", "anon", "alien"} \cup {{"garbled"}}, h \in BOOLEAN}
    \cup {[First EXCEPT !.named = n, !.home = h, !.platform = p, !.sender = w, !.transcript = x] :
        n \in BOOLEAN, h \in BOOLEAN, p \in {"own", "other", "unknown"},
        w \in {"none", "alien"}, x \in BOOLEAN}
TheStores == {(1 :> row @@ 2 :> Usual @@ 3 :> Late) : row \in Unusual}
Plan == [home |-> TRUE, due |-> TRUE, file |-> "none", status |-> "pending"]
Planned(p) == "p" :> p @@ "q" :> [Plan EXCEPT !.status = "sending"]
TheSchedules ==
    {Planned(p) : p \in {[Plan EXCEPT !.status = s] : s \in {"pending", "sending", "sent", "unheard"}}
                   \cup {[Plan EXCEPT !.file = f] : f \in {"full", "empty"}}
                   \cup {[Plan EXCEPT !.home = FALSE], [Plan EXCEPT !.due = FALSE]}}
OneOddity ==
    /\ timers = Planned(Plan) \/ (legacy[1] = First /\ network = "sms")
    /\ network = "slack" => legacy[1].media
    /\ legacy[1].remote # "r1" \/ timers # Planned(Plan) => unread = 1
Steady ==
    /\ network = "sms" /\ legacy = (1 :> First @@ 2 :> Usual @@ 3 :> Late)
    /\ timers = Planned(Plan) /\ unread = 0
NoCarry == [claims |-> [i \in Intents |-> [state |-> "sent", resolves |-> TRUE, payload |-> "text"]],
            rows |-> [i \in Intents |-> Nil], todo |-> {}, told |-> {}, passes |-> 0, stage |-> "idle"]

\* Photos whose bytes were not there: one of the user's in a direct chat, and
\* one of a peer's in a group.
Photo == [group |-> FALSE, own |-> TRUE, photo |-> TRUE, at |-> 2]
OnTheWire == "p" :> Photo @@ "g" :> [Photo EXCEPT !.group = TRUE, !.own = FALSE]

\* The phone's messages: an attachment or a text, then a tapback or the echo of
\* a send.
TheScripts == {<<"in", "untagged">>, <<"mms", "tapback">>, <<"mms", "untagged">>}
TheEchoes == 2 :> 1
TheSyncBudget == [runs |-> 1, oddities |-> 1]

\* Two messages under one key, or two approvals of one draft; and the draft's
\* text from the command line.
TheKey == CHOOSE k \in SendKeys : TRUE
Sent(w, k, t) == [way |-> w, key |-> k, draft |-> CHOOSE d \in Drafts : TRUE, text |-> t]
ThePlays ==
    {1 :> Sent(p[1], TheKey, "s") @@ 2 :> Sent(p[1], TheKey, p[2]) :
        p \in {<<"web", "s">>, <<"agent", "t">>}}
    \cup {1 :> Sent("draft", NoKey, p[1]) @@ 2 :> Sent(p[2], NoKey, "s") :
        p \in {<<"s", "draft">>, <<"s", "cli">>}}

\* A channel of plain posts, and one with a reply and a post with nothing to show.
TheChannels == {<<"peer", "peer", "peer">>, <<"peer", "reply", "blank">>}

RecordsInit ==
    /\ sort \in Sorts
    /\ sort = "send" \/ (mode = "legacy" /\ play = CHOOSE p \in Plays : TRUE)
    /\ drafts = [d \in Drafts |-> "s"]
    /\ sort = "migration" \/ Steady
    /\ sort = "carry" \/ carry = NoCarry
    /\ sort = "google" \/ kinds = CHOOSE k \in Scripts : TRUE
    /\ files = [db |-> LegacyRows \ {1, LateRow}, wal |-> {1}]
    /\ TransformInit /\ OneOddity /\ WaInit /\ SyncInit /\ SendInit /\ SlackInit
    /\ sort = "slack" \/ channel.kind = CHOOSE k \in PostKinds : TRUE
RecordsNext ==
    \/ sort = "migration" /\ MigrateNext /\ UNCHANGED <<sort, waVars, syncVars, sendVars, slackVars>>
    \/ sort = "carry" /\ CarryNext /\ UNCHANGED <<sort, waVars, syncVars, sendVars, slackVars>>
    \/ sort = "whatsapp" /\ WaNext /\ UNCHANGED <<sort, transformVars, syncVars, sendVars, slackVars>>
    \/ sort = "google" /\ SyncNext /\ UNCHANGED <<sort, transformVars, waVars, sendVars, slackVars>>
    \/ sort = "send" /\ SendNext /\ UNCHANGED <<sort, transformVars, waVars, syncVars, slackVars>>
    \/ sort = "slack" /\ SlackNext /\ UNCHANGED <<sort, transformVars, waVars, syncVars, sendVars>>
RecordsVars == <<sort, transformVars, waVars, syncVars, sendVars, slackVars>>
RecordsSpec == RecordsInit /\ [][RecordsNext]_RecordsVars

\* Every part keeps its types.
RecordsTypeOK == TransformTypeOK /\ WaTypeOK /\ SyncTypeOK /\ SendTypeOK /\ SlackTypeOK
=============================================================================
