-------------------------- MODULE WhatsAppReceive --------------------------
(* The WhatsApp client's own record of what it receives, in the legacy      *)
(* store: the live event handler and the history handler, which read a row, *)
(* work on their copy and write it back in separate statements; aliases of  *)
(* a contact merged when the mapping is learned; groups that were left; and *)
(* the requests for photos that arrived without their bytes.                *)
EXTENDS Integers, FiniteSets

CONSTANTS
    WaIds,          \* wire messages
    Wire,           \* what each one is: its chat, author, time and kind
    WaStored,       \* those stored earlier, without their bytes
    Absent,
    MaxWaEvents,    \* live events and history messages
    MaxWaLocal      \* the user's own actions and requests for bytes

WaChats == {"lid", "pn", "group"}
ASSUME WaAssumption ==
    /\ Wire \in [WaIds -> [group : BOOLEAN, own : BOOLEAN, photo : BOOLEAN, at : Nat]]
    /\ WaStored \subseteq WaIds /\ Absent \notin WaIds /\ MaxWaEvents \in Nat /\ MaxWaLocal \in Nat

VARIABLES
    rows,       \* messages by id
    convs,      \* conversations with a row
    mapped,     \* the contact's hidden identity is known to be its number
    left,       \* recentlyLeftGroups
    enriching,  \* a goroutine is fetching a group's name
    hand,       \* the two handlers
    mine,       \* the user's own reaction, leave or send, halfway
    asked,      \* unavailableRepairRequests
    asking,     \* the requests being sent
    granted,    \* those that were sent, for as long as they hold others off
    events, locals
rowVars == <<rows, convs>>
repairVars == <<asked, asking, granted>>
waVars == <<rows, convs, mapped, left, enriching, hand, mine, repairVars, events, locals>>

Handlers == {"live", "history"}
NoEvent == [kind |-> "none", id |-> Absent, raw |-> "pn", full |-> FALSE, value |-> ""]
AtRest == [at |-> "idle", ev |-> NoEvent, chat |-> "pn", copy |-> Absent]
Row == [chat : WaChats, body : {"text", "edited", "photo"}, own : BOOLEAN, media : BOOLEAN,
        status : {"sent", "delivered", "read", "failed"}, by : SUBSET {"me", "peer"}]

WaTypeOK ==
    /\ rows \in [WaIds -> Row \cup {Absent}] /\ convs \subseteq WaChats
    /\ mapped \in BOOLEAN /\ left \in BOOLEAN /\ enriching \in BOOLEAN
    /\ DOMAIN hand = Handlers
    /\ mine.at \in {"idle", "react", "leave", "record"}
    /\ asked \subseteq WaIds /\ granted \subseteq WaIds
    /\ asking \in [{"connect", "request"} -> WaIds \cup {Absent}]
    /\ events \in 0..MaxWaEvents /\ locals \in 0..MaxWaLocal

\* How a message is filed when it arrives or is recorded.
Filed(id, chat, full, status) ==
    [chat |-> chat, body |-> IF Wire[id].photo THEN "photo" ELSE "text", own |-> Wire[id].own,
     media |-> full, status |-> status, by |-> {}]
AliasOf(id) == IF Wire[id].group THEN "group" ELSE "lid"
WaInit ==
    /\ rows = [i \in WaIds |-> IF i \in WaStored THEN Filed(i, AliasOf(i), FALSE, "delivered")
                               ELSE Absent]
    /\ convs = {AliasOf(i) : i \in WaStored}
    /\ mapped = FALSE /\ left = FALSE /\ enriching = FALSE
    /\ hand = [h \in Handlers |-> AtRest]
    /\ mine = [at |-> "idle", id |-> Absent, copy |-> {}]
    /\ asked = {} /\ granted = {}
    /\ asking = [r \in {"connect", "request"} |-> Absent]
    /\ events = 0 /\ locals = 0

Known(id) == rows[id] # Absent
Idle(h) == hand[h].at = "idle"
At(h, step) == hand[h].at = step
Ev(h) == hand[h].ev
Wait(h, step) == hand' = [hand EXCEPT ![h].at = step]
Done(h) == hand' = [hand EXCEPT ![h] = AtRest]

(* --- the store ------------------------------------------------------------ *)

\* canonicalJID; normalizeConversationJID merges what was filed under the alias.
Canonical(raw) == IF raw = "lid" /\ mapped THEN "pn" ELSE raw
MergeAlias(raw) ==
    IF Canonical(raw) # raw /\ raw \in convs
    THEN /\ rows' = [i \in WaIds |-> IF Known(i) /\ rows[i].chat = raw
                                     THEN [rows[i] EXCEPT !.chat = "pn"] ELSE rows[i]]
         /\ convs' = (convs \ {raw}) \cup {"pn"}
    ELSE UNCHANGED rowVars

\* A receipt or a replay that overwrites the media it did not bring.
UpsertedOver(old, new) ==
    IF old = Absent THEN new ELSE [new EXCEPT !.by = IF @ = {} THEN old.by ELSE @]
\* upsertMessageTx: an empty field keeps what the row has.
Upserted(old, new) ==
    IF old = Absent THEN new
    ELSE [new EXCEPT !.media = @ \/ old.media, !.by = IF @ = {} THEN old.by ELSE @]
Upsert(id, new) == rows' = [rows EXCEPT ![id] = Upserted(@, new)]
Erase(id) == rows' = [rows EXCEPT ![id] = Absent]
EraseChat(chat) ==
    /\ rows' = [i \in WaIds |-> IF Known(i) /\ rows[i].chat = chat THEN Absent ELSE rows[i]]
    /\ convs' = convs \ {chat}

(* --- receiving ------------------------------------------------------------ *)

\* handleMessage and handleMessageWithoutIngress, up to the second lookup.
Receive(h) ==
    /\ Idle(h) /\ events < MaxWaEvents /\ events' = events + 1
    /\ \E ev \in [kind : {"message", "react", "revoke", "edit"}, id : WaIds, full : BOOLEAN,
                  raw : WaChats, value : {"", "peer"}] :
        /\ (ev.raw = "group") = Wire[ev.id].group
        /\ ev.full => ev.kind = "message" /\ Wire[ev.id].photo
        /\ ev.value # "" => ev.kind = "react"
        /\ MergeAlias(ev.raw)
        /\ hand' = [hand EXCEPT ![h] =
             IF ev.raw = "group" /\ left THEN AtRest
             ELSE [at |-> ev.kind, ev |-> ev, chat |-> Canonical(ev.raw), copy |-> Absent]]
    /\ UNCHANGED <<mapped, left, enriching, mine, repairVars, locals>>

\* handleReactionMessage: the stored reactions are read, then replaced.
ReadForReaction(h) ==
    /\ At(h, "react")
    /\ hand' = [hand EXCEPT ![h] =
         IF ~Known(Ev(h).id) THEN AtRest
         ELSE [@ EXCEPT !.at = "reacted", !.copy = rows[Ev(h).id]]]
    /\ UNCHANGED <<rowVars, mapped, left, enriching, mine, repairVars, events, locals>>
WithMark(marks, who, add) == IF add THEN marks \cup {who} ELSE marks \ {who}
WriteReaction(h) ==
    /\ At(h, "reacted") /\ Done(h)
    /\ rows' = [rows EXCEPT ![Ev(h).id] =
         IF @ = Absent THEN Absent
         ELSE [@ EXCEPT !.by = WithMark(hand[h].copy.by, "peer", Ev(h).value = "peer")]]
    /\ UNCHANGED <<convs, mapped, left, enriching, mine, repairVars, events, locals>>

\* handleProtocolMessage: a revoked message is deleted, an edited one rewritten.
Revoke(h) ==
    /\ At(h, "revoke") /\ Done(h) /\ Erase(Ev(h).id)
    /\ UNCHANGED <<convs, mapped, left, enriching, mine, repairVars, events, locals>>
ReadForEdit(h) ==
    /\ At(h, "edit")
    /\ hand' = [hand EXCEPT ![h] =
         IF ~Known(Ev(h).id) THEN AtRest
         ELSE [@ EXCEPT !.at = "edited", !.copy = rows[Ev(h).id]]]
    /\ UNCHANGED <<rowVars, mapped, left, enriching, mine, repairVars, events, locals>>
WriteEdit(h) ==
    /\ At(h, "edited") /\ Done(h)
    /\ Upsert(Ev(h).id, [hand[h].copy EXCEPT !.body = "edited"])
    /\ UNCHANGED <<convs, mapped, left, enriching, mine, repairVars, events, locals>>

\* upsertConversationForMessage normalises again; the row is filed where the
\* first normalisation said.
FileConversation(h) ==
    /\ At(h, "message") /\ Wait(h, "file")
    /\ LET raw == Ev(h).raw
           here == Canonical(raw)
       IN /\ IF here # raw /\ raw \in convs
             THEN /\ rows' = [i \in WaIds |-> IF Known(i) /\ rows[i].chat = raw
                                             THEN [rows[i] EXCEPT !.chat = "pn"] ELSE rows[i]]
                  /\ convs' = (convs \ {raw}) \cup {"pn"}
             ELSE convs' = convs \cup {here} /\ UNCHANGED rows
          /\ enriching' = (enriching \/ (here = "group" /\ here \notin convs))
    /\ UNCHANGED <<mapped, left, mine, repairVars, events, locals>>
FileMessage(h) ==
    /\ At(h, "file")
    /\ Upsert(Ev(h).id, Filed(Ev(h).id, hand[h].chat, Ev(h).full, "delivered"))
    /\ Wait(h, IF Ev(h).full THEN "alias" ELSE "settle")
    /\ UNCHANGED <<convs, mapped, left, enriching, mine, repairVars, events, locals>>

\* FindUnresolvedWhatsAppPlaceholderAlias, then DeleteMessageByID.
Aliases(id, chat) ==
    {i \in WaIds \ {id} : /\ Known(i) /\ rows[i].chat = chat /\ ~rows[i].media
                          /\ Wire[i].at = Wire[id].at /\ rows[i].body = "photo"}
FindAlias(h) ==
    /\ At(h, "alias")
    /\ LET found == Aliases(Ev(h).id, hand[h].chat)
       IN hand' = [hand EXCEPT ![h].at = IF Cardinality(found) = 1 THEN "twin" ELSE "settle",
                               ![h].copy = found]
    /\ UNCHANGED <<rowVars, mapped, left, enriching, mine, repairVars, events, locals>>
DropAlias(h) ==
    /\ At(h, "twin") /\ Wait(h, "settle")
    /\ \E i \in hand[h].copy : Erase(i)
    /\ UNCHANGED <<convs, mapped, left, enriching, mine, repairVars, events, locals>>
\* clearUnavailableRepairRequestsForSource; the conversation's time is raised.
Settle(h) ==
    /\ At(h, "settle") /\ Done(h)
    /\ asked' = asked \ {Ev(h).id} /\ granted' = granted \ {Ev(h).id}
    /\ UNCHANGED <<rowVars, mapped, left, enriching, mine, asking, events, locals>>

\* handleReceipt, for one of its messages.
StatusRank(status) ==
    CASE status = "read" -> 3 [] status = "delivered" -> 2 [] OTHER -> 1
Upgrades(from, to) ==
    IF to = "failed" THEN StatusRank(from) <= 1 ELSE StatusRank(to) > StatusRank(from)
ReadForReceipt ==
    /\ Idle("live") /\ events < MaxWaEvents /\ events' = events + 1
    /\ \E id \in WaIds, status \in {"delivered", "read", "failed"} :
        /\ Known(id) /\ rows[id].own /\ Upgrades(rows[id].status, status)
        /\ hand' = [hand EXCEPT !["live"] =
             [at |-> "receipt", ev |-> [NoEvent EXCEPT !.id = id, !.value = status],
              chat |-> rows[id].chat, copy |-> rows[id]]]
    /\ UNCHANGED <<rowVars, mapped, left, enriching, mine, repairVars, locals>>
WriteReceipt ==
    /\ At("live", "receipt") /\ Done("live")
    /\ Upsert(Ev("live").id, [hand["live"].copy EXCEPT !.status = Ev("live").value])
    /\ UNCHANGED <<convs, mapped, left, enriching, mine, repairVars, events, locals>>

\* handleGroupInfo: joined, left, or something else about the group.
GroupInfo ==
    /\ Idle("live") /\ events < MaxWaEvents /\ events' = events + 1
    /\ \/ left' = FALSE /\ convs' = convs \cup {"group"} /\ UNCHANGED rows
       \/ left /\ EraseChat("group") /\ UNCHANGED left
       \/ ~left /\ left' = TRUE /\ EraseChat("group")
       \/ ~left /\ convs' = convs \cup {"group"} /\ UNCHANGED <<rows, left>>
    /\ UNCHANGED <<mapped, enriching, hand, mine, repairVars, locals>>
\* enrichGroupConversation
Enrich ==
    /\ enriching /\ enriching' = FALSE
    /\ convs' \in {convs, convs \cup {"group"}}
    /\ UNCHANGED <<rows, mapped, left, hand, mine, repairVars, events, locals>>

(* --- what else happens ---------------------------------------------------- *)

Local == locals < MaxWaLocal /\ locals' = locals + 1
\* The session store learns the mapping; the direct chats are then reconciled.
LearnMapping ==
    /\ ~mapped /\ mapped' = TRUE
    /\ UNCHANGED <<rowVars, left, enriching, hand, mine, repairVars, events, locals>>
ReconcileDirectChats ==
    /\ "lid" \in convs /\ mapped /\ MergeAlias("lid")
    /\ UNCHANGED <<mapped, left, enriching, hand, mine, repairVars, events, locals>>
\* recentlyLeftGroupTTL has passed.
LeftExpires ==
    /\ left /\ left' = FALSE
    /\ UNCHANGED <<rowVars, mapped, enriching, hand, mine, repairVars, events, locals>>

\* SendReaction: the target is read, the reaction sent, the reactions stored.
BeginReaction ==
    /\ Local /\ mine.at = "idle"
    /\ \E id \in WaIds : Known(id) /\ mine' = [at |-> "react", id |-> id, copy |-> rows[id].by]
    /\ UNCHANGED <<rowVars, mapped, left, enriching, hand, repairVars, events>>
\* LeaveGroup marks the group, then deletes it.
BeginLeave ==
    /\ Local /\ mine.at = "idle" /\ left' = TRUE
    /\ mine' = [mine EXCEPT !.at = "leave"]
    /\ UNCHANGED <<rowVars, mapped, enriching, hand, repairVars, events>>
\* SendText or SendMedia was accepted; RecordOutgoingMessage is still to come.
BeginSend ==
    /\ Local /\ mine.at = "idle"
    /\ \E id \in WaIds : Wire[id].own /\ ~Known(id) /\ mine' = [mine EXCEPT !.at = "record", !.id = id]
    /\ UNCHANGED <<rowVars, mapped, left, enriching, hand, repairVars, events>>
EndMine ==
    /\ mine.at # "idle" /\ mine' = [at |-> "idle", id |-> Absent, copy |-> {}]
    /\ \/ /\ mine.at = "react" /\ UNCHANGED convs
          /\ rows' = [rows EXCEPT ![mine.id] =
               IF @ = Absent THEN Absent ELSE [@ EXCEPT !.by = mine.copy \cup {"me"}]]
       \/ mine.at = "leave" /\ EraseChat("group")
       \/ /\ mine.at = "record" /\ UNCHANGED convs
          /\ Upsert(mine.id, Filed(mine.id, IF Wire[mine.id].group THEN "group" ELSE "pn",
                                   Wire[mine.id].photo, "sent"))
    /\ UNCHANGED <<mapped, left, enriching, hand, repairVars, events, locals>>

(* --- photos that arrived without their bytes ------------------------------ *)

\* RepairUnavailableMediaPlaceholders: on a connection and when it is asked for.
NeedsBytes(id) == Known(id) /\ rows[id].body = "photo" /\ ~rows[id].media /\ rows[id].chat # "group"
AskAgain(r) ==
    /\ asking[r] = Absent /\ Local
    /\ \E id \in WaIds \ asked :
        NeedsBytes(id) /\ asked' = asked \cup {id} /\ asking' = [asking EXCEPT ![r] = id]
    /\ UNCHANGED <<rowVars, mapped, left, enriching, hand, mine, granted, events>>
Asked(r) ==
    /\ asking[r] # Absent /\ asking' = [asking EXCEPT ![r] = Absent]
    /\ granted' = granted \cup ({asking[r]} \cap asked) /\ UNCHANGED asked
    /\ UNCHANGED <<rowVars, mapped, left, enriching, hand, mine, events, locals>>
AskFails(r) ==
    /\ asking[r] # Absent /\ asking' = [asking EXCEPT ![r] = Absent]
    /\ asked' = asked \ {asking[r]} /\ granted' = granted \ {asking[r]}
    /\ UNCHANGED <<rowVars, mapped, left, enriching, hand, mine, events, locals>>
\* unavailablePlaceholderRepairCooldown
AskExpires ==
    /\ \E id \in granted : asked' = asked \ {id} /\ granted' = granted \ {id}
    /\ UNCHANGED <<rowVars, mapped, left, enriching, hand, mine, asking, events, locals>>

Handle(h) ==
    \/ Receive(h) \/ ReadForReaction(h) \/ WriteReaction(h) \/ Revoke(h) \/ ReadForEdit(h)
    \/ WriteEdit(h) \/ FileConversation(h) \/ FileMessage(h) \/ FindAlias(h) \/ DropAlias(h)
    \/ Settle(h)
WaNext ==
    \/ \E h \in Handlers : Handle(h)
    \/ ReadForReceipt \/ WriteReceipt \/ GroupInfo \/ Enrich
    \/ LearnMapping \/ ReconcileDirectChats \/ LeftExpires
    \/ BeginReaction \/ BeginLeave \/ BeginSend \/ EndMine
    \/ \E r \in DOMAIN asking : AskAgain(r) \/ Asked(r) \/ AskFails(r)
    \/ AskExpires
WaSpec == WaInit /\ [][WaNext]_waVars

(* --- properties ----------------------------------------------------------- *)

\* The media of a row that stays is never lost, though receipts, edits and
\* replays write rows back from copies made before it arrived, or without it
\* (db/messages.go:62-72).
MediaKept ==
    [][\A i \in WaIds :
          Known(i) /\ rows[i].media /\ rows'[i] # Absent => rows'[i].media]_rows

\* A photo that is marked as asked for is being asked for, or was: a request
\* that failed never keeps a later one from being made.
AskedIsOwed ==
    \A i \in asked : i \in granted \/ \E r \in DOMAIN asking : asking[r] = i

\* What was downloaded stays, and what is missing is asked for or can be.
MediaIsOwed == []AskedIsOwed /\ MediaKept

\* A message that was revoked or merged away does not come back but by being
\* received or recorded again: written back from a copy, it does.
NothingReturns ==
    [][\A i \in WaIds :
          ~Known(i) /\ rows'[i] # Absent =>
              \/ \E h \in Handlers : At(h, "file") /\ Ev(h).id = i
              \/ mine.at = "record" /\ mine.id = i]_rows
=============================================================================
