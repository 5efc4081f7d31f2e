--------------------------------- MODULE Tui ---------------------------------
(* The terminal interface (src/internal/tui): one goroutine handles the      *)
(* user's keys and the answers of commands it started earlier, each of which *)
(* is an HTTP request to the daemon in a goroutine of its own.  Answers come *)
(* in any order, after the user has opened something else.  What is modelled *)
(* is the open thread (refreshes, the two tiers of older history, Slack      *)
(* threads), the list of the selected river, the composer with its drafts    *)
(* and sends, and the refreshes events cause; with FetchOlderGoogleHistory   *)
(* of the daemon (src/internal/app/backfill_older.go) as the second tier.    *)
(* A conversation's messages are numbered from its oldest, a text in the     *)
(* order of typing.                                                          *)
EXTENDS Integers, FiniteSets, FiniteSetsExt, TLC

CONSTANTS
    Convs, SlackConvs,  \* the conversations, and which are on the Slack river
    Oldest, Newest,     \* conversation -> its messages in the store at first
    NoConv,             \* no conversation is open
    HistoryPage,        \* historyPageSize, also what the phone is asked for
    HistoryMax,         \* historyMaxLoaded
    MaxFlight,          \* bound: commands under way
    MaxKeys,            \* bound: keys the user presses
    MaxArrivals         \* bound: new messages

ASSUME TuiConstants ==
    /\ SlackConvs \subseteq Convs /\ NoConv \notin Convs
    /\ \A c \in Convs : Oldest[c] \in Nat \ {0} /\ Newest[c] \in Nat
    /\ HistoryPage \in Nat \ {0} /\ HistoryMax \in Nat \ {0}
    /\ {MaxFlight, MaxKeys, MaxArrivals} \subseteq Nat

Rivers == {"messages", "slack"}
RiverOf(c) == IF c \in SlackConvs THEN "slack" ELSE "messages"
NoDraft == 0

VARIABLES
    ui,       \* the fields of Model that decide what is shown and fetched
    box,      \* the composer, its drafts and the sends
    flight,   \* the commands under way: requests, and answers not yet handled
    daemon,   \* the store, what ingest has not stored yet, the phone's cursors
    typed,    \* text -> where it was typed: a conversation or NoConv
    keys, arrivals   \* bounds

tuiVars == <<ui, box, flight, daemon, typed, keys, arrivals>>

TuiInit ==
    /\ ui = [active |-> NoConv, gen |-> 0, river |-> "messages", list |-> "none",
             rows |-> {}, of |-> NoConv, threaded |-> FALSE, kind |-> "none", channel |-> {},
             loading |-> FALSE, localDone |-> FALSE, phoneDone |-> FALSE]
    /\ box = [text |-> NoDraft, drafts |-> [c \in Convs |-> NoDraft], sending |-> FALSE]
    /\ flight = {[kind |-> "messages", conv |-> NoConv, gen |-> 0, arg |-> 0, ans |-> {}, at |-> "asked"]}
    /\ daemon = [store |-> [c \in Convs |-> Oldest[c] .. Newest[c]],
                 coming |-> [c \in Convs |-> {}],
                 top |-> Newest,
                 cursor |-> [c \in Convs |-> 0],
                 done |-> {}]
    /\ typed = <<>>
    /\ keys = 0 /\ arrivals = 0

-----------------------------------------------------------------------------
(* Messages and commands.                                                   *)

\* The n newest of some messages; the n newest of those before message b.
NewestOf(ids, n) == {i \in ids : Cardinality({j \in ids : j > i}) < n}
Before(ids, b, n) == NewestOf({i \in ids : i < b}, n)

Cmd(kind, conv, arg) ==
    [kind |-> kind, conv |-> conv, gen |-> ui.gen, arg |-> arg, ans |-> {}, at |-> "asked"]
Issue(base, cmds) ==
    /\ Cardinality(base \cup cmds) <= MaxFlight
    /\ flight' = base \cup cmds
Key == keys < MaxKeys /\ keys' = keys + 1
SlackRiver == ui.river = "slack"

\* loadedWindow: a refresh asks again for as much as is loaded.
LoadedWindow(rows) ==
    LET n == Cardinality(rows)
    IN  IF n < HistoryPage THEN HistoryPage ELSE IF n > HistoryMax THEN HistoryMax ELSE n
Refresh(c, rows) == Cmd("refresh", c, LoadedWindow(rows))

\* historyDone, for a river whose phone can be asked or not.
HistoryDone(u) == u.localDone /\ (u.phoneDone \/ u.river = "slack")

\* loadOlderHistory, as the new state and the command it starts, if any.
MayLoad(u) ==
    /\ u.active # NoConv /\ ~u.threaded /\ u.river # "slack"
    /\ ~HistoryDone(u) /\ ~u.loading
    /\ u.rows # {} /\ Cardinality(u.rows) < HistoryMax
Loading(u) == [u EXCEPT !.loading = MayLoad(u) \/ @]
LoadCmds(u) ==
    IF ~MayLoad(u) THEN {}
    ELSE {Cmd(IF u.localDone THEN "phone" ELSE "older", u.active, Min(u.rows))}

-----------------------------------------------------------------------------
(* Keys.                                                                    *)

\* saveComposeDraft
SavedDrafts ==
    IF ui.active = NoConv THEN box.drafts ELSE [box.drafts EXCEPT ![ui.active] = box.text]

Opened(c, river) ==
    [active |-> c, gen |-> ui.gen + 1, river |-> river, list |-> ui.list,
     rows |-> {}, of |-> c, threaded |-> FALSE, kind |-> "none", channel |-> {},
     loading |-> FALSE, localDone |-> FALSE, phoneDone |-> FALSE]

\* openConversation from the list, which may still be another river's; the
\* palette's openConversationAcrossRivers also selects the river.
OpenConversation(c) ==
    /\ Key
    /\ \E across \in BOOLEAN :
         /\ ~across => ui.list = RiverOf(c)
         /\ ui' = Opened(c, IF across THEN RiverOf(c) ELSE ui.river)
         /\ Issue(flight, {[Refresh(c, {}) EXCEPT !.gen = ui.gen + 1]} \cup
                          (IF across THEN {Cmd(RiverOf(c), NoConv, 0)} ELSE {}))
    /\ box' = [box EXCEPT !.drafts = SavedDrafts, !.text = SavedDrafts[c]]
    /\ UNCHANGED <<daemon, typed, arrivals>>

\* cycleRiver: nothing is open any more; the composer keeps its text.
CycleRiver ==
    /\ Key
    /\ \E r \in Rivers \ {ui.river} :
         /\ ui' = [ui EXCEPT !.river = r, !.active = NoConv, !.rows = {}, !.of = NoConv,
                             !.kind = "none", !.threaded = FALSE, !.channel = {}]
         /\ Issue(flight, {Cmd(r, NoConv, 0)})
    /\ UNCHANGED <<box, daemon, typed, arrivals>>

\* up at the first row, or page-up.
ScrollUp ==
    /\ Key
    /\ ui.active # NoConv
    /\ IF SlackRiver /\ ~ui.threaded
       THEN ui' = ui /\ Issue(flight, {Cmd("slack_older", ui.active, 0)})
       ELSE MayLoad(ui) /\ ui' = Loading(ui) /\ Issue(flight, LoadCmds(ui))
    /\ UNCHANGED <<box, daemon, typed, arrivals>>

\* openSelectedSlackThread, on any shown message, and leaveSlackThread.
OpenThread ==
    /\ Key
    /\ SlackRiver /\ ~ui.threaded /\ ui.active # NoConv /\ ui.rows # {}
    /\ ui' = [ui EXCEPT !.threaded = TRUE, !.channel = ui.rows, !.rows = {}, !.kind = "none"]
    /\ Issue(flight, {Cmd("thread", ui.active, 0)})
    /\ UNCHANGED <<box, daemon, typed, arrivals>>

LeaveThread ==
    /\ Key
    /\ ui.threaded
    /\ ui' = [ui EXCEPT !.threaded = FALSE, !.rows = ui.channel, !.kind = "channel", !.channel = {}]
    /\ Issue(flight, {Refresh(ui.active, ui.channel)})
    /\ UNCHANGED <<box, daemon, typed, arrivals>>

\* The user begins a text, or clears it.
TypeText ==
    /\ Key
    /\ \/ /\ box.text = NoDraft
          /\ typed' = typed @@ (Cardinality(DOMAIN typed) + 1 :> ui.active)
          /\ box' = [box EXCEPT !.text = Cardinality(DOMAIN typed) + 1]
       \/ box.text # NoDraft /\ box' = [box EXCEPT !.text = NoDraft] /\ UNCHANGED typed
    /\ UNCHANGED <<ui, flight, daemon, arrivals>>

\* Enter: one send at a time, and the composer is cleared at once.
PressEnter ==
    /\ Key
    /\ ui.active # NoConv /\ box.text # NoDraft /\ ~box.sending
    /\ Issue(flight, {Cmd("send", ui.active, box.text)})
    /\ box' = [box EXCEPT !.sending = TRUE, !.text = NoDraft]
    /\ UNCHANGED <<ui, daemon, typed, arrivals>>

-----------------------------------------------------------------------------
(* The daemon.                                                              *)

\* A message arrives, and the ingest worker stores what came.
Arrive(c) ==
    /\ arrivals < MaxArrivals
    /\ arrivals' = arrivals + 1
    /\ daemon' = [daemon EXCEPT !.top[c] = @ + 1, !.store[c] = @ \cup {daemon.top[c] + 1}]
    /\ UNCHANGED <<ui, box, flight, typed, keys>>

IngestStores(c) ==
    /\ daemon.coming[c] # {}
    /\ daemon' = [daemon EXCEPT !.store[c] = @ \cup daemon.coming[c], !.coming[c] = {}]
    /\ UNCHANGED <<ui, box, flight, typed, keys, arrivals>>

\* FetchOlderGoogleHistory: walks the phone from where the last call stopped,
\* or from the newest message, until it has a page of messages before the
\* cutoff or none are left; they go the way of ingest, not straight to the store.
Walk(c, before) ==
    LET from  == IF daemon.cursor[c] = 0 THEN daemon.top[c] + 1 ELSE daemon.cursor[c]
        older == IF c \in daemon.done THEN {} ELSE Before(1 .. (from - 1), before, HistoryPage)
        stop  == IF Cardinality(older) = HistoryPage THEN Min(older) ELSE 1
    IN  [older |-> older, stop |-> stop, ended |-> c \in daemon.done \/ stop = 1]

AnswerPhone(r) ==
    LET walk == Walk(r.conv, r.arg) IN
    /\ r.at = "asked" /\ r.kind = "phone"
    /\ daemon' = [daemon EXCEPT !.coming[r.conv] = @ \cup (walk.older \ daemon.store[r.conv]),
                                !.cursor[r.conv] = walk.stop,
                                !.done = IF walk.ended THEN @ \cup {r.conv} ELSE @]
    /\ flight' = (flight \ {r}) \cup
                     {[r EXCEPT !.at = IF walk.ended THEN "ended" ELSE "ok", !.ans = walk.older]}
    /\ UNCHANGED <<ui, box, typed, keys, arrivals>>

\* Any other request is answered from the store of that moment.
Answer(r) ==
    /\ r.at = "asked" /\ r.kind # "phone"
    /\ flight' = (flight \ {r}) \cup
          {[r EXCEPT !.at = "ok",
                     !.ans = CASE r.kind = "refresh"     -> NewestOf(daemon.store[r.conv], r.arg)
                               [] r.kind = "older"       -> Before(daemon.store[r.conv], r.arg, HistoryPage)
                               [] r.kind = "slack_older" -> NewestOf(daemon.store[r.conv], HistoryPage)
                               [] OTHER                  -> {}]}
    /\ UNCHANGED <<ui, box, daemon, typed, keys, arrivals>>

\* A request fails; a failing walk of the phone forgets its cursor.
Fail(r) ==
    /\ r.at = "asked"
    /\ flight' = (flight \ {r}) \cup {[r EXCEPT !.at = "failed"]}
    /\ daemon' = IF r.kind = "phone" THEN [daemon EXCEPT !.cursor[r.conv] = 0] ELSE daemon
    /\ UNCHANGED <<ui, box, typed, keys, arrivals>>

-----------------------------------------------------------------------------
(* Update: the answers.                                                     *)

\* Its mutant looks at the conversation only.
CurrentConv(r) == r.conv = ui.active
Current(r) == r.conv = ui.active /\ r.gen = ui.gen
Handled(r, cmds) == flight' = (flight \ {r}) \cup cmds
Ignored(r) == Handled(r, {}) /\ UNCHANGED <<ui, box>>

\* conversationsMsg does not say which river it is the list of.
ListArrives(r) ==
    /\ r.kind \in Rivers /\ r.at = "ok"
    /\ ui' = [ui EXCEPT !.list = r.kind]
    /\ Handled(r, {})
    /\ UNCHANGED box

\* messagesMsg
RefreshArrives(r) ==
    /\ r.kind = "refresh" /\ r.at = "ok"
    /\ IF ~Current(r) THEN Ignored(r)
       ELSE /\ ui' = [ui EXCEPT !.rows = r.ans, !.of = r.conv, !.kind = "channel"]
            /\ Handled(r, {})
            /\ UNCHANGED box

\* slackThreadMsg and olderSlackHistoryMsg
SlackArrives(r) ==
    /\ r.kind \in {"thread", "slack_older"} /\ r.at = "ok"
    /\ IF r.conv # ui.active \/ ui.threaded # (r.kind = "thread") THEN Ignored(r)
       ELSE /\ ui' = [ui EXCEPT !.rows = r.ans, !.of = r.conv,
                                !.kind = IF r.kind = "thread" THEN "thread" ELSE "channel"]
            /\ Handled(r, {})
            /\ UNCHANGED box

\* handleOlderMessages: a page that adds nothing goes on to the phone at once.
OlderArrives(r) ==
    LET merged == ui.rows \cup r.ans
        dry    == merged = ui.rows
        next   == [ui EXCEPT !.loading = FALSE, !.rows = merged, !.of = r.conv,
                             !.localDone = @ \/ dry \/ Cardinality(r.ans) < HistoryPage]
    IN  /\ r.kind = "older" /\ r.at = "ok"
        /\ IF ~Current(r) THEN Ignored(r)
           ELSE /\ ui' = IF dry THEN Loading(next) ELSE next
                /\ Handled(r, IF dry THEN LoadCmds(next) ELSE {})
                /\ UNCHANGED box

\* handlePhoneOlder: what the phone brought is read back from the store.
PhoneArrives(r) ==
    LET ended == [ui EXCEPT !.loading = FALSE, !.phoneDone = @ \/ r.at = "ended"]
        next  == IF r.ans = {} THEN ended ELSE [ended EXCEPT !.localDone = FALSE]
    IN  /\ r.kind = "phone" /\ r.at \in {"ok", "ended"}
        /\ IF ~Current(r) THEN Ignored(r)
           ELSE /\ ui' = IF r.ans = {} THEN next ELSE Loading(next)
                /\ Handled(r, IF r.ans = {} THEN {} ELSE LoadCmds(next))
                /\ UNCHANGED box

\* sentMsg: the draft of the conversation is dropped, whatever it is by now.
SentArrives(r) ==
    /\ r.kind = "send" /\ r.at = "ok"
    /\ box' = [box EXCEPT !.sending = FALSE, !.drafts[r.conv] = NoDraft]
    /\ Handled(r, {IF ui.threaded THEN Cmd("thread", r.conv, 0) ELSE Refresh(r.conv, ui.rows)})
    /\ UNCHANGED ui

\* sendFailedMsg, errMsg and olderErrMsg.
FailureArrives(r) ==
    /\ r.at = "failed"
    /\ CASE r.kind = "send" ->
              /\ box' = [box EXCEPT !.sending = FALSE, !.text = IF @ = NoDraft THEN r.arg ELSE @]
              /\ UNCHANGED ui
         [] r.kind \in {"older", "phone"} ->
              /\ ui' = IF Current(r) THEN [ui EXCEPT !.loading = FALSE] ELSE ui
              /\ UNCHANGED box
         [] OTHER -> box' = [box EXCEPT !.sending = FALSE] /\ UNCHANGED ui
    /\ Handled(r, {})

\* streamEventMsg about the open conversation (others only reload the list).
StreamEvent ==
    /\ ui.active # NoConv
    /\ Issue(flight, {IF ui.threaded THEN Cmd("thread", ui.active, 0) ELSE Refresh(ui.active, ui.rows)})
    /\ UNCHANGED <<ui, box, daemon, typed, keys, arrivals>>

Deliver(r) ==
    /\ \/ ListArrives(r) \/ RefreshArrives(r) \/ SlackArrives(r) \/ OlderArrives(r)
       \/ PhoneArrives(r) \/ SentArrives(r) \/ FailureArrives(r)
    /\ UNCHANGED <<daemon, typed, keys, arrivals>>

Replies == \E r \in flight : Answer(r) \/ AnswerPhone(r) \/ Fail(r) \/ Deliver(r)
PressKey ==
    \/ \E c \in Convs : OpenConversation(c)
    \/ CycleRiver \/ ScrollUp \/ OpenThread \/ LeaveThread \/ TypeText \/ PressEnter

TuiNext ==
    \/ PressKey
    \/ \E c \in Convs : Arrive(c) \/ IngestStores(c)
    \/ Replies
    \/ StreamEvent
TuiSpec == TuiInit /\ [][TuiNext]_tuiVars

-----------------------------------------------------------------------------
(* Properties.                                                              *)

TuiTypeOK ==
    /\ ui.active \in Convs \cup {NoConv} /\ ui.of \in Convs \cup {NoConv}
    /\ ui.river \in Rivers /\ ui.list \in Rivers \cup {"none"}
    /\ ui.kind \in {"none", "channel", "thread"}
    /\ {ui.threaded, ui.loading, ui.localDone, ui.phoneDone, box.sending} \subseteq BOOLEAN
    /\ \A c \in Convs : box.drafts[c] \in {NoDraft} \cup DOMAIN typed
    /\ box.text \in {NoDraft} \cup DOMAIN typed

\* What is shown belongs to what is open, although answers for other
\* conversations, and for earlier openings of the same one, keep arriving.
ThreadIsActive ==
    /\ ui.rows # {} => ui.of = ui.active
    /\ ui.kind = "thread" => ui.threaded
    /\ \A i \in ui.rows : i <= daemon.top[ui.active]

\* "Loading older" is shown exactly while one fetch for this opening of the
\* conversation is under way: the scroll neither sticks nor fetches twice.
Fetches == {r \in flight : r.kind \in {"older", "phone"} /\ Current(r)}
OlderTracksFetch ==
    /\ ui.active # NoConv => (ui.loading <=> Fetches # {})
    /\ Cardinality(Fetches) <= 1

\* What the field's comment says: once localExhausted is set the store has
\* nothing older than the first message shown.
ExhaustedMeansOldest ==
    ui.localDone /\ ui.kind = "channel" /\ ui.rows # {} =>
        \A i \in daemon.store[ui.active] : i >= Min(ui.rows)

\* Scrolling back shows the history without gaps.
NoGap ==
    ui.active # NoConv /\ ui.rows # {} =>
        \A i \in daemon.store[ui.active] : i > Min(ui.rows) /\ i < Max(ui.rows) => i \in ui.rows

\* What the per-conversation drafts are for: a text goes to the conversation it
\* was typed in.
SentWhereTyped == \A r \in flight : r.kind = "send" => typed[r.arg] = r.conv
=============================================================================
