------------------------------ MODULE AdapterSend ------------------------------
(* What becomes of one transport call of the dispatcher: the way of a send   *)
(* through an adapter and its live client, the outcomes of the platform's    *)
(* requests on that way, the verdict the adapter makes of a failure, and     *)
(* what recordSendError does with the verdict (Outbox.tla takes it from      *)
(* there).  The rows are of one account, whose connection, credentials and,  *)
(* for Signal, command lock change while a call is out.                      *)
EXTENDS Naturals, Sequences, FiniteSets

CONSTANTS
    Rows,         \* intents of the account
    Networks,     \* the platforms looked at
    MaxAttempted  \* bound: calls of one row

ASSUME AdapterConstants ==
    /\ Networks \subseteq {"google", "whatsapp", "signal", "slack"}
    /\ MaxAttempted \in Nat

VARIABLES
    network,    \* the account's platform
    intent,     \* row -> its kind, state, calls, and what of it the platform has
    outgoing,   \* the call that is out: its row and how far it is, or NoCallOut
    attached,    \* the adapter takes the account for connected
    allowed,    \* the platform accepts the account's credentials
    repairable, \* Google: a native repair of the credentials is available
    commands    \* Signal: who holds commandMu, and whether the call's time is up

sendVars == <<network, intent, outgoing, attached, allowed, repairable, commands>>
NoCallOut == [row |-> "none", at |-> 0]

-----------------------------------------------------------------------------
(* The requests of a call, in their order.  "send" and "caption" are those    *)
(* that give the recipient something.                                        *)

GoogleText       == <<"lookup", "send">>
GoogleReaction   == <<"lookup", "send">>
GoogleRead       == <<"send">>
GoogleMedia      == <<"upload", "lookup", "send">>
GoogleCaption    == GoogleMedia \o <<"caption">>
WhatsAppText     == <<"client", "send">>
WhatsAppMedia    == <<"client", "upload", "send">>
WhatsAppReaction == <<"client", "send">>
WhatsAppRead     == <<"client", "send">>
SignalText       == <<"send">>
SignalMedia      == <<"write", "send">>
SignalReaction   == <<"send">>
SlackText        == <<"send">>
SlackMedia       == <<"url", "upload", "send", "info">>
SlackReaction    == <<"send">>

Routes ==
    [google   |-> [text |-> GoogleText, media |-> GoogleMedia, captioned |-> GoogleCaption,
                   reaction |-> GoogleReaction, read |-> GoogleRead],
     whatsapp |-> [text |-> WhatsAppText, media |-> WhatsAppMedia, captioned |-> WhatsAppMedia,
                   reaction |-> WhatsAppReaction, read |-> WhatsAppRead],
     signal   |-> [text |-> SignalText, media |-> SignalMedia, captioned |-> SignalMedia,
                   reaction |-> SignalReaction],
     slack    |-> [text |-> SlackText, media |-> SlackMedia, captioned |-> SlackMedia,
                   reaction |-> SlackReaction]]
SendKinds == {"text", "media", "captioned", "reaction", "read"}
Repeatable == {"reaction", "read"}    \* a second one changes nothing

SendInit ==
    /\ network \in Networks
    /\ \E kind \in [Rows -> DOMAIN Routes[network]] :
        intent = [r \in Rows |-> [kind |-> kind[r], state |-> "queued", calls |-> 0, has |-> {}]]
    /\ outgoing = NoCallOut
    /\ attached = TRUE /\ allowed = TRUE
    /\ repairable = FALSE
    /\ commands = [holder |-> "none", late |-> FALSE]

KindOut == intent[outgoing.row].kind
Request == Routes[network][KindOut][outgoing.at]
Waiting == outgoing # NoCallOut /\ outgoing.at > 0
Gives == Request \in {"send", "caption"}

-----------------------------------------------------------------------------
(* The platform's side: what a request answers, and whether it was taken.     *)
(* "lost" and "nothing" leave that open, a refusal of any kind does not.       *)

Open(answer) == answer \in {"lost", "nothing", "garbled"}
Answers ==
    CASE Request = "client" -> {"ok", "offline"}
      [] Request = "write"  -> {"ok", "unreadable"}
      [] network = "signal" /\ Request = "send" ->
            (IF allowed THEN {"ok", "partial", "allfailed"} ELSE {"account"}) \cup {"lost", "garbled"}
      [] network = "google" /\ ~allowed -> {"unauthorized", "dead", "lost"}
      [] network = "whatsapp" /\ ~allowed -> {"dead", "lost"}
      [] network = "slack" /\ ~allowed -> {"refused", "lost"}
      [] OTHER -> {"ok", "lost", "refused"} \cup IF network = "whatsapp" THEN {} ELSE {"nothing"}
Taken(answer) == CASE answer \in {"ok", "partial"} -> {TRUE}
                   [] Open(answer) -> {TRUE, FALSE}
                   [] OTHER -> {FALSE}

-----------------------------------------------------------------------------
(* The adapters' verdicts: a failure class, and whether the transport was      *)
(* certainly not called.                                                     *)

Judged(class, certain) == [class |-> class, certain |-> certain]

\* classifyTransportError and the certainty each caller sets.  A refusing status
\* counts as not called, but a refused caption does not; neither does anything
\* of a read receipt, nor a reaction that was not confirmed.
GoogleClass(answer) ==
    CASE answer = "unauthorized" -> IF repairable THEN "credentials" ELSE "upgrade"
      [] answer = "dead" -> "reauth"
      [] OTHER -> "transient"
GoogleJudges(answer) == Judged(GoogleClass(answer),
    \/ Request \in {"upload", "lookup"}
    \/ KindOut = "read"
    \/ Request = "send" /\ answer = "refused"
    \/ KindOut = "reaction" /\ answer = "nothing")

\* WhatsApp's client marks what failed before its send as not dispatched
\* (markSendNotDispatched), and a read receipt may be repeated.
WhatsAppClass(answer) == IF answer = "dead" THEN "reauth" ELSE "transient"
NotDispatched == Request \in {"client", "upload"}
WhatsAppJudgesText(answer)     == Judged(WhatsAppClass(answer), NotDispatched)
WhatsAppJudgesMedia(answer)    == Judged(WhatsAppClass(answer), NotDispatched)
WhatsAppJudgesReaction(answer) == Judged(WhatsAppClass(answer), NotDispatched)
WhatsAppJudgesRead(answer)     == Judged(WhatsAppClass(answer), TRUE)
WhatsAppJudges(answer) ==
    CASE KindOut = "text" -> WhatsAppJudgesText(answer)
      [] KindOut \in {"media", "captioned"} -> WhatsAppJudgesMedia(answer)
      [] KindOut = "reaction" -> WhatsAppJudgesReaction(answer)
      [] KindOut = "read" -> WhatsAppJudgesRead(answer)

\* Mutant of AllFailed: a partial or unreadable result counts as not sent.
NotAllSent(answer) == answer # "lost"

\* parseSignalSendResult: only a complete result that names every recipient as
\* failed says that nothing was sent; so does anything that is no command error.
\* signal-cli gives no such result for a reaction.
AllFailed(answer) == answer = "allfailed"
SignalJudgesText(answer)     == Judged("transient", AllFailed(answer))
SignalJudgesMedia(answer)    == Judged("transient", Request = "write" \/ AllFailed(answer))
SignalJudgesReaction(answer) == Judged("transient", FALSE)
SignalJudges(answer) ==
    CASE KindOut = "text" -> SignalJudgesText(answer)
      [] KindOut \in {"media", "captioned"} -> SignalJudgesMedia(answer)
      [] KindOut = "reaction" -> SignalJudgesReaction(answer)

\* Slack's: past the adapter's own checks everything is in doubt.
SlackJudgesText(answer)     == Judged("transient", FALSE)
SlackJudgesMedia(answer)    == Judged("transient", FALSE)
SlackJudgesReaction(answer) == Judged("transient", FALSE)
SlackJudges(answer) ==
    CASE KindOut = "text" -> SlackJudgesText(answer)
      [] KindOut \in {"media", "captioned"} -> SlackJudgesMedia(answer)
      [] KindOut = "reaction" -> SlackJudgesReaction(answer)

Judges(answer) == CASE network = "google"   -> GoogleJudges(answer)
                    [] network = "whatsapp" -> WhatsAppJudges(answer)
                    [] network = "signal"   -> SignalJudges(answer)
                    [] network = "slack"    -> SlackJudges(answer)

Terminal(class)  == class \in {"unpaired", "reauth", "upgrade", "misconfigured", "unsupported"}
Retryable(class) == class \in {"transient", "limited", "credentials"}

\* recordSendError
Recorded(v) ==
    CASE Terminal(v.class) -> "rejected"
      [] Retryable(v.class) /\ v.certain -> "queued"
      [] OTHER -> "uncertain"

\* What a failure tells the lifecycle owner, which then ends the generation:
\* Google's only if they indict the session, WhatsApp's if ShouldReconnect says
\* so, Signal's if they name the account itself.
GoogleTells(answer)   == GoogleClass(answer) \in {"credentials", "reauth", "upgrade"}
WhatsAppTells(answer) == answer \in {"lost", "offline", "dead"}
SignalTells(answer)   == answer = "account"
Tells(answer) == CASE network = "google"   -> GoogleTells(answer)
                   [] network = "whatsapp" -> WhatsAppTells(answer)
                   [] network = "signal"   -> SignalTells(answer)
                   [] network = "slack"    -> FALSE

-----------------------------------------------------------------------------
(* The dispatcher and its call *)

Settle(r, state) == intent' = [intent EXCEPT ![r].state = state]

\* The row is claimed and marked, and the adapter called.  It refuses without a
\* connection: nothing was called.
CallAdapter(r) ==
    /\ outgoing = NoCallOut
    /\ intent[r].state = "queued" /\ intent[r].calls < MaxAttempted
    /\ IF attached
       THEN /\ outgoing' = [row |-> r, at |-> 1]
            /\ intent' = [intent EXCEPT ![r].state = "called", ![r].calls = @ + 1]
       ELSE /\ intent' = [intent EXCEPT ![r].calls = @ + 1]
            /\ UNCHANGED outgoing
    /\ UNCHANGED <<network, attached, allowed, repairable, commands>>

\* Signal runs one command at a time; the 20 seconds a send may take begin
\* before it waits for the lock.
TakeLock ==
    /\ Waiting /\ network = "signal" /\ Request = "send"
    /\ commands.holder = "none"
    /\ commands' = [commands EXCEPT !.holder = "call"]
    /\ UNCHANGED <<network, intent, outgoing, attached, allowed, repairable>>
MayAsk == network = "signal" /\ Request = "send" => commands.holder = "call" /\ ~commands.late
Unlock == commands' = [holder |-> IF commands.holder = "call" THEN "none" ELSE commands.holder,
                       late |-> FALSE]

\* A request succeeds: the next one, or the row is confirmed.  A partial result
\* of Signal is a success: the message went out.
Passes(answer) == answer = "ok" \/ (answer = "partial" /\ KindOut # "reaction")
Succeeds ==
    LET r == outgoing.row
        has == IF Gives THEN intent[r].has \cup {Request} ELSE intent[r].has
        last == outgoing.at = Len(Routes[network][KindOut])
    IN  /\ Waiting /\ MayAsk
        /\ \E answer \in Answers : Passes(answer)
        /\ intent' = [intent EXCEPT ![r].has = has,
                                    ![r].state = IF last THEN "confirmed" ELSE @]
        /\ outgoing' = IF last THEN NoCallOut ELSE [outgoing EXCEPT !.at = @ + 1]
        /\ IF last THEN Unlock ELSE UNCHANGED commands
        /\ UNCHANGED <<network, attached, allowed, repairable>>

FailsWith(answer, taken) ==
    LET r == outgoing.row
    IN  /\ intent' = [intent EXCEPT
               ![r].has = IF taken /\ Gives THEN @ \cup {Request} ELSE @,
               ![r].state = Recorded(Judges(answer))]
        /\ outgoing' = NoCallOut
        /\ attached' = (attached /\ ~Tells(answer))
        /\ Unlock
        /\ UNCHANGED <<network, allowed, repairable>>

RequestFails ==
    /\ Waiting /\ MayAsk
    /\ \E answer \in Answers :
        /\ ~Passes(answer)
        /\ \E taken \in Taken(answer) : FailsWith(answer, taken)

\* A send of Signal whose time ran out while it waited never ran: its command
\* fails at once, like one that was cut off.
CommandTooLate ==
    /\ Waiting /\ network = "signal" /\ Request = "send"
    /\ commands.late /\ commands.holder \in {"none", "call"}
    /\ FailsWith("lost", FALSE)

-----------------------------------------------------------------------------
(* Everything else of the account *)

\* The receive loop's command, and time.
PollerLocks ==
    /\ network = "signal"
    /\ \/ commands.holder = "none" /\ commands' = [commands EXCEPT !.holder = "poller"]
       \/ commands.holder = "poller" /\ commands' = [commands EXCEPT !.holder = "none"]
    /\ UNCHANGED <<network, intent, outgoing, attached, allowed, repairable>>
TimeIsUp ==
    /\ Waiting /\ network = "signal" /\ Request = "send" /\ ~commands.late
    /\ commands' = [commands EXCEPT !.late = TRUE]
    /\ UNCHANGED <<network, intent, outgoing, attached, allowed, repairable>>

\* The connection ends or is there again; the credentials expire or are renewed.
LinkTurns ==
    /\ attached' = ~attached
    /\ UNCHANGED <<network, intent, outgoing, allowed, repairable, commands>>
CredentialsTurn ==
    /\ allowed' = ~allowed
    /\ UNCHANGED <<network, intent, outgoing, attached, repairable, commands>>
RepairTurns ==
    /\ network = "google"
    /\ repairable' = ~repairable
    /\ UNCHANGED <<network, intent, outgoing, attached, allowed, commands>>

SendNext ==
    \/ \E r \in Rows : CallAdapter(r)
    \/ TakeLock \/ Succeeds \/ RequestFails \/ CommandTooLate
    \/ PollerLocks \/ TimeIsUp \/ LinkTurns \/ CredentialsTurn \/ RepairTurns
SendSpec == SendInit /\ [][SendNext]_sendVars

-----------------------------------------------------------------------------
(* Properties *)

SendTypeOK ==
    /\ network \in Networks
    /\ intent \in [Rows -> [kind : SendKinds,
           state : {"queued", "called", "confirmed", "uncertain", "rejected"},
           calls : 0..MaxAttempted, has : SUBSET {"send", "caption"}]]
    /\ outgoing.row \in Rows \cup {"none"} /\ outgoing.at \in 0..4
    /\ attached \in BOOLEAN /\ allowed \in BOOLEAN /\ repairable \in BOOLEAN
    /\ commands \in [holder : {"none", "call", "poller"}, late : BOOLEAN]

\* An adapter's verdict lets a message be sent by itself once more only if the
\* recipient has nothing of it, and calls it sent only if they have all of it,
\* whatever the platform answered or left unanswered on the way.
VerdictsAreTrue == \A r \in Rows :
    /\ intent[r].state = "queued" /\ intent[r].kind \notin Repeatable => intent[r].has = {}
    /\ intent[r].state = "confirmed" =>
        intent[r].has = {"send"} \cup (IF intent[r].kind = "captioned" /\ network = "google"
                                       THEN {"caption"} ELSE {})

\* What the comment on a failed Google caption says: once the media has been
\* accepted the row may not be recorded as one that was never sent.
RejectedNotTaken == \A r \in Rows :
    intent[r].state = "rejected" /\ intent[r].kind \notin Repeatable => intent[r].has = {}
=============================================================================
