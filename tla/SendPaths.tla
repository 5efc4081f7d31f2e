----------------------------- MODULE SendPaths ------------------------------
(* How a message that somebody sends gets to the platform or to the outbox:  *)
(* through the web interface, an approved draft, an agent's tool that asks   *)
(* the daemon, the tools inside the daemon, or the command line.  A caller   *)
(* that hears nothing may ask again; the daemon may die in between.          *)
EXTENDS Integers, FiniteSets

CONSTANTS
    Asks,           \* messages that somebody sends
    Plays,          \* for each of them its way, key, draft and text
    SendKeys, NoKey,    \* idempotency keys, and none
    Drafts,
    Words, NoText,  \* texts, and none
    SendTries,      \* how often one of them is asked for
    SendBudget      \* how many crashes, store faults and edits of drafts

Calls == Asks \X (1..SendTries)
OutKeys == SendKeys \cup Drafts \cup Calls
ASSUME SendPathsAssumption ==
    /\ SendTries \in Nat
    /\ Plays \subseteq [Asks -> [way : {"web", "draft", "agent", "tool", "cli"},
                                 key : SendKeys \cup {NoKey}, draft : Drafts, text : Words]]
    /\ NoText \notin Words /\ NoKey \notin SendKeys
    /\ SendKeys \cap Drafts = {} /\ (SendKeys \cup Drafts) \cap Calls = {}
    /\ SendBudget \in Nat
\* A key is one message's, and goes one way; a draft has its id for a key.
ASSUME KeyIsOneMessage ==
    \A p \in Plays : \A a, b \in Asks :
        /\ p[a].key = p[b].key /\ p[a].key # NoKey => p[a].way = p[b].way
        /\ p[a].way = "draft" => p[a].key = NoKey

VARIABLES
    mode,       \* legacy, beside (both stores) or primary (the v2 store alone)
    play,       \* what is sent, and how
    up,         \* the daemon runs
    keys,       \* the claims of the legacy store
    outbox,     \* the texts queued for each key, and whether they were sent
    taken,      \* how often the platform took a message of each key
    drafts,     \* the drafts of the store that serves
    calls,      \* the handlers
    askers,     \* the callers: which call they wait for and what they were told
    sendLeft
claimVars == <<keys, taken>>
sendVars == <<mode, play, up, keys, outbox, taken, drafts, calls, askers, sendLeft>>

NoCall == [at |-> "none", verdict |-> "none"]
Way(c) == play[c[1]].way
Text(c) == play[c[1]].text
Durable == mode \in {"beside", "primary"}
\* On the legacy paths only the web interface and the agents give a key.
Keyed(c) == play[c[1]].key # NoKey /\ (Way(c) \in {"web", "agent"} \/ Durable)
\* A draft's key is made of its id; a message that has none gets one of its own.
KeyOf(c) ==
    IF Way(c) = "draft" THEN play[c[1]].draft ELSE IF Keyed(c) THEN play[c[1]].key ELSE c
\* The command line runs the legacy send in its own process.
Own(c) == Way(c) = "cli" /\ ~Durable

SendTypeOK ==
    /\ mode \in {"legacy", "beside", "primary"} /\ play \in Plays /\ up \in BOOLEAN
    /\ keys \in [SendKeys -> {"free", "sending", "sent", "failed", "unrecorded"}]
    /\ outbox \in [OutKeys -> [text : Words \cup {NoText}, sent : BOOLEAN]]
    /\ taken \in [OutKeys -> Nat]
    /\ drafts \in [Drafts -> Words \cup {NoText}]
    /\ calls \in [Calls -> [at : {"none", "claim", "known", "post", "record", "settle", "get", "submit", "drop"},
                            verdict : {"none", "release", "sent", "failed", "unrecorded"}]]
    /\ askers \in [Asks -> [n : 0..SendTries,
                           told : {"nothing", "waiting", "ok", "refused", "failed", "unknown"}]]

SendInit ==
    /\ mode \in {"legacy", "beside", "primary"} /\ play \in Plays /\ up = TRUE
    /\ keys = [k \in SendKeys |-> "free"]
    /\ outbox = [k \in OutKeys |-> [text |-> NoText, sent |-> FALSE]]
    /\ taken = [k \in OutKeys |-> 0]
    /\ drafts \in [Drafts -> Words]
    /\ calls = [c \in Calls |-> NoCall]
    /\ askers = [a \in Asks |-> [n |-> 0, told |-> "nothing"]]
    /\ sendLeft = SendBudget
SpendSend == sendLeft > 0 /\ sendLeft' = sendLeft - 1

\* The caller hears of the call that it waits for, and of no earlier one.
Hears(c, what) ==
    askers' = IF askers[c[1]] = [n |-> c[2], told |-> "waiting"]
             THEN [askers EXCEPT ![c[1]].told = what] ELSE askers
MoveTo(c, step, verdict) == calls' = [calls EXCEPT ![c] = [at |-> step, verdict |-> verdict]]
Answer(c, what) == MoveTo(c, "none", "none") /\ Hears(c, what)

(* --- the callers ------------------------------------------------------------ *)

\* Where the handler of a way begins. Agents and the command line look first how
\* the daemon runs.
LegacyEntry(c) == IF Keyed(c) THEN "claim" ELSE "post"
ToolEntry(c) == IF Durable THEN "submit" ELSE "post"
CliEntry(c) == IF Durable THEN "submit" ELSE "post"
AgentEntry(c) == IF Durable THEN "submit" ELSE LegacyEntry(c)
Entry(c) ==
    CASE Way(c) = "draft" -> "get"
      [] Way(c) = "web" -> LegacyEntry(c)
      [] Way(c) = "agent" -> AgentEntry(c)
      [] Way(c) = "cli" -> CliEntry(c)
      [] OTHER -> ToolEntry(c)
\* The message is asked for, or again by a caller that does not know that it
\* was sent. /api/send is closed in primary.
Ask(a) ==
    LET c == <<a, askers[a].n + 1>>
    IN /\ askers[a].n < SendTries /\ askers[a].told \in {"nothing", "unknown", "failed"}
       /\ up \/ Own(c)
       /\ IF Way(c) = "web" /\ mode = "primary"
          THEN askers' = [askers EXCEPT ![a] = [n |-> c[2], told |-> "refused"]] /\ UNCHANGED calls
          ELSE /\ askers' = [askers EXCEPT ![a] = [n |-> c[2], told |-> "waiting"]]
               /\ MoveTo(c, Entry(c), "none")
    /\ UNCHANGED <<mode, play, up, claimVars, outbox, drafts, sendLeft>>
\* The caller's request times out; the handler goes on.
HangUp(a) ==
    /\ askers[a].told = "waiting" /\ askers' = [askers EXCEPT ![a].told = "unknown"]
    /\ UNCHANGED <<mode, play, up, claimVars, outbox, drafts, calls, sendLeft>>

(* --- the legacy path -------------------------------------------------------- *)

CallOnly == UNCHANGED <<mode, play, up, outbox>>
\* ClaimOutgoingSendKey inserts the key, or reads it when there is one already.
TakeKey(c) ==
    /\ calls[c].at = "claim"
    /\ LET k == KeyOf(c)
       IN \/ /\ keys[k] = "free" /\ keys' = [keys EXCEPT ![k] = "sending"]
             /\ MoveTo(c, "post", "none") /\ UNCHANGED <<askers, sendLeft>>
          \/ keys[k] # "free" /\ MoveTo(c, "known", "none") /\ UNCHANGED <<keys, askers, sendLeft>>
          \/ SpendSend /\ Answer(c, "failed") /\ UNCHANGED keys
    /\ CallOnly /\ UNCHANGED <<taken, drafts>>
\* writeIdempotentSendResponse, which takes a key that is gone by now for sent.
ToldAgain(status) == IF status \in {"sending", "failed"} THEN "refused" ELSE "ok"
ReadKey(c) ==
    /\ calls[c].at = "known"
    /\ \/ Answer(c, ToldAgain(keys[KeyOf(c)])) /\ UNCHANGED sendLeft
       \/ SpendSend /\ Answer(c, "failed")
    /\ CallOnly /\ UNCHANGED <<claimVars, drafts>>
\* What the platform answers: it took the message; no client, thread or upload,
\* which gives the claim back; or an error, after it took the message or before.
OutcomesReleased ==
    [took : BOOLEAN, verdict : {"failed", "release"}] \cup {[took |-> TRUE, verdict |-> "sent"]}
Outcomes ==
    [took : BOOLEAN, verdict : {"failed"}]
    \cup {[took |-> FALSE, verdict |-> "release"], [took |-> TRUE, verdict |-> "sent"]}
Post(c) ==
    /\ calls[c].at = "post"
    /\ \E o \in Outcomes :
         /\ taken' = [taken EXCEPT ![KeyOf(c)] = IF o.took THEN @ + 1 ELSE @]
         /\ MoveTo(c, IF o.verdict = "sent" THEN "record" ELSE "settle", o.verdict)
    /\ CallOnly /\ UNCHANGED <<keys, drafts, askers, sendLeft>>
\* RecordOutgoingMessage, which takes the draft away with it.
Record(c) ==
    /\ calls[c].at = "record"
    /\ \/ /\ drafts' = IF Way(c) = "draft" THEN [drafts EXCEPT ![play[c[1]].draft] = NoText] ELSE drafts
          /\ MoveTo(c, "settle", "sent") /\ UNCHANGED sendLeft
       \/ SpendSend /\ MoveTo(c, "settle", "unrecorded") /\ UNCHANGED drafts
    /\ CallOnly /\ UNCHANGED <<claimVars, askers>>
\* What the caller hears of a message that was sent and is not recorded.
WebUnrecorded == "ok"
DraftUnrecorded == "failed"
ToolUnrecorded == "failed"
CliUnrecorded == "failed"
Unrecorded(c) ==
    CASE Way(c) \in {"web", "agent"} -> WebUnrecorded
      [] Way(c) = "draft" -> DraftUnrecorded
      [] Way(c) = "cli" -> CliUnrecorded
      [] OTHER -> ToolUnrecorded
Heard(c, verdict) ==
    CASE verdict = "sent" -> "ok"
      [] verdict = "unrecorded" -> Unrecorded(c)
      [] OTHER -> "failed"
\* completeIdempotentSend, or releaseIdempotentSend.
Settled(c, verdict) == IF verdict = "release" THEN "free" ELSE verdict
SettleKey(c) ==
    /\ calls[c].at = "settle" /\ Answer(c, Heard(c, calls[c].verdict))
    /\ \/ /\ keys' = IF Keyed(c) THEN [keys EXCEPT ![KeyOf(c)] = Settled(c, calls[c].verdict)] ELSE keys
          /\ UNCHANGED sendLeft
       \/ Keyed(c) /\ SpendSend /\ UNCHANGED keys
    /\ CallOnly /\ UNCHANGED <<taken, drafts>>

(* --- drafts, and the outbox ------------------------------------------------- *)

GetDraft(c) ==
    /\ calls[c].at = "get"
    /\ \/ drafts[play[c[1]].draft] = NoText /\ Answer(c, "refused")
       \/ /\ drafts[play[c[1]].draft] # NoText /\ UNCHANGED askers
          /\ MoveTo(c, IF mode = "primary" THEN "submit" ELSE "post", "none")
    /\ CallOnly /\ UNCHANGED <<claimVars, drafts, sendLeft>>
\* SubmitTextV2: a known key answers with its row, or refuses another text;
\* or it queues the text beside it.
SameText(c) == outbox[KeyOf(c)].text = Text(c)
Submit(c) ==
    /\ calls[c].at = "submit"
    /\ LET row == outbox[KeyOf(c)]
           done == IF Way(c) = "draft" THEN MoveTo(c, "drop", "none") /\ UNCHANGED askers ELSE Answer(c, "ok")
       IN \/ /\ row.text = NoText /\ done /\ UNCHANGED sendLeft
             /\ outbox' = [outbox EXCEPT ![KeyOf(c)].text = Text(c)]
          \/ row.text # NoText /\ SameText(c) /\ done /\ UNCHANGED <<outbox, sendLeft>>
          \/ row.text # NoText /\ ~SameText(c) /\ Answer(c, "refused") /\ UNCHANGED <<outbox, sendLeft>>
          \/ /\ SpendSend /\ UNCHANGED outbox
             /\ Answer(c, IF Way(c) \in {"draft", "tool"} THEN "refused" ELSE "unknown")
    /\ UNCHANGED <<mode, play, up, claimVars, drafts>>
\* DeleteDraft, whose failure is ignored.
DropDraft(c) ==
    /\ calls[c].at = "drop" /\ Answer(c, "ok")
    /\ \/ drafts' = [drafts EXCEPT ![play[c[1]].draft] = NoText] /\ UNCHANGED sendLeft
       \/ SpendSend /\ UNCHANGED drafts
    /\ CallOnly /\ UNCHANGED claimVars
\* The outbox promises to send what it holds, once.
OutboxSends(k) ==
    /\ outbox[k].text # NoText /\ ~outbox[k].sent
    /\ outbox' = [outbox EXCEPT ![k].sent = TRUE] /\ taken' = [taken EXCEPT ![k] = @ + 1]
    /\ UNCHANGED <<mode, play, up, keys, drafts, calls, askers, sendLeft>>
EditDraft(d) ==
    /\ up /\ SpendSend
    /\ \E t \in Words \cup {NoText} : t # drafts[d] /\ drafts' = [drafts EXCEPT ![d] = t]
    /\ UNCHANGED <<mode, play, up, claimVars, outbox, calls, askers>>

(* --- the daemon dies -------------------------------------------------------- *)

Die ==
    /\ up /\ SpendSend /\ up' = FALSE
    /\ calls' = [c \in Calls |-> IF Own(c) THEN calls[c] ELSE NoCall]
    /\ askers' = [a \in Asks |-> IF askers[a].told = "waiting" /\ calls[<<a, askers[a].n>>] # NoCall
                                   /\ ~Own(<<a, askers[a].n>>)
                                THEN [askers[a] EXCEPT !.told = "unknown"] ELSE askers[a]]
    /\ UNCHANGED <<mode, play, claimVars, outbox, drafts>>
Restarts ==
    /\ ~up /\ up' = TRUE
    /\ UNCHANGED <<mode, play, claimVars, outbox, drafts, calls, askers, sendLeft>>

SendNext ==
    \/ \E a \in Asks : Ask(a) \/ HangUp(a)
    \/ \E c \in Calls : \/ TakeKey(c) \/ ReadKey(c) \/ Post(c) \/ Record(c) \/ SettleKey(c)
                        \/ GetDraft(c) \/ Submit(c) \/ DropDraft(c)
    \/ \E k \in OutKeys : OutboxSends(k)
    \/ \E d \in Drafts : EditDraft(d)
    \/ Die \/ Restarts
SendSpec == SendInit /\ [][SendNext]_sendVars

(* --- properties ------------------------------------------------------------- *)

\* However often a message is asked for under one key, whatever is lost between
\* caller, daemon and platform: the platform gets it once (api.go:2205-2215). Of
\* a draft the outbox says so; the legacy path has no key for it.
KeyedOnce ==
    \A k \in SendKeys \cup (IF mode = "primary" THEN Drafts ELSE {}) : taken[k] <= 1

\* A caller that is told of success: the platform or the outbox has the message.
\* Not so when the claim it found was given back before it read the claim's state.
SuccessIsReal ==
    \A a \in Asks : LET k == KeyOf(<<a, askers[a].n>>)
                    IN askers[a].told = "ok" => taken[k] > 0 \/ outbox[k].text # NoText

\* An agent that hears a hard refusal, which "proves the request was received and
\* refused" (localapi.go:683): nothing was sent, unless the key has another text.
\* The refusal of a repeated key says it of a message that was sent.
RefusedIsUnsent ==
    \A a \in Asks :
        LET c == <<a, askers[a].n>>
        IN askers[a].told = "refused" /\ Way(c) = "agent" =>
             taken[KeyOf(c)] = 0 \/ \E b \in Asks : KeyOf(<<b, 1>>) = KeyOf(c) /\ Text(<<b, 1>>) # Text(c)
=============================================================================
