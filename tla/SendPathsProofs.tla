-------------------------- MODULE SendPathsProofs ---------------------------
(* What goes out, and what WhatsApp's link brings in.  However many callers *)
(* ask however often, what is sent under a key is sent once: a free claim   *)
(* has no handler behind it, a held one has at most one, and a key that     *)
(* goes through the claims never goes through the outbox.  The legacy       *)
(* scheduler: the claim, the snapshot a pass works on and the tally of      *)
(* calls fit together, from which follows that only a bridge's false denial *)
(* repeats a message.  The receive pipeline of WhatsApp: an attachment that *)
(* the store lacks has a download that is still owed.                       *)
EXTENDS SendPaths, Scheduler, WhatsAppReceive, TLAPS, FiniteSetTheorems, SequenceTheorems,
        WellFoundedInduction

-----------------------------------------------------------------------------
(* The paths of a send.                                                     *)

\* The handler works on a legacy send that holds its key's claim.
Works(c) == calls[c].at \in {"post", "record", "settle"}

\* Which way a handler can have come to where it is.
WayFits ==
    \A c \in Calls :
        /\ calls[c].at \in {"get", "drop"} => Way(c) = "draft"
        /\ calls[c].at = "claim" => Keyed(c) /\ Way(c) # "draft" /\ (Way(c) = "web" \/ ~Durable)
        /\ Works(c) => IF Way(c) = "draft" THEN mode # "primary" ELSE Way(c) = "web" \/ ~Durable
        /\ calls[c].at = "submit" =>
             IF Way(c) = "draft" THEN mode = "primary" ELSE Way(c) # "web" /\ Durable
\* The keys of the claims, and those of the outbox.
Claimed(k) == \E c \in Calls : KeyOf(c) = k /\ (Way(c) = "web" \/ ~Durable)
Queued(k) == \E c \in Calls : KeyOf(c) = k /\ Way(c) # "web" /\ Durable
KeysApart ==
    \A k \in SendKeys :
        /\ keys[k] # "free" => Claimed(k)
        /\ outbox[k].text # NoText => Queued(k)
\* One handler at most works under a key, and its claim is held.
ClaimIsHeld ==
    \A c \in Calls : Works(c) /\ KeyOf(c) \in SendKeys =>
        /\ keys[KeyOf(c)] = "sending"
        /\ \A d \in Calls : Works(d) /\ KeyOf(d) = KeyOf(c) => d = c
\* What the platform took of a key.
Once(k) == IF outbox[k].sent THEN 1 ELSE 0
TakenFits ==
    /\ \A k \in OutKeys : outbox[k].sent => outbox[k].text # NoText
    /\ \A k \in SendKeys : taken[k] <= 1 /\ (keys[k] = "free" => taken[k] = Once(k))
    /\ \A d \in Drafts : mode = "primary" => taken[d] = Once(d)
    /\ \A c \in Calls : KeyOf(c) \in SendKeys =>
         /\ calls[c].at = "post" => taken[KeyOf(c)] = 0
         /\ calls[c].at = "settle" /\ calls[c].verdict = "release" => taken[KeyOf(c)] = 0
HasVerdict == \A c \in Calls : calls[c].at = "settle" => calls[c].verdict # "none"
SendInv == SendTypeOK /\ HasVerdict /\ WayFits /\ KeysApart /\ ClaimIsHeld /\ TakenFits

-----------------------------------------------------------------------------
(* Helpers *)

\* What a key says of the message that it is of.
LEMMA KeyFacts ==
    ASSUME SendTypeOK, NEW c \in Calls
    PROVE  /\ KeyOf(c) \in OutKeys
           /\ Way(c) = "draft" => KeyOf(c) \in Drafts
           /\ KeyOf(c) \in Drafts => Way(c) = "draft"
           /\ KeyOf(c) \in SendKeys =>
                /\ Keyed(c) /\ Way(c) # "draft" /\ play[c[1]].key = KeyOf(c) /\ KeyOf(c) # NoKey
           /\ Way(c) # "draft" /\ Keyed(c) => KeyOf(c) \in SendKeys
           /\ c[1] \in Asks
  <1>1. c[1] \in Asks /\ c \notin SendKeys /\ c \notin Drafts
    BY SendPathsAssumption DEF Calls
  <1>2. /\ play[c[1]].key \in SendKeys \cup {NoKey} /\ play[c[1]].draft \in Drafts
        /\ SendKeys \cap Drafts = {} /\ NoKey \notin SendKeys
    BY <1>1, SendPathsAssumption DEF SendTypeOK
  <1>. QED
    BY <1>1, <1>2 DEF KeyOf, Keyed, Way, OutKeys

\* No key goes both ways.
LEMMA OneWay ==
    ASSUME SendTypeOK, NEW k \in SendKeys
    PROVE  ~(Claimed(k) /\ Queued(k))
  <1>. SUFFICES ASSUME NEW c \in Calls, KeyOf(c) = k, Way(c) = "web" \/ ~Durable,
                       NEW d \in Calls, KeyOf(d) = k, Way(d) # "web", Durable
                PROVE  FALSE
    BY DEF Claimed, Queued
  <1>1. play[c[1]].key = k /\ play[d[1]].key = k /\ k # NoKey /\ c[1] \in Asks /\ d[1] \in Asks
    BY KeyFacts
  <1>2. play[c[1]].way = play[d[1]].way
    BY <1>1, KeyIsOneMessage DEF SendTypeOK
  <1>. QED
    BY <1>2 DEF Way

\* What is sent and its way do not change.
LEMMA Frame ==
    ASSUME mode' = mode, play' = play
    PROVE  /\ Durable' = Durable
           /\ \A c \in Calls : KeyOf(c)' = KeyOf(c) /\ Way(c)' = Way(c) /\ Keyed(c)' = Keyed(c)
           /\ \A k \in SendKeys : Claimed(k)' = Claimed(k) /\ Queued(k)' = Queued(k)
  BY DEF Durable, KeyOf, Way, Keyed, Claimed, Queued

-----------------------------------------------------------------------------
(* Types *)

\* Where a handler is, and what it found.
Places == {"none", "claim", "known", "post", "record", "settle", "get", "submit", "drop"}
Verdicts == {"none", "release", "sent", "failed", "unrecorded"}

\* A handler that moves on is still a handler.
LEMMA GoType ==
    ASSUME SendTypeOK, NEW c \in Calls, NEW step \in Places, NEW verdict \in Verdicts,
           MoveTo(c, step, verdict)
    PROVE  calls' \in [Calls -> [at : Places, verdict : Verdicts]]
  BY DEF MoveTo, SendTypeOK, Places, Verdicts

Tellings == {"nothing", "waiting", "ok", "refused", "failed", "unknown"}
\* A caller that hears of its call is still a caller.
LEMMA HearsType ==
    ASSUME SendTypeOK, NEW c \in Calls, NEW what \in Tellings, Hears(c, what)
    PROVE  askers' \in [Asks -> [n : 0..SendTries, told : Tellings]]
  BY KeyFacts DEF Hears, SendTypeOK, Tellings

\* ... and so are both when the call is answered.
LEMMA AnswerType ==
    ASSUME SendTypeOK, NEW c \in Calls, NEW what \in Tellings, Answer(c, what)
    PROVE  /\ calls' \in [Calls -> [at : Places, verdict : Verdicts]]
           /\ askers' \in [Asks -> [n : 0..SendTries, told : Tellings]]
  BY GoType, HearsType DEF Answer, Places, Verdicts

\* What a post may come to.
LEMMA OutcomeType ==
    ASSUME NEW o \in Outcomes
    PROVE  /\ o.took \in BOOLEAN /\ o.verdict \in {"failed", "release", "sent"}
           /\ o.verdict = "release" => o.took = FALSE
  <1>1. CASE o \in [took : BOOLEAN, verdict : {"failed"}]
    BY <1>1
  <1>2. CASE o = [took |-> FALSE, verdict |-> "release"]
    BY <1>2
  <1>3. CASE o = [took |-> TRUE, verdict |-> "sent"]
    BY <1>3
  <1>. QED
    BY <1>1, <1>2, <1>3 DEF Outcomes

\* Every step keeps the types.
LEMMA TypeStep ==
    ASSUME SendTypeOK, HasVerdict, SendNext PROVE SendTypeOK'
  <1>. USE DEF SendTypeOK
  <1>1. ASSUME NEW a \in Asks, Ask(a) PROVE SendTypeOK'
    <2>1. askers[a].n + 1 \in 1..SendTries /\ <<a, askers[a].n + 1>> \in Calls
      BY <1>1, SendPathsAssumption DEF Ask, Calls
    <2>2. Entry(<<a, askers[a].n + 1>>) \in Places
      BY DEF Entry, LegacyEntry, ToolEntry, CliEntry, AgentEntry, Places
    <2>3. askers' \in [Asks -> [n : 0..SendTries, told : Tellings]]
      BY <1>1, <2>1 DEF Ask, Tellings
    <2>4. calls' \in [Calls -> [at : Places, verdict : Verdicts]]
      <3>. DEFINE c == <<a, askers[a].n + 1>>
      <3>1. "none" \in Verdicts /\ c \in Calls /\ Entry(c) \in Places
        BY <2>1, <2>2 DEF Verdicts
      <3>2. UNCHANGED calls \/ MoveTo(c, Entry(c), "none")
        BY <1>1 DEF Ask
      <3>3. ASSUME MoveTo(c, Entry(c), "none")
            PROVE  calls' \in [Calls -> [at : Places, verdict : Verdicts]]
        <4>. HIDE DEF c
        <4>. QED
          BY <3>1, <3>3, GoType
      <3>4. CASE UNCHANGED calls
        BY <3>4 DEF Places, Verdicts
      <3>. QED
        BY <3>2, <3>3, <3>4
    <2>. QED
      BY <1>1, <2>3, <2>4 DEF Ask, claimVars, Tellings, Places, Verdicts
  <1>2. ASSUME NEW a \in Asks, HangUp(a) PROVE SendTypeOK'
    BY <1>2 DEF HangUp, claimVars
  <1>3. ASSUME NEW c \in Calls, TakeKey(c) PROVE SendTypeOK'
    <2>1. CASE keys[KeyOf(c)] = "free" /\ keys' = [keys EXCEPT ![KeyOf(c)] = "sending"]
               /\ MoveTo(c, "post", "none") /\ UNCHANGED <<askers, sendLeft>>
      BY <1>3, <2>1, GoType DEF TakeKey, CallOnly, Places, Verdicts
    <2>2. CASE UNCHANGED keys /\ Answer(c, "failed")
      BY <1>3, <2>2, AnswerType DEF TakeKey, CallOnly, Places, Verdicts, Tellings
    <2>3. CASE UNCHANGED <<keys, askers>> /\ MoveTo(c, "known", "none")
      BY <1>3, <2>3, GoType DEF TakeKey, CallOnly, Places, Verdicts
    <2>. QED
      BY <1>3, <2>1, <2>2, <2>3 DEF TakeKey
  <1>3a. ASSUME NEW c \in Calls, ReadKey(c) PROVE SendTypeOK'
    <2>1. \E what \in Tellings : Answer(c, what)
      BY <1>3a DEF ReadKey, ToldAgain, Tellings
    <2>. QED
      BY <1>3a, <2>1, AnswerType DEF ReadKey, CallOnly, claimVars, Places, Verdicts, Tellings
  <1>4. ASSUME NEW c \in Calls, Post(c) PROVE SendTypeOK'
    <2>1. PICK o \in Outcomes :
            /\ taken' = [taken EXCEPT ![KeyOf(c)] = IF o.took THEN @ + 1 ELSE @]
            /\ MoveTo(c, IF o.verdict = "sent" THEN "record" ELSE "settle", o.verdict)
      BY <1>4 DEF Post
    <2>2. o.took \in BOOLEAN /\ o.verdict \in Verdicts
      BY OutcomeType DEF Verdicts
    <2>3. taken' \in [OutKeys -> Nat]
      BY <2>1, <2>2, KeyFacts
    <2>. QED
      BY <1>4, <2>1, <2>2, <2>3, GoType DEF Post, CallOnly, Places, Verdicts
  <1>5. ASSUME NEW c \in Calls, Record(c) PROVE SendTypeOK'
    <2>1. calls' \in [Calls -> [at : Places, verdict : Verdicts]]
      BY <1>5, GoType DEF Record, Places, Verdicts
    <2>2. drafts' \in [Drafts -> Words \cup {NoText}]
      BY <1>5 DEF Record
    <2>. QED
      BY <1>5, <2>1, <2>2 DEF Record, CallOnly, claimVars, Places, Verdicts
  <1>6. ASSUME NEW c \in Calls, SettleKey(c) PROVE SendTypeOK'
    <2>1. Heard(c, calls[c].verdict) \in Tellings
      BY DEF Heard, Unrecorded, WebUnrecorded, DraftUnrecorded, ToolUnrecorded, CliUnrecorded, Tellings
    <2>2. Settled(c, calls[c].verdict) \in {"free", "sending", "sent", "failed", "unrecorded"}
      BY <1>6 DEF SettleKey, Settled, HasVerdict
    <2>. HIDE DEF Settled
    <2>3. keys' \in [SendKeys -> {"free", "sending", "sent", "failed", "unrecorded"}]
      BY <1>6, <2>2 DEF SettleKey
    <2>. QED
      BY <1>6, <2>1, <2>3, AnswerType DEF SettleKey, CallOnly, Places, Verdicts, Tellings
  <1>7. ASSUME NEW c \in Calls, GetDraft(c) PROVE SendTypeOK'
    <2>1. CASE Answer(c, "refused")
      BY <1>7, <2>1, AnswerType DEF GetDraft, CallOnly, claimVars, Places, Verdicts, Tellings
    <2>2. CASE UNCHANGED askers /\ \E step \in Places : MoveTo(c, step, "none")
      BY <1>7, <2>2, GoType DEF GetDraft, CallOnly, claimVars, Places, Verdicts
    <2>. QED
      BY <1>7, <2>1, <2>2 DEF GetDraft, Places
  <1>8. ASSUME NEW c \in Calls, Submit(c) PROVE SendTypeOK'
    <2>1. outbox' \in [OutKeys -> [text : Words \cup {NoText}, sent : BOOLEAN]]
      <3>1. Text(c) \in Words
        BY KeyFacts, SendPathsAssumption DEF Text
      <3>. QED
        BY <1>8, <3>1, KeyFacts DEF Submit
    <2>2. CASE UNCHANGED askers /\ MoveTo(c, "drop", "none")
      BY <1>8, <2>1, <2>2, GoType DEF Submit, claimVars, Places, Verdicts
    <2>3. CASE \E what \in Tellings : Answer(c, what)
      BY <1>8, <2>1, <2>3, AnswerType DEF Submit, claimVars, Places, Verdicts, Tellings
    <2>. QED
      BY <1>8, <2>2, <2>3 DEF Submit, Tellings
  <1>9. ASSUME NEW c \in Calls, DropDraft(c) PROVE SendTypeOK'
    <2>1. calls' \in [Calls -> [at : Places, verdict : Verdicts]]
          /\ askers' \in [Asks -> [n : 0..SendTries, told : Tellings]]
      BY <1>9, AnswerType DEF DropDraft, Tellings
    <2>2. drafts' \in [Drafts -> Words \cup {NoText}]
      BY <1>9 DEF DropDraft
    <2>. QED
      BY <1>9, <2>1, <2>2 DEF DropDraft, CallOnly, claimVars, Places, Verdicts, Tellings
  <1>10. ASSUME NEW k \in OutKeys, OutboxSends(k) PROVE SendTypeOK'
    <2>1. outbox' \in [OutKeys -> [text : Words \cup {NoText}, sent : BOOLEAN]]
      BY <1>10 DEF OutboxSends
    <2>2. taken' \in [OutKeys -> Nat]
      BY <1>10 DEF OutboxSends
    <2>. QED
      BY <1>10, <2>1, <2>2 DEF OutboxSends
  <1>11. ASSUME NEW d \in Drafts, EditDraft(d) PROVE SendTypeOK'
    BY <1>11 DEF EditDraft, claimVars
  <1>12. ASSUME Die PROVE SendTypeOK'
    BY <1>12 DEF Die, claimVars, NoCall
  <1>13. ASSUME Restarts PROVE SendTypeOK'
    BY <1>13 DEF Restarts, claimVars
  <1>. QED
    BY <1>1, <1>2, <1>3, <1>3a, <1>4, <1>5, <1>6, <1>7, <1>8, <1>9, <1>10, <1>11, <1>12, <1>13 DEF SendNext

-----------------------------------------------------------------------------
(* The invariant *)

\* The invariant holds at first.
LEMMA InitInv == SendInit => SendInv
  <1>. SUFFICES ASSUME SendInit PROVE SendInv
    OBVIOUS
  <1>1. SendTypeOK
    BY SendPathsAssumption DEF SendInit, SendTypeOK, NoCall
  <1>2. \A k \in SendKeys : k \in OutKeys
    BY DEF OutKeys
  <1>3. \A d \in Drafts : d \in OutKeys
    BY DEF OutKeys
  <1>. QED
    BY <1>1, <1>2, <1>3, KeyFacts DEF SendInit, SendInv, HasVerdict, WayFits, KeysApart, ClaimIsHeld,
       TakenFits, Works, Once, NoCall

\* A step that moves no handler to the middle of a legacy send, and sends
\* nothing, keeps the claims: each key's claim, and what was sent under it.
LEMMA Quiet ==
    ASSUME SendInv, SendTypeOK', mode' = mode, play' = play, keys' = keys, taken' = taken,
           \A k \in OutKeys : outbox'[k].sent = outbox[k].sent,
           \A k \in OutKeys : outbox[k].text # NoText => outbox'[k].text # NoText,
           \A c \in Calls : KeyOf(c) \in SendKeys /\ Works(c)' => calls'[c] = calls[c]
    PROVE  ClaimIsHeld' /\ TakenFits'
  <1>1. /\ \A c \in Calls : KeyOf(c)' = KeyOf(c)
        /\ \A c \in Calls : KeyOf(c) \in SendKeys /\ Works(c)' => Works(c)
    BY Frame DEF Works
  <1>2. ClaimIsHeld'
    BY <1>1 DEF SendInv, ClaimIsHeld
  <1>3. SendKeys \subseteq OutKeys /\ Drafts \subseteq OutKeys
    BY DEF OutKeys
  <1>4. \A k \in OutKeys : Once(k)' = Once(k)
    BY DEF Once
  <1>5. \A c \in Calls : KeyOf(c) \in SendKeys =>
          /\ calls'[c].at = "post" => calls[c].at = "post"
          /\ calls'[c].at = "settle" => calls'[c] = calls[c]
    BY DEF Works
  <1>. QED
    BY <1>1, <1>2, <1>3, <1>4, <1>5 DEF SendInv, TakenFits

\* Nor can it be at a place that its way does not lead to.
LEMMA WaysKept ==
    ASSUME SendInv, SendNext PROVE WayFits' /\ HasVerdict'
  <1>. USE DEF SendInv
  <1>0. mode' = mode /\ play' = play
    BY DEF SendNext, Ask, HangUp, TakeKey, ReadKey, Post, Record, SettleKey, GetDraft, Submit, DropDraft,
       OutboxSends, EditDraft, Die, Restarts, CallOnly
  <1>1. /\ Durable' = Durable
        /\ \A c \in Calls : KeyOf(c)' = KeyOf(c) /\ Way(c)' = Way(c) /\ Keyed(c)' = Keyed(c)
    BY <1>0, Frame
  <1>2. ASSUME \A c \in Calls : calls'[c] \in {calls[c], NoCall}
        PROVE  WayFits' /\ HasVerdict'
    BY <1>0, <1>1, <1>2 DEF WayFits, HasVerdict, Works, NoCall
  <1>3. ASSUME NEW c \in Calls, NEW step \in Places, NEW verdict \in Verdicts, MoveTo(c, step, verdict),
               step = "settle" => verdict # "none",
               step \in {"get", "drop"} => Way(c) = "draft",
               step = "claim" => Keyed(c) /\ Way(c) # "draft" /\ (Way(c) = "web" \/ ~Durable),
               step \in {"post", "record", "settle"} =>
                 IF Way(c) = "draft" THEN mode # "primary" ELSE Way(c) = "web" \/ ~Durable,
               step = "submit" =>
                 IF Way(c) = "draft" THEN mode = "primary" ELSE Way(c) # "web" /\ Durable
        PROVE  WayFits' /\ HasVerdict'
    <2>1. \A d \in Calls : calls'[d] = IF d = c THEN [at |-> step, verdict |-> verdict] ELSE calls[d]
      BY <1>3 DEF MoveTo, SendTypeOK
    <2>. QED
      BY <1>0, <1>1, <1>3, <2>1 DEF WayFits, HasVerdict, Works
  <1>4. ASSUME NEW c \in Calls, NEW what \in Tellings, Answer(c, what) PROVE WayFits' /\ HasVerdict'
    BY <1>3, <1>4 DEF Answer, Places, Verdicts
  <1>5. ASSUME NEW a \in Asks, Ask(a) PROVE WayFits' /\ HasVerdict'
    <2>1. CASE UNCHANGED calls
      BY <1>2, <2>1
    <2>2. CASE MoveTo(<<a, askers[a].n + 1>>, Entry(<<a, askers[a].n + 1>>), "none")
               /\ ~(Way(<<a, askers[a].n + 1>>) = "web" /\ mode = "primary")
      <3>1. <<a, askers[a].n + 1>> \in Calls
        BY <1>5, SendPathsAssumption DEF Ask, Calls, SendTypeOK
      <3>2. PICK c \in Calls : c = <<a, askers[a].n + 1>>
        BY <3>1
      <3>3. Way(c) \in {"web", "draft", "agent", "tool", "cli"}
        BY KeyFacts, SendPathsAssumption DEF Way, SendTypeOK
      <3>4. MoveTo(c, Entry(c), "none")
        BY <2>2, <3>2
      <3>5. /\ Entry(c) \in {"get", "claim", "post", "submit"}
            /\ Entry(c) = "get" => Way(c) = "draft"
            /\ Entry(c) = "claim" => Keyed(c) /\ Way(c) # "draft" /\ (Way(c) = "web" \/ ~Durable)
            /\ Entry(c) = "post" => Way(c) # "draft" /\ (Way(c) = "web" \/ ~Durable)
            /\ Entry(c) = "submit" => Way(c) \notin {"web", "draft"} /\ Durable
        BY <3>3 DEF Entry, LegacyEntry, ToolEntry, CliEntry, AgentEntry
      <3>. QED
        BY <1>3, <3>4, <3>5 DEF Places, Verdicts
    <2>. QED
      BY <1>5, <2>1, <2>2 DEF Ask
  <1>6. ASSUME NEW c \in Calls, TakeKey(c) PROVE WayFits' /\ HasVerdict'
    <2>1. CASE MoveTo(c, "post", "none")
      BY <1>3, <1>6, <2>1 DEF TakeKey, WayFits, Places, Verdicts
    <2>2. CASE MoveTo(c, "known", "none")
      BY <1>3, <2>2 DEF Places, Verdicts
    <2>. QED
      BY <1>4, <1>6, <2>1, <2>2 DEF TakeKey, Tellings
  <1>6a. ASSUME NEW c \in Calls, ReadKey(c) PROVE WayFits' /\ HasVerdict'
    BY <1>4, <1>6a DEF ReadKey, ToldAgain, Tellings
  <1>7. ASSUME NEW c \in Calls, Post(c) PROVE WayFits' /\ HasVerdict'
    <2>1. PICK o \in Outcomes : MoveTo(c, IF o.verdict = "sent" THEN "record" ELSE "settle", o.verdict)
      BY <1>7 DEF Post
    <2>2. IF Way(c) = "draft" THEN mode # "primary" ELSE Way(c) = "web" \/ ~Durable
      BY <1>7 DEF Post, WayFits, Works
    <2>3. o.verdict \in {"failed", "release", "sent"}
      BY OutcomeType
    <2>. QED
      BY <1>3, <2>1, <2>2, <2>3 DEF Places, Verdicts
  <1>8. ASSUME NEW c \in Calls, Record(c) PROVE WayFits' /\ HasVerdict'
    BY <1>3, <1>8 DEF Record, WayFits, Works, Places, Verdicts
  <1>9. ASSUME NEW c \in Calls, SettleKey(c) PROVE WayFits' /\ HasVerdict'
    BY <1>4, <1>9 DEF SettleKey, Heard, Unrecorded, WebUnrecorded, DraftUnrecorded, ToolUnrecorded, CliUnrecorded, Tellings
  <1>10. ASSUME NEW c \in Calls, GetDraft(c) PROVE WayFits' /\ HasVerdict'
    <2>1. Way(c) = "draft"
      BY <1>10 DEF GetDraft, WayFits
    <2>2. CASE Answer(c, "refused")
      BY <1>4, <2>2 DEF Tellings
    <2>3. CASE MoveTo(c, IF mode = "primary" THEN "submit" ELSE "post", "none")
      BY <1>3, <2>1, <2>3 DEF Places, Verdicts
    <2>. QED
      BY <1>10, <2>2, <2>3 DEF GetDraft
  <1>11. ASSUME NEW c \in Calls, Submit(c) PROVE WayFits' /\ HasVerdict'
    <2>1. CASE Way(c) = "draft" /\ MoveTo(c, "drop", "none")
      BY <1>3, <2>1 DEF Places, Verdicts
    <2>2. CASE \E what \in Tellings : Answer(c, what)
      BY <1>4, <2>2
    <2>. QED
      BY <1>11, <2>1, <2>2 DEF Submit, Tellings
  <1>12. ASSUME NEW c \in Calls, DropDraft(c) PROVE WayFits' /\ HasVerdict'
    BY <1>4, <1>12 DEF DropDraft, Tellings
  <1>13. CASE UNCHANGED calls
    BY <1>2, <1>13
  <1>14. CASE Die
    BY <1>2, <1>14 DEF Die
  <1>. QED
    BY <1>5, <1>6, <1>6a, <1>7, <1>8, <1>9, <1>10, <1>11, <1>12, <1>13, <1>14
       DEF SendNext, HangUp, OutboxSends, EditDraft, Restarts

\* A key is claimed by those that send through the claims, and queued by the others.
LEMMA ApartKept ==
    ASSUME SendInv, SendNext PROVE KeysApart'
  <1>. USE DEF SendInv
  <1>0. mode' = mode /\ play' = play
    BY DEF SendNext, Ask, HangUp, TakeKey, ReadKey, Post, Record, SettleKey, GetDraft, Submit, DropDraft,
       OutboxSends, EditDraft, Die, Restarts, CallOnly
  <1>1. \A k \in SendKeys : Claimed(k)' = Claimed(k) /\ Queued(k)' = Queued(k)
    BY <1>0, Frame
  <1>2. ASSUME keys' = keys, \A k \in SendKeys : outbox'[k].text = outbox[k].text
        PROVE  KeysApart'
    BY <1>1, <1>2 DEF KeysApart
  <1>3. SendKeys \subseteq OutKeys
    BY DEF OutKeys
  <1>4. ASSUME NEW c \in Calls, TakeKey(c) PROVE KeysApart'
    <2>1. Way(c) = "web" \/ ~Durable
      BY <1>4 DEF TakeKey, WayFits
    <2>2. KeyOf(c) \in SendKeys => Claimed(KeyOf(c))
      BY <2>1 DEF Claimed
    <2>3. \A k \in SendKeys : keys'[k] # keys[k] => k = KeyOf(c)
      BY <1>4 DEF TakeKey, SendTypeOK
    <2>. QED
      BY <1>1, <1>4, <2>2, <2>3 DEF TakeKey, CallOnly, KeysApart
  <1>5. ASSUME NEW c \in Calls, SettleKey(c) PROVE KeysApart'
    <2>1. Keyed(c) => Way(c) # "draft"
      BY KeyIsOneMessage, KeyFacts DEF Keyed, Way, SendTypeOK
    <2>2. Keyed(c) => Way(c) = "web" \/ ~Durable
      BY <1>5, <2>1 DEF SettleKey, WayFits, Works
    <2>3. Keyed(c) => KeyOf(c) \in SendKeys /\ Claimed(KeyOf(c))
      BY <2>1, <2>2, KeyFacts DEF Claimed
    <2>4. \A k \in SendKeys : keys'[k] # keys[k] => Claimed(k)
      BY <1>5, <2>3 DEF SettleKey, SendTypeOK
    <2>. QED
      BY <1>1, <1>5, <2>4 DEF SettleKey, CallOnly, KeysApart
  <1>6. ASSUME NEW c \in Calls, Submit(c) PROVE KeysApart'
    <2>1. KeyOf(c) \in SendKeys => Queued(KeyOf(c))
      BY <1>6, KeyFacts DEF Submit, WayFits, Queued
    <2>2. \A k \in SendKeys : outbox'[k].text # outbox[k].text => k = KeyOf(c)
      BY <1>3, <1>6 DEF Submit, SendTypeOK
    <2>. QED
      BY <1>1, <1>6, <2>1, <2>2 DEF Submit, claimVars, KeysApart
  <1>7. ASSUME NEW k \in OutKeys, OutboxSends(k) PROVE KeysApart'
    BY <1>2, <1>3, <1>7 DEF OutboxSends, SendTypeOK
  <1>8. CASE UNCHANGED <<keys, outbox>>
    BY <1>2, <1>8
  <1>. QED
    BY <1>4, <1>5, <1>6, <1>7, <1>8 DEF SendNext, Ask, HangUp, ReadKey, Post, Record, GetDraft, DropDraft,
       EditDraft, Die, Restarts, CallOnly, claimVars

\* A key that a handler works under was never queued.
LEMMA ClaimedUnsent ==
    ASSUME SendInv, NEW k \in SendKeys, Claimed(k)
    PROVE  outbox[k].text = NoText /\ outbox[k].sent = FALSE /\ Once(k) = 0
  <1>1. outbox[k].text = NoText
    BY OneWay DEF SendInv, KeysApart
  <1>2. k \in OutKeys /\ outbox[k].sent \in BOOLEAN
    BY DEF OutKeys, SendInv, SendTypeOK
  <1>. QED
    BY <1>1, <1>2 DEF SendInv, TakenFits, Once

\* No step lets a second handler in, or forgets what the platform took.
LEMMA ClaimsKept ==
    ASSUME SendInv, SendNext, SendTypeOK' PROVE ClaimIsHeld' /\ TakenFits'
  <1>. USE DEF SendInv
  <1>0. mode' = mode /\ play' = play
    BY DEF SendNext, Ask, HangUp, TakeKey, ReadKey, Post, Record, SettleKey, GetDraft, Submit, DropDraft,
       OutboxSends, EditDraft, Die, Restarts, CallOnly
  <1>1. /\ \A c \in Calls : KeyOf(c)' = KeyOf(c) /\ Way(c)' = Way(c) /\ Keyed(c)' = Keyed(c)
        /\ SendKeys \subseteq OutKeys /\ Drafts \subseteq OutKeys
    BY <1>0, Frame DEF OutKeys
  <1>2. ASSUME NEW c \in Calls, NEW step, NEW verdict, MoveTo(c, step, verdict),
               UNCHANGED <<keys, taken, outbox>>,
               KeyOf(c) \in SendKeys => step \notin {"post", "record", "settle"}
        PROVE  ClaimIsHeld' /\ TakenFits'
    <2>1. \A d \in Calls : calls'[d] = IF d = c THEN [at |-> step, verdict |-> verdict] ELSE calls[d]
      BY <1>2 DEF MoveTo, SendTypeOK
    <2>2. \A d \in Calls : KeyOf(d) \in SendKeys /\ Works(d)' => calls'[d] = calls[d]
      BY <1>2, <2>1 DEF Works
    <2>. QED
      BY <1>0, <1>2, <2>2, Quiet
  <1>3. ASSUME NEW c \in Calls, NEW what, Answer(c, what), UNCHANGED <<keys, taken, outbox>>
        PROVE  ClaimIsHeld' /\ TakenFits'
    BY <1>2, <1>3 DEF Answer
  <1>4. ASSUME NEW a \in Asks, Ask(a) PROVE ClaimIsHeld' /\ TakenFits'
    <2>1. CASE UNCHANGED calls
      BY <1>0, <1>4, <2>1, Quiet DEF Ask, claimVars
    <2>2. CASE MoveTo(<<a, askers[a].n + 1>>, Entry(<<a, askers[a].n + 1>>), "none")
      <3>1. <<a, askers[a].n + 1>> \in Calls
        BY <1>4, SendPathsAssumption DEF Ask, Calls, SendTypeOK
      <3>2. PICK c \in Calls : c = <<a, askers[a].n + 1>>
        BY <3>1
      <3>3. KeyOf(c) \in SendKeys => Entry(c) \notin {"post", "record", "settle"}
        BY KeyFacts DEF Entry, LegacyEntry, ToolEntry, CliEntry, AgentEntry, Keyed
      <3>. QED
        BY <1>2, <1>4, <2>2, <3>2, <3>3 DEF Ask, claimVars
    <2>. QED
      BY <1>4, <2>1, <2>2 DEF Ask
  <1>5. ASSUME NEW c \in Calls, TakeKey(c) PROVE ClaimIsHeld' /\ TakenFits'
    <2>1. CASE UNCHANGED keys /\ (Answer(c, "failed") \/ MoveTo(c, "known", "none"))
      BY <1>2, <1>3, <1>5, <2>1 DEF TakeKey, CallOnly
    <2>2. CASE keys[KeyOf(c)] = "free" /\ keys' = [keys EXCEPT ![KeyOf(c)] = "sending"]
               /\ MoveTo(c, "post", "none")
      <3>1. KeyOf(c) \in SendKeys /\ Claimed(KeyOf(c))
        BY <1>5, KeyFacts DEF TakeKey, WayFits, Claimed
      <3>2. taken[KeyOf(c)] = 0
        BY <2>2, <3>1, ClaimedUnsent DEF TakenFits
      <3>3. \A d \in Calls : Works(d) => KeyOf(d) # KeyOf(c)
        BY <2>2, <3>1 DEF ClaimIsHeld
      <3>4. \A d \in Calls : calls'[d] = IF d = c THEN [at |-> "post", verdict |-> "none"] ELSE calls[d]
        BY <2>2 DEF MoveTo, SendTypeOK
      <3>5. \A k \in SendKeys : keys'[k] = IF k = KeyOf(c) THEN "sending" ELSE keys[k]
        BY <2>2 DEF SendTypeOK
      <3>6. \A d \in Calls : Works(d)' <=> (Works(d) \/ d = c)
        BY <3>4 DEF Works
      <3>7. ClaimIsHeld'
        BY <1>1, <3>1, <3>3, <3>5, <3>6 DEF ClaimIsHeld
      <3>8. UNCHANGED <<taken, outbox>>
        BY <1>5 DEF TakeKey, CallOnly
      <3>. QED
        BY <1>0, <1>1, <3>2, <3>4, <3>5, <3>7, <3>8 DEF TakenFits, Once
    <2>. QED
      BY <1>5, <2>1, <2>2 DEF TakeKey
  <1>5a. ASSUME NEW c \in Calls, ReadKey(c) PROVE ClaimIsHeld' /\ TakenFits'
    BY <1>3, <1>5a DEF ReadKey, CallOnly, claimVars
  <1>6. ASSUME NEW c \in Calls, Post(c) PROVE ClaimIsHeld' /\ TakenFits'
    <2>1. PICK o \in Outcomes :
            /\ taken' = [taken EXCEPT ![KeyOf(c)] = IF o.took THEN @ + 1 ELSE @]
            /\ MoveTo(c, IF o.verdict = "sent" THEN "record" ELSE "settle", o.verdict)
      BY <1>6 DEF Post
    <2>2. o.verdict \in {"failed", "release", "sent"} /\ (o.verdict = "release" => o.took = FALSE)
          /\ o.took \in BOOLEAN
      BY OutcomeType
    <2>3. \A d \in Calls : calls'[d] =
             IF d = c THEN [at |-> IF o.verdict = "sent" THEN "record" ELSE "settle", verdict |-> o.verdict]
             ELSE calls[d]
      BY <2>1 DEF MoveTo, SendTypeOK
    <2>4. UNCHANGED <<keys, outbox>>
      BY <1>6 DEF Post, CallOnly
    <2>5. calls[c].at = "post"
      BY <1>6 DEF Post
    <2>6. \A d \in Calls : Works(d)' <=> Works(d)
      BY <2>3, <2>5 DEF Works
    <2>7. ClaimIsHeld'
      BY <1>1, <2>4, <2>6 DEF ClaimIsHeld
    <2>8. KeyOf(c) \in OutKeys /\ \A k \in OutKeys : taken'[k] =
             IF k = KeyOf(c) /\ o.took THEN taken[k] + 1 ELSE taken[k]
      BY <2>1, <2>2, KeyFacts DEF SendTypeOK
    <2>9. KeyOf(c) \in SendKeys =>
            /\ taken[KeyOf(c)] = 0 /\ keys[KeyOf(c)] = "sending"
            /\ \A d \in Calls : Works(d) /\ KeyOf(d) = KeyOf(c) => d = c
      BY <2>5 DEF TakenFits, ClaimIsHeld, Works
    <2>10. KeyOf(c) \in Drafts => mode # "primary"
      BY <2>5, KeyFacts DEF WayFits, Works
    <2>11. \A k \in SendKeys : taken'[k] <= 1 /\ (keys'[k] = "free" => taken'[k] = Once(k)')
      BY <1>1, <2>2, <2>4, <2>8, <2>9 DEF TakenFits, Once
    <2>12. \A d \in Calls : KeyOf(d) \in SendKeys =>
             /\ calls'[d].at = "post" => taken'[KeyOf(d)] = 0
             /\ calls'[d].at = "settle" /\ calls'[d].verdict = "release" => taken'[KeyOf(d)] = 0
      BY <1>1, <2>2, <2>3, <2>8, <2>9 DEF TakenFits, Works
    <2>13. \A d \in Drafts : mode' = "primary" => taken'[d] = Once(d)'
      BY <1>0, <1>1, <2>4, <2>8, <2>10 DEF TakenFits, Once
    <2>. QED
      BY <1>1, <2>4, <2>7, <2>11, <2>12, <2>13 DEF TakenFits
  <1>7. ASSUME NEW c \in Calls, Record(c) PROVE ClaimIsHeld' /\ TakenFits'
    <2>1. UNCHANGED <<keys, taken, outbox>> /\ calls[c].at = "record"
      BY <1>7 DEF Record, CallOnly, claimVars
    <2>2. \A d \in Calls : d # c => calls'[d] = calls[d]
      BY <1>7 DEF Record, MoveTo, SendTypeOK
    <2>3. calls'[c].at = "settle" /\ calls'[c].verdict # "release"
      BY <1>7 DEF Record, MoveTo, SendTypeOK
    <2>4. \A d \in Calls : Works(d)' <=> Works(d)
      BY <2>1, <2>2, <2>3 DEF Works
    <2>. QED
      BY <1>0, <1>1, <2>1, <2>2, <2>3, <2>4 DEF ClaimIsHeld, TakenFits, Once
  <1>8. ASSUME NEW c \in Calls, SettleKey(c) PROVE ClaimIsHeld' /\ TakenFits'
    <2>1. UNCHANGED <<taken, outbox>> /\ calls[c].at = "settle"
      BY <1>8 DEF SettleKey, CallOnly
    <2>2. \A d \in Calls : calls'[d] = IF d = c THEN [at |-> "none", verdict |-> "none"] ELSE calls[d]
      BY <1>8 DEF SettleKey, Answer, MoveTo, SendTypeOK
    <2>3. CASE UNCHANGED keys
      BY <1>3, <1>8, <2>1, <2>3 DEF SettleKey
    <2>4. CASE Keyed(c) /\ keys' = [keys EXCEPT ![KeyOf(c)] = Settled(c, calls[c].verdict)]
      <3>1. Way(c) # "draft"
        BY <2>4, KeyIsOneMessage, KeyFacts DEF Keyed, Way, SendTypeOK
      <3>2. KeyOf(c) \in SendKeys /\ (Way(c) = "web" \/ ~Durable)
        BY <2>1, <2>4, <3>1, KeyFacts DEF WayFits, Works
      <3>3. Claimed(KeyOf(c)) /\ Works(c)
        BY <2>1, <3>2 DEF Claimed, Works
      <3>4. \A k \in SendKeys : keys'[k] = IF k = KeyOf(c) THEN Settled(c, calls[c].verdict) ELSE keys[k]
        BY <2>4 DEF SendTypeOK
      <3>5. \A d \in Calls : Works(d)' => Works(d) /\ d # c
        BY <2>2 DEF Works
      <3>6. ClaimIsHeld'
        BY <1>1, <3>2, <3>3, <3>4, <3>5 DEF ClaimIsHeld
      <3>7. Settled(c, calls[c].verdict) = "free" => taken[KeyOf(c)] = 0
        BY <2>1, <3>2 DEF TakenFits, Settled, SendTypeOK
      <3>8. Once(KeyOf(c)) = 0
        BY <3>2, <3>3, ClaimedUnsent
      <3>9. \A k : Once(k)' = Once(k)
        BY <2>1 DEF Once
      <3>10. \A k \in SendKeys : keys'[k] = "free" => taken'[k] = Once(k)'
        BY <2>1, <3>2, <3>4, <3>7, <3>8, <3>9 DEF TakenFits
      <3>. QED
        BY <1>0, <1>1, <2>1, <2>2, <3>6, <3>9, <3>10 DEF TakenFits
    <2>. QED
      BY <1>8, <2>3, <2>4 DEF SettleKey
  <1>9. ASSUME NEW c \in Calls, GetDraft(c) PROVE ClaimIsHeld' /\ TakenFits'
    <2>1. KeyOf(c) \notin SendKeys
      BY <1>9, KeyFacts DEF GetDraft, WayFits
    <2>. QED
      BY <1>2, <1>3, <1>9, <2>1 DEF GetDraft, CallOnly, claimVars
  <1>10. ASSUME NEW c \in Calls, Submit(c) PROVE ClaimIsHeld' /\ TakenFits'
    <2>1. \A d \in Calls : Works(d)' => calls'[d] = calls[d]
      BY <1>10 DEF Submit, MoveTo, Answer, SendTypeOK, Works
    <2>2. Text(c) # NoText
      BY KeyFacts, SendPathsAssumption DEF Text, SendTypeOK
    <2>3. /\ \A k \in OutKeys : outbox'[k].sent = outbox[k].sent
          /\ \A k \in OutKeys : outbox[k].text # NoText => outbox'[k].text # NoText
      <3>1. CASE outbox' = outbox
        BY <3>1
      <3>2. CASE outbox' = [outbox EXCEPT ![KeyOf(c)].text = Text(c)]
        BY <2>2, <3>2 DEF SendTypeOK
      <3>. QED
        BY <1>10, <3>1, <3>2 DEF Submit
    <2>. QED
      BY <1>0, <1>10, <2>1, <2>3, Quiet DEF Submit, claimVars
  <1>11. ASSUME NEW c \in Calls, DropDraft(c) PROVE ClaimIsHeld' /\ TakenFits'
    BY <1>3, <1>11 DEF DropDraft, CallOnly, claimVars
  <1>12. ASSUME NEW k \in OutKeys, OutboxSends(k) PROVE ClaimIsHeld' /\ TakenFits'
    <2>1. UNCHANGED <<keys, calls>> /\ outbox[k].text # NoText /\ outbox[k].sent = FALSE
      BY <1>12 DEF OutboxSends, SendTypeOK
    <2>2. /\ \A x \in OutKeys : outbox'[x].text = outbox[x].text
          /\ \A x \in OutKeys : outbox'[x].sent = (outbox[x].sent \/ x = k)
          /\ \A x \in OutKeys : taken'[x] = IF x = k THEN taken[x] + 1 ELSE taken[x]
      BY <1>12 DEF OutboxSends, SendTypeOK
    <2>3. k \in SendKeys => keys[k] = "free" /\ taken[k] = 0
      BY <2>1, OneWay DEF KeysApart, TakenFits, Once
    <2>4. k \in Drafts /\ mode = "primary" => taken[k] = 0
      BY <2>1 DEF TakenFits, Once
    <2>5. ClaimIsHeld'
      BY <1>1, <2>1 DEF ClaimIsHeld, Works
    <2>6. \A c \in Calls : KeyOf(c) = k /\ k \in SendKeys => ~Works(c)
      BY <2>3 DEF ClaimIsHeld
    <2>7. \A x \in OutKeys : x # k => Once(x)' = Once(x)
      BY <2>2, <1>12 DEF Once, SendTypeOK
    <2>8. Once(k)' = 1
      BY <2>2 DEF Once
    <2>9. \A x \in SendKeys : taken'[x] <= 1 /\ (keys'[x] = "free" => taken'[x] = Once(x)')
      BY <1>1, <2>1, <2>2, <2>3, <2>7, <2>8 DEF TakenFits
    <2>10. \A c \in Calls : KeyOf(c) \in SendKeys =>
             /\ calls'[c].at = "post" => taken'[KeyOf(c)] = 0
             /\ calls'[c].at = "settle" /\ calls'[c].verdict = "release" => taken'[KeyOf(c)] = 0
      BY <1>1, <2>1, <2>2, <2>6 DEF TakenFits, Works
    <2>11. \A x \in OutKeys : outbox'[x].sent => outbox'[x].text # NoText
      BY <2>1, <2>2 DEF TakenFits
    <2>12. \A d \in Drafts : mode' = "primary" => taken'[d] = Once(d)'
      BY <1>0, <1>1, <2>2, <2>4, <2>7, <2>8 DEF TakenFits
    <2>. QED
      BY <1>1, <2>5, <2>9, <2>10, <2>11, <2>12 DEF TakenFits
  <1>13. CASE Die
    <2>1. \A c \in Calls : Works(c)' => calls'[c] = calls[c]
      BY <1>13 DEF Die, Works, NoCall
    <2>. QED
      BY <1>0, <1>13, <2>1, Quiet DEF Die, claimVars
  <1>14. CASE UNCHANGED <<keys, taken, outbox, calls>>
    BY <1>0, <1>14, Quiet
  <1>15. ASSUME NEW a \in Asks, HangUp(a) PROVE ClaimIsHeld' /\ TakenFits'
    BY <1>14, <1>15 DEF HangUp, claimVars
  <1>16. ASSUME NEW d \in Drafts, EditDraft(d) PROVE ClaimIsHeld' /\ TakenFits'
    BY <1>14, <1>16 DEF EditDraft, claimVars
  <1>17. CASE Restarts
    BY <1>14, <1>17 DEF Restarts, claimVars
  <1>. QED
    BY <1>4, <1>5, <1>5a, <1>6, <1>7, <1>8, <1>9, <1>10, <1>11, <1>12, <1>13, <1>15, <1>16, <1>17
       DEF SendNext
-----------------------------------------------------------------------------
(* The theorems *)

\* Every step keeps the types and the claims.
LEMMA StepInv == ASSUME SendInv, [SendNext]_sendVars PROVE SendInv'
  <1>1. CASE SendNext
    BY <1>1, TypeStep, WaysKept, ApartKept, ClaimsKept DEF SendInv
  <1>2. CASE UNCHANGED sendVars
    BY <1>2 DEF sendVars, SendInv, SendTypeOK, HasVerdict, WayFits, KeysApart, ClaimIsHeld,
       TakenFits, Works, Once, Claimed, Queued, KeyOf, Keyed, Way, Durable
  <1>. QED
    BY <1>1, <1>2

\* Whatever is asked for, however often, and whatever is lost: handlers, claims,
\* the outbox and the callers keep their types.
THEOREM SendTypes == SendSpec => []SendTypeOK
  <1>1. SendInv => SendTypeOK
    BY DEF SendInv
  <1>. QED
    BY <1>1, InitInv, StepInv, PTL DEF SendSpec

\* However many callers repeat a message under its key, through the web, an agent
\* or an approved draft of the v2 store: the platform gets it once (the claim of
\* api.go's handlers and the outbox's idempotency key).
THEOREM SentOnce == SendSpec => []KeyedOnce
  <1>1. SendInv => KeyedOnce
    BY DEF SendInv, TakenFits, KeyedOnce, Once
  <1>. QED
    BY <1>1, InitInv, StepInv, PTL DEF SendSpec

-----------------------------------------------------------------------------
(* The WhatsApp client's rows.                                              *)

WaRows == [WaIds -> Row \cup {Absent}]
WaEvent == [kind : {"none", "message", "react", "revoke", "edit"}, id : WaIds \cup {Absent},
            raw : WaChats, full : BOOLEAN,
            value : {"", "peer", "delivered", "read", "failed"}]
WaHand == [at : {"idle", "message", "react", "revoke", "edit", "reacted", "edited", "file", "alias",
                 "twin", "settle", "receipt"},
           ev : WaEvent, chat : WaChats, copy : Row \cup {Absent} \cup SUBSET WaIds]
Outcome == {"sent", "delivered", "read", "failed"}

\* A handler at work has an event of a message, and the copy it read.
HandFits(h) ==
    /\ hand[h].at # "idle" => hand[h].ev.id \in WaIds
    /\ hand[h].at \in {"reacted", "edited", "receipt"} => hand[h].copy \in Row
    /\ hand[h].at = "receipt" => hand[h].ev.value \in Outcome
MineFits ==
    /\ mine \in [at : {"idle", "react", "leave", "record"}, id : WaIds \cup {Absent},
                 copy : SUBSET {"me", "peer"}]
    /\ mine.at \in {"react", "record"} => mine.id \in WaIds
HandsOK == hand \in [Handlers -> WaHand] /\ \A h \in Handlers : HandFits(h)
AskTypes ==
    /\ asked \subseteq WaIds /\ granted \subseteq WaIds
    /\ asking \in [{"connect", "request"} -> WaIds \cup {Absent}]

WaInv == rows \in WaRows /\ mapped \in BOOLEAN /\ HandsOK /\ MineFits /\ AskTypes /\ AskedIsOwed

\* The media of a row is lost with the row only.
KeepsMedia ==
    \A i \in WaIds : Known(i) /\ rows[i].media /\ rows'[i] # Absent => rows'[i].media

\* How a message is filed, and the fields of a row.
LEMMA FiledRow ==
    ASSUME NEW i \in WaIds, NEW chat \in WaChats, NEW full \in BOOLEAN, NEW status \in Outcome
    PROVE  Filed(i, chat, full, status) \in Row
  <1>1. Wire[i] \in [group : BOOLEAN, own : BOOLEAN, photo : BOOLEAN, at : Nat]
    BY WaAssumption
  <1>2. Wire[i].own \in BOOLEAN
    BY <1>1
  <1>3. PICK body \in {"text", "edited", "photo"} : body = IF Wire[i].photo THEN "photo" ELSE "text"
    OBVIOUS
  <1>4. Filed(i, chat, full, status) =
            [chat |-> chat, body |-> body, own |-> Wire[i].own, media |-> full, status |-> status,
             by |-> {}]
    BY <1>3 DEF Filed
  <1> QED BY <1>2, <1>4 DEF Row, Outcome

\* A row written back over another.
LEMMA UpsertedRow ==
    ASSUME NEW old \in Row \cup {Absent}, NEW new \in Row
    PROVE  /\ Upserted(old, new) \in Row
           /\ old # Absent /\ old.media => Upserted(old, new).media
  <1>1. CASE old = Absent
    BY <1>1 DEF Upserted
  <1>2. CASE old # Absent
    <2>1. old \in Row /\ old.media \in BOOLEAN /\ new.media \in BOOLEAN /\ old.by \subseteq {"me", "peer"}
          /\ new.by \subseteq {"me", "peer"}
      BY <1>2 DEF Row
    <2>2. new = [chat |-> new.chat, body |-> new.body, own |-> new.own, media |-> new.media,
                 status |-> new.status, by |-> new.by]
      BY DEF Row
    <2>3. PICK m \in BOOLEAN : m <=> new.media \/ old.media
      OBVIOUS
    <2>4. PICK b \in SUBSET {"me", "peer"} : b = IF new.by = {} THEN old.by ELSE new.by
      BY <2>1
    <2>5. PICK r : r = [new EXCEPT !.media = new.media \/ old.media, !.by = b]
      OBVIOUS
    <2>6. r = [chat |-> new.chat, body |-> new.body, own |-> new.own,
               media |-> new.media \/ old.media, status |-> new.status, by |-> b]
      BY <2>2, <2>5
    <2>7. Upserted(old, new) = r
      BY <1>2, <2>4, <2>5 DEF Upserted
    <2>8. new.chat \in WaChats /\ new.body \in {"text", "edited", "photo"} /\ new.own \in BOOLEAN
          /\ new.status \in {"sent", "delivered", "read", "failed"}
      BY DEF Row
    <2>9. (new.media \/ old.media) \in BOOLEAN
      OBVIOUS
    <2>10. r \in Row
      BY <2>4, <2>6, <2>8, <2>9 DEF Row
    <2>11. old.media => r.media
      BY <2>6
    <2> QED BY <2>7, <2>10, <2>11
  <1> QED BY <1>1, <1>2

\* One row written.
LEMMA RowUpserted ==
    ASSUME rows \in WaRows, NEW i \in WaIds, NEW new \in Row, Upsert(i, new)
    PROVE  rows' \in WaRows /\ KeepsMedia
  <1>1. PICK put : put = Upserted(rows[i], new)
    OBVIOUS
  <1>2. rows[i] \in Row \cup {Absent}
    BY DEF WaRows
  <1>3. put \in Row /\ (rows[i] # Absent /\ rows[i].media => put.media)
    BY <1>1, <1>2, UpsertedRow
  <1>4. rows' = [rows EXCEPT ![i] = put]
    BY <1>1 DEF Upsert
  <1>5. rows'[i] = put /\ \A j \in WaIds : j # i => rows'[j] = rows[j]
    BY <1>4 DEF WaRows
  <1>6. rows' \in WaRows
    BY <1>3, <1>4 DEF WaRows
  <1>7. KeepsMedia
    BY <1>3, <1>5 DEF KeepsMedia, Known
  <1> QED BY <1>6, <1>7

\* One row given other reactions.
LEMMA RowMarked ==
    ASSUME rows \in WaRows, NEW i \in WaIds, NEW marks \in SUBSET {"me", "peer"},
           rows' = [rows EXCEPT ![i] = IF @ = Absent THEN Absent ELSE [@ EXCEPT !.by = marks]]
    PROVE  rows' \in WaRows /\ KeepsMedia
  <1>1. PICK old : old = rows[i]
    OBVIOUS
  <1>2. CASE old = Absent
    <2>1. rows' = [rows EXCEPT ![i] = Absent]
      BY <1>1, <1>2
    <2>2. rows' \in WaRows /\ \A j \in WaIds : j # i => rows'[j] = rows[j]
      BY <2>1 DEF WaRows
    <2>3. rows'[i] = Absent
      BY <2>1 DEF WaRows
    <2> QED BY <2>2, <2>3 DEF KeepsMedia
  <1>3. CASE old # Absent
    <2>1. old \in Row
      BY <1>1, <1>3 DEF WaRows
    <2>2. old = [chat |-> old.chat, body |-> old.body, own |-> old.own, media |-> old.media,
                 status |-> old.status, by |-> old.by]
      BY <2>1 DEF Row
    <2>3. PICK r : r = [old EXCEPT !.by = marks]
      OBVIOUS
    <2>4. r = [chat |-> old.chat, body |-> old.body, own |-> old.own, media |-> old.media,
               status |-> old.status, by |-> marks]
      BY <2>2, <2>3
    <2>5. r \in Row
      BY <2>1, <2>4 DEF Row
    <2>6. rows' = [rows EXCEPT ![i] = r]
      BY <1>1, <1>3, <2>3
    <2>7. rows'[i] = r /\ \A j \in WaIds : j # i => rows'[j] = rows[j]
      BY <2>6 DEF WaRows
    <2>8. rows' \in WaRows
      BY <2>5, <2>6 DEF WaRows
    <2>9. r.media = old.media
      BY <2>4
    <2>10. KeepsMedia
      BY <1>1, <2>7, <2>9 DEF KeepsMedia, Known
    <2> QED BY <2>8, <2>10
  <1> QED BY <1>2, <1>3

\* Rows deleted.
LEMMA RowsErased ==
    ASSUME rows \in WaRows,
           (\E i : Erase(i)) \/ (\E chat : EraseChat(chat)) \/ rows' = rows
    PROVE  rows' \in WaRows /\ KeepsMedia
  <1>1. ASSUME NEW i, Erase(i) PROVE rows' \in WaRows /\ KeepsMedia
    <2>1. rows' = [rows EXCEPT ![i] = Absent]
      BY <1>1 DEF Erase
    <2>2. rows' \in WaRows
      BY <2>1 DEF WaRows
    <2>3. \A j \in WaIds : rows'[j] = Absent \/ rows'[j] = rows[j]
      BY <2>1 DEF WaRows
    <2> QED BY <2>2, <2>3 DEF KeepsMedia
  <1>2. ASSUME NEW chat, EraseChat(chat) PROVE rows' \in WaRows /\ KeepsMedia
    <2>1. rows' = [i \in WaIds |-> IF Known(i) /\ rows[i].chat = chat THEN Absent ELSE rows[i]]
      BY <1>2 DEF EraseChat
    <2>2. rows' \in WaRows
      BY <2>1 DEF WaRows
    <2>3. \A j \in WaIds : rows'[j] = Absent \/ rows'[j] = rows[j]
      BY <2>1
    <2> QED BY <2>2, <2>3 DEF KeepsMedia
  <1>3. CASE rows' = rows
    BY <1>3 DEF KeepsMedia
  <1> QED BY <1>1, <1>2, <1>3

\* Rows filed under the contact's number.
LEMMA RowsMoved ==
    ASSUME rows \in WaRows, NEW raw,
           rows' = [i \in WaIds |-> IF Known(i) /\ rows[i].chat = raw
                                    THEN [rows[i] EXCEPT !.chat = "pn"] ELSE rows[i]]
    PROVE  rows' \in WaRows /\ KeepsMedia
  <1>1. ASSUME NEW i \in WaIds, Known(i), rows[i].chat = raw
        PROVE  rows'[i] \in Row /\ rows'[i].media = rows[i].media
    <2>1. PICK old \in Row : old = rows[i]
      BY <1>1 DEF WaRows, Known
    <2>2. old = [chat |-> old.chat, body |-> old.body, own |-> old.own, media |-> old.media,
                 status |-> old.status, by |-> old.by]
      BY DEF Row
    <2>3. PICK r : r = [old EXCEPT !.chat = "pn"]
      OBVIOUS
    <2>4. r = [chat |-> "pn", body |-> old.body, own |-> old.own, media |-> old.media,
               status |-> old.status, by |-> old.by]
      BY <2>2, <2>3
    <2>5. r \in Row /\ r.media = old.media
      BY <2>4 DEF Row, WaChats
    <2>6. rows'[i] = r
      BY <1>1, <2>1, <2>3
    <2> QED BY <2>1, <2>5, <2>6
  <1>2. \A i \in WaIds : ~(Known(i) /\ rows[i].chat = raw) => rows'[i] = rows[i]
    OBVIOUS
  <1>3. \A i \in WaIds : rows'[i] \in Row \cup {Absent}
    BY <1>1, <1>2 DEF WaRows
  <1>4. rows' \in WaRows
    BY <1>3 DEF WaRows
  <1>5. KeepsMedia
    BY <1>1, <1>2 DEF KeepsMedia
  <1> QED BY <1>4, <1>5

\* A handler at rest.
LEMMA HandAtRest == AtRest \in WaHand /\ AtRest.at = "idle"
  BY DEF AtRest, NoEvent, WaHand, WaEvent, WaChats

\* A handler that goes on, with a copy or the one it had, or comes to rest.
LEMMA HandGoes ==
    ASSUME HandsOK, NEW h \in Handlers, NEW q \in WaHand, hand' = [hand EXCEPT ![h] = q],
           q.at # "idle" => q.ev.id \in WaIds,
           q.at \in {"reacted", "edited", "receipt"} => q.copy \in Row,
           q.at = "receipt" => q.ev.value \in Outcome
    PROVE  HandsOK'
  <1>1. hand'[h] = q /\ \A g \in Handlers : g # h => hand'[g] = hand[g]
    BY DEF HandsOK
  <1>2. hand' \in [Handlers -> WaHand]
    BY DEF HandsOK
  <1>3. HandFits(h)'
    BY <1>1 DEF HandFits
  <1>4. \A g \in Handlers : g # h => HandFits(g)'
    BY <1>1 DEF HandsOK, HandFits
  <1> QED BY <1>2, <1>3, <1>4 DEF HandsOK

\* The handler is done.
LEMMA HandDone == ASSUME HandsOK, NEW h \in Handlers, Done(h) PROVE HandsOK'
  <1>1. PICK q \in WaHand : q = AtRest /\ q.at = "idle"
    BY HandAtRest
  <1> QED BY <1>1, HandGoes DEF Done

\* It goes on with the event it has.
LEMMA HandWaits ==
    ASSUME HandsOK, NEW h \in Handlers, hand[h].at # "idle",
           NEW s \in {"file", "alias", "twin", "settle", "reacted", "edited"},
           NEW copy \in Row \cup {Absent} \cup SUBSET WaIds,
           s \in {"reacted", "edited"} => copy \in Row,
           \/ hand' = [hand EXCEPT ![h].at = s] /\ s \notin {"reacted", "edited"}
           \/ hand' = [hand EXCEPT ![h].at = s, ![h].copy = copy]
    PROVE  HandsOK'
  <1>1. PICK me \in WaHand : me = hand[h]
    BY DEF HandsOK
  <1>2. me = [at |-> me.at, ev |-> me.ev, chat |-> me.chat, copy |-> me.copy]
    BY DEF WaHand
  <1>3. PICK q : q = [me EXCEPT !.at = s]
    OBVIOUS
  <1>4. q = [at |-> s, ev |-> me.ev, chat |-> me.chat, copy |-> me.copy]
    BY <1>2, <1>3
  <1>5. PICK r : r = [me EXCEPT !.at = s, !.copy = copy]
    OBVIOUS
  <1>6. r = [at |-> s, ev |-> me.ev, chat |-> me.chat, copy |-> copy]
    BY <1>2, <1>5
  <1>7. q \in WaHand /\ r \in WaHand
    BY <1>4, <1>6 DEF WaHand
  <1>8. me.ev.id \in WaIds
    BY <1>1 DEF HandsOK, HandFits
  <1>9. \/ hand' = [hand EXCEPT ![h] = q] /\ s \notin {"reacted", "edited"}
        \/ hand' = [hand EXCEPT ![h] = r]
    <2>1. CASE hand' = [hand EXCEPT ![h].at = s] /\ s \notin {"reacted", "edited"}
      BY <1>1, <1>3, <2>1
    <2>2. CASE hand' = [hand EXCEPT ![h].at = s, ![h].copy = copy]
      BY <1>1, <1>5, <2>2 DEF HandsOK
    <2> QED BY <2>1, <2>2
  <1>10. CASE hand' = [hand EXCEPT ![h] = q] /\ s \notin {"reacted", "edited"}
    <2>1. q.at = s /\ q.ev = me.ev
      BY <1>4
    <2> QED BY <1>7, <1>8, <1>10, <2>1, HandGoes
  <1>11. CASE hand' = [hand EXCEPT ![h] = r]
    <2>1. r.at = s /\ r.ev = me.ev /\ r.copy = copy
      BY <1>6
    <2> QED BY <1>7, <1>8, <1>11, <2>1, HandGoes
  <1> QED BY <1>9, <1>10, <1>11

\* It goes on with a copy of the row it has read, or there is none.
LEMMA HandReads ==
    ASSUME HandsOK, NEW h \in Handlers, hand[h].at # "idle", rows \in WaRows,
           NEW i \in WaIds, NEW s \in {"reacted", "edited"},
           hand' = [hand EXCEPT ![h] =
             IF ~Known(i) THEN AtRest ELSE [@ EXCEPT !.at = s, !.copy = rows[i]]]
    PROVE  HandsOK'
  <1>1. PICK me \in WaHand : me = hand[h]
    BY DEF HandsOK
  <1>2. me = [at |-> me.at, ev |-> me.ev, chat |-> me.chat, copy |-> me.copy]
    BY DEF WaHand
  <1>3. PICK copy : copy = rows[i]
    OBVIOUS
  <1>4. PICK q : q = [me EXCEPT !.at = s, !.copy = copy]
    OBVIOUS
  <1>5. q = [at |-> s, ev |-> me.ev, chat |-> me.chat, copy |-> copy]
    BY <1>2, <1>4
  <1>6. me.ev.id \in WaIds
    BY <1>1 DEF HandsOK, HandFits
  <1>7. CASE Known(i)
    <2>1. copy \in Row
      BY <1>3, <1>7 DEF Known, WaRows
    <2>2. q \in WaHand /\ q.at = s /\ q.ev = me.ev /\ q.copy = copy
      BY <1>5, <2>1 DEF WaHand
    <2>3. hand' = [hand EXCEPT ![h] = [@ EXCEPT !.at = s, !.copy = rows[i]]]
      BY <1>7
    <2>4. hand' = [hand EXCEPT ![h] = q]
      BY <1>1, <1>3, <1>4, <2>3
    <2> QED BY <1>6, <2>1, <2>2, <2>4, HandGoes
  <1>8. CASE ~Known(i)
    <2>1. hand' = [hand EXCEPT ![h] = AtRest]
      BY <1>8
    <2> QED BY <2>1, HandDone DEF Done
  <1> QED BY <1>7, <1>8

\* What does not touch the requests leaves them answered for.
LEMMA AskUntouched ==
    ASSUME AskTypes, AskedIsOwed, UNCHANGED repairVars
    PROVE  AskTypes' /\ AskedIsOwed'
  BY DEF AskTypes, AskedIsOwed, repairVars

\* Where a wire identity is filed.
LEMMA CanonicalChat == \A raw \in WaChats : Canonical(raw) \in WaChats
  BY DEF Canonical, WaChats

\* An alias merged, or not.
LEMMA AliasMerged ==
    ASSUME rows \in WaRows, NEW raw, MergeAlias(raw)
    PROVE  rows' \in WaRows /\ KeepsMedia
  <1>1. CASE rows' = rows
    BY <1>1, RowsErased
  <1>2. CASE rows' = [i \in WaIds |-> IF Known(i) /\ rows[i].chat = raw
                                      THEN [rows[i] EXCEPT !.chat = "pn"] ELSE rows[i]]
    BY <1>2, RowsMoved
  <1> QED BY <1>1, <1>2 DEF MergeAlias, rowVars

\* The invariant stands, and no media is lost, if each part stands.
WaStands == WaInv' /\ KeepsMedia

\* A message, a reaction, a revocation or an edit arrives.
LEMMA ReceiveStands ==
    ASSUME WaInv, NEW h \in Handlers, Receive(h)
    PROVE  WaStands
  <1>1. PICK ev \in [kind : {"message", "react", "revoke", "edit"}, id : WaIds, full : BOOLEAN,
                     raw : WaChats, value : {"", "peer"}] :
          /\ MergeAlias(ev.raw)
          /\ hand' = [hand EXCEPT ![h] =
               IF ev.raw = "group" /\ left THEN AtRest
               ELSE [at |-> ev.kind, ev |-> ev, chat |-> Canonical(ev.raw), copy |-> Absent]]
    BY DEF Receive
  <1>2. UNCHANGED <<mapped, mine, repairVars>>
    BY DEF Receive
  <1>3. ev \in WaEvent /\ ev.kind \in {"message", "react", "revoke", "edit"} /\ ev.id \in WaIds
        /\ ev.raw \in WaChats
    BY DEF WaEvent
  <1>4. PICK q : q = [at |-> ev.kind, ev |-> ev, chat |-> Canonical(ev.raw), copy |-> Absent]
    OBVIOUS
  <1>5. q \in WaHand /\ q.at = ev.kind /\ q.ev = ev
    BY <1>3, <1>4, CanonicalChat DEF WaHand
  <1>6. HandsOK'
    <2>1. CASE hand' = [hand EXCEPT ![h] = AtRest]
      BY <2>1, HandDone DEF Done, WaInv
    <2>2. CASE hand' = [hand EXCEPT ![h] = q]
      BY <1>3, <1>5, <2>2, HandGoes DEF WaInv
    <2> QED BY <1>1, <1>4, <2>1, <2>2
  <1>7. rows' \in WaRows /\ KeepsMedia
    BY <1>1, AliasMerged DEF WaInv
  <1>8. MineFits' /\ mapped' \in BOOLEAN
    BY <1>2 DEF WaInv, MineFits
  <1> QED BY <1>2, <1>6, <1>7, <1>8, AskUntouched DEF WaStands, WaInv

\* A reaction is read, then written over what there is by then.
LEMMA ReactionStands ==
    ASSUME WaInv, NEW h \in Handlers, ReadForReaction(h) \/ WriteReaction(h)
    PROVE  WaStands
  <1>1. UNCHANGED <<mapped, mine, repairVars>> /\ HandsOK /\ HandFits(h)
    BY DEF ReadForReaction, WriteReaction, WaInv, HandsOK
  <1>2. MineFits' /\ mapped' \in BOOLEAN
    BY <1>1 DEF WaInv, MineFits
  <1>3. PICK i : i = Ev(h).id
    OBVIOUS
  <1>4. i \in WaIds
    BY <1>1, <1>3 DEF HandFits, ReadForReaction, WriteReaction, At, Ev
  <1>5. CASE ReadForReaction(h)
    <2>1. rows' = rows /\ hand[h].at = "react"
      BY <1>5 DEF ReadForReaction, rowVars, At
    <2>5. HandsOK'
      <3>1. hand' = [hand EXCEPT ![h] =
              IF ~Known(i) THEN AtRest ELSE [@ EXCEPT !.at = "reacted", !.copy = rows[i]]]
        BY <1>3, <1>5 DEF ReadForReaction
      <3>2. HandsOK /\ rows \in WaRows
        BY DEF WaInv
      <3> QED BY <1>4, <2>1, <3>1, <3>2, HandReads
    <2>6. rows' \in WaRows /\ KeepsMedia
      BY <2>1, RowsErased DEF WaInv
    <2> QED BY <1>1, <1>2, <2>5, <2>6, AskUntouched DEF WaStands, WaInv
  <1>6. CASE WriteReaction(h)
    <2>1. HandsOK' /\ hand[h].copy \in Row
      BY <1>1, <1>6, HandDone DEF WriteReaction, HandFits, At
    <2>2. PICK marks : marks = WithMark(hand[h].copy.by, "peer", Ev(h).value = "peer")
      OBVIOUS
    <2>3. marks \in SUBSET {"me", "peer"}
      BY <2>1, <2>2 DEF WithMark, Row
    <2>4. rows' = [rows EXCEPT ![i] = IF @ = Absent THEN Absent ELSE [@ EXCEPT !.by = marks]]
      BY <1>3, <1>6, <2>2 DEF WriteReaction
    <2>5. rows' \in WaRows /\ KeepsMedia
      BY <1>4, <2>3, <2>4, RowMarked DEF WaInv
    <2> QED BY <1>1, <1>2, <2>1, <2>5, AskUntouched DEF WaStands, WaInv
  <1> QED BY <1>5, <1>6

\* A copy made before is written back, edited or with another status.
LEMMA CopyStands ==
    ASSUME WaInv, NEW h \in Handlers,
           \/ ReadForEdit(h) \/ WriteEdit(h)
           \/ h = "live" /\ WriteReceipt
           \/ Revoke(h)
    PROVE  WaStands
  <1>1. UNCHANGED <<mapped, mine, repairVars>>
    BY DEF ReadForEdit, WriteEdit, WriteReceipt, Revoke
  <1>2. MineFits' /\ mapped' \in BOOLEAN /\ HandsOK /\ HandFits(h)
    BY <1>1 DEF WaInv, MineFits, HandsOK
  <1>3. PICK i : i = Ev(h).id
    OBVIOUS
  <1>4. i \in WaIds
    BY <1>2, <1>3 DEF HandFits, ReadForEdit, WriteEdit, WriteReceipt, Revoke, At, Ev
  <1>5. CASE ReadForEdit(h)
    <2>1. rows' = rows /\ hand[h].at = "edit"
      BY <1>5 DEF ReadForEdit, rowVars, At
    <2>5. HandsOK'
      <3>1. hand' = [hand EXCEPT ![h] =
              IF ~Known(i) THEN AtRest ELSE [@ EXCEPT !.at = "edited", !.copy = rows[i]]]
        BY <1>3, <1>5 DEF ReadForEdit
      <3>2. HandsOK /\ rows \in WaRows
        BY DEF WaInv
      <3> QED BY <1>4, <2>1, <3>1, <3>2, HandReads
    <2>6. rows' \in WaRows /\ KeepsMedia
      BY <2>1, RowsErased DEF WaInv
    <2> QED BY <1>1, <1>2, <2>5, <2>6, AskUntouched DEF WaStands, WaInv
  <1>6. ASSUME Done(h), rows' \in WaRows, KeepsMedia PROVE WaStands
    BY <1>1, <1>2, <1>6, HandDone, AskUntouched DEF WaStands, WaInv
  <1>7. CASE Revoke(h)
    <2>1. rows' \in WaRows /\ KeepsMedia
      BY <1>7, RowsErased DEF Revoke, WaInv
    <2> QED BY <1>6, <1>7, <2>1 DEF Revoke
  <1>8. CASE WriteEdit(h)
    <2>1. PICK copy \in Row : copy = hand[h].copy
      BY <1>2, <1>8 DEF WriteEdit, HandFits, At
    <2>2. copy = [chat |-> copy.chat, body |-> copy.body, own |-> copy.own, media |-> copy.media,
                  status |-> copy.status, by |-> copy.by]
      BY DEF Row
    <2>3. PICK new : new = [copy EXCEPT !.body = "edited"]
      OBVIOUS
    <2>4. new = [chat |-> copy.chat, body |-> "edited", own |-> copy.own, media |-> copy.media,
                 status |-> copy.status, by |-> copy.by]
      BY <2>2, <2>3
    <2>5. new \in Row
      BY <2>4 DEF Row
    <2>6. Upsert(i, new)
      BY <1>3, <1>8, <2>1, <2>3 DEF WriteEdit
    <2> QED BY <1>4, <1>6, <1>8, <2>5, <2>6, RowUpserted DEF WriteEdit, WaInv
  <1>9. CASE h = "live" /\ WriteReceipt
    <2>1. PICK copy \in Row : copy = hand[h].copy
      BY <1>2, <1>9 DEF WriteReceipt, HandFits, At
    <2>2. copy = [chat |-> copy.chat, body |-> copy.body, own |-> copy.own, media |-> copy.media,
                  status |-> copy.status, by |-> copy.by]
      BY DEF Row
    <2>3. PICK status \in Outcome : status = Ev(h).value
      BY <1>2, <1>9 DEF WriteReceipt, HandFits, At, Ev
    <2>4. PICK new : new = [copy EXCEPT !.status = status]
      OBVIOUS
    <2>5. new = [chat |-> copy.chat, body |-> copy.body, own |-> copy.own, media |-> copy.media,
                 status |-> status, by |-> copy.by]
      BY <2>2, <2>4
    <2>6. new \in Row
      BY <2>5 DEF Row, Outcome
    <2>7. Upsert(i, new)
      BY <1>3, <1>9, <2>1, <2>3, <2>4 DEF WriteReceipt
    <2> QED BY <1>4, <1>6, <1>9, <2>6, <2>7, RowUpserted DEF WriteReceipt, WaInv
  <1> QED BY <1>5, <1>7, <1>8, <1>9

\* A message's conversation is filed.
LEMMA FileConversationStands ==
    ASSUME WaInv, NEW h \in Handlers, FileConversation(h)
    PROVE  WaStands
  <1>1. UNCHANGED <<mapped, mine, repairVars>> /\ Wait(h, "file") /\ hand[h].at = "message"
    BY DEF FileConversation, At
  <1>2. MineFits' /\ mapped' \in BOOLEAN /\ HandsOK /\ rows \in WaRows
    BY <1>1 DEF WaInv, MineFits
  <1>3. HandsOK'
    <2>1. hand' = [hand EXCEPT ![h].at = "file"]
      BY <1>1 DEF Wait
    <2> QED BY <1>1, <1>2, <2>1, HandWaits
  <1>4. PICK raw : raw = Ev(h).raw
    OBVIOUS
  <1>5. \/ rows' = rows
        \/ rows' = [i \in WaIds |-> IF Known(i) /\ rows[i].chat = raw
                                    THEN [rows[i] EXCEPT !.chat = "pn"] ELSE rows[i]]
    BY <1>4 DEF FileConversation
  <1>6. rows' \in WaRows /\ KeepsMedia
    BY <1>2, <1>5, RowsErased, RowsMoved
  <1> QED BY <1>1, <1>2, <1>3, <1>6, AskUntouched DEF WaStands, WaInv

\* A message is filed.
LEMMA FileMessageStands ==
    ASSUME WaInv, NEW h \in Handlers, FileMessage(h)
    PROVE  WaStands
  <1>1. UNCHANGED <<mapped, mine, repairVars>> /\ hand[h].at = "file"
    BY DEF FileMessage, At
  <1>2. MineFits' /\ mapped' \in BOOLEAN /\ HandsOK /\ HandFits(h) /\ rows \in WaRows
    BY <1>1 DEF WaInv, MineFits, HandsOK
  <1>3. PICK i : i = Ev(h).id
    OBVIOUS
  <1>4. PICK full : full = Ev(h).full
    OBVIOUS
  <1>5. i \in WaIds /\ full \in BOOLEAN /\ hand[h].chat \in WaChats
    <2>1. i \in WaIds
      BY <1>1, <1>2, <1>3 DEF HandFits, Ev
    <2>2. hand[h] \in WaHand
      BY <1>2 DEF HandsOK
    <2>3. full \in BOOLEAN /\ hand[h].chat \in WaChats
      BY <1>4, <2>2 DEF WaHand, WaEvent, Ev
    <2> QED BY <2>1, <2>3
  <1>6. HandsOK'
    <2>1. hand' = [hand EXCEPT ![h].at = IF full THEN "alias" ELSE "settle"]
      BY <1>4 DEF FileMessage, Wait
    <2>2. CASE hand' = [hand EXCEPT ![h].at = "alias"]
      BY <1>1, <1>2, <2>2, HandWaits
    <2>3. CASE hand' = [hand EXCEPT ![h].at = "settle"]
      BY <1>1, <1>2, <2>3, HandWaits
    <2> QED BY <2>1, <2>2, <2>3
  <1>7. PICK new : new = Filed(i, hand[h].chat, full, "delivered")
    OBVIOUS
  <1>8. new \in Row
    BY <1>5, <1>7, FiledRow DEF Outcome
  <1>9. Upsert(i, new)
    BY <1>3, <1>4, <1>7 DEF FileMessage
  <1>10. rows' \in WaRows /\ KeepsMedia
    BY <1>2, <1>5, <1>8, <1>9, RowUpserted
  <1> QED BY <1>1, <1>2, <1>6, <1>10, AskUntouched DEF WaStands, WaInv

\* A placeholder of the same photo is looked for, and dropped.
LEMMA AliasStands ==
    ASSUME WaInv, NEW h \in Handlers, FindAlias(h) \/ DropAlias(h)
    PROVE  WaStands
  <1>1. UNCHANGED <<mapped, mine, repairVars>> /\ hand[h].at \in {"alias", "twin"}
    BY DEF FindAlias, DropAlias, At
  <1>2. MineFits' /\ mapped' \in BOOLEAN /\ HandsOK /\ rows \in WaRows
    BY <1>1 DEF WaInv, MineFits
  <1>3. HandsOK'
    <2>1. CASE FindAlias(h)
      <3>1. PICK found : found = Aliases(Ev(h).id, hand[h].chat)
        OBVIOUS
      <3>2. found \in SUBSET WaIds
        BY <3>1 DEF Aliases
      <3>3. PICK s \in {"twin", "settle"} : s = IF Cardinality(found) = 1 THEN "twin" ELSE "settle"
        OBVIOUS
      <3>4. hand' = [hand EXCEPT ![h].at = s, ![h].copy = found]
        BY <2>1, <3>1, <3>3 DEF FindAlias
      <3> QED BY <1>1, <1>2, <3>2, <3>4, HandWaits
    <2>2. CASE DropAlias(h)
      <3>1. hand' = [hand EXCEPT ![h].at = "settle"]
        BY <2>2 DEF DropAlias, Wait
      <3> QED BY <1>1, <1>2, <3>1, HandWaits
    <2> QED BY <2>1, <2>2
  <1>4. rows' \in WaRows /\ KeepsMedia
    <2>1. rows' = rows \/ \E i : Erase(i)
      BY DEF FindAlias, DropAlias, rowVars
    <2> QED BY <1>2, <2>1, RowsErased
  <1> QED BY <1>1, <1>2, <1>3, <1>4, AskUntouched DEF WaStands, WaInv

\* The message has arrived: nothing is asked for it any more.
LEMMA SettleStands ==
    ASSUME WaInv, NEW h \in Handlers, Settle(h)
    PROVE  WaStands
  <1>1. UNCHANGED <<rows, mapped, mine, asking>> /\ Done(h)
    BY DEF Settle, rowVars
  <1>2. MineFits' /\ mapped' \in BOOLEAN /\ HandsOK' /\ rows' \in WaRows /\ KeepsMedia
    BY <1>1, HandDone, RowsErased DEF WaInv, MineFits
  <1>3. PICK i : i = Ev(h).id
    OBVIOUS
  <1>4. asked' = asked \ {i} /\ granted' = granted \ {i}
    BY <1>3 DEF Settle
  <1>5. AskTypes' /\ AskedIsOwed'
    BY <1>1, <1>4 DEF WaInv, AskTypes, AskedIsOwed
  <1> QED BY <1>2, <1>5 DEF WaStands, WaInv

\* A receipt is looked at.
LEMMA ReadForReceiptStands ==
    ASSUME WaInv, ReadForReceipt
    PROVE  WaStands
  <1>1. UNCHANGED <<mapped, mine, repairVars>> /\ rows' = rows
    BY DEF ReadForReceipt, rowVars
  <1>2. MineFits' /\ mapped' \in BOOLEAN /\ HandsOK /\ rows \in WaRows /\ rows' \in WaRows
        /\ KeepsMedia
    BY <1>1, RowsErased DEF WaInv, MineFits
  <1>3. PICK i \in WaIds, status \in {"delivered", "read", "failed"} :
          /\ Known(i)
          /\ hand' = [hand EXCEPT !["live"] =
               [at |-> "receipt", ev |-> [NoEvent EXCEPT !.id = i, !.value = status],
                chat |-> rows[i].chat, copy |-> rows[i]]]
    BY DEF ReadForReceipt
  <1>4. PICK ev : ev = [NoEvent EXCEPT !.id = i, !.value = status]
    OBVIOUS
  <1>5. ev = [kind |-> "none", id |-> i, raw |-> "pn", full |-> FALSE, value |-> status]
    BY <1>4 DEF NoEvent
  <1>6. ev \in WaEvent /\ ev.id = i /\ ev.value = status
    BY <1>5 DEF WaEvent, WaChats
  <1>7. PICK q : q = [at |-> "receipt", ev |-> ev, chat |-> rows[i].chat, copy |-> rows[i]]
    OBVIOUS
  <1>8. rows[i] \in Row /\ rows[i].chat \in WaChats
    BY <1>2, <1>3 DEF Known, WaRows, Row
  <1>9. q \in WaHand /\ q.at = "receipt" /\ q.ev = ev /\ q.copy = rows[i]
    BY <1>6, <1>7, <1>8 DEF WaHand
  <1>10. hand' = [hand EXCEPT !["live"] = q]
    BY <1>3, <1>4, <1>7
  <1>11. "live" \in Handlers /\ status \in Outcome
    BY DEF Handlers, Outcome
  <1>12. HandsOK'
    BY <1>2, <1>6, <1>8, <1>9, <1>10, <1>11, HandGoes
  <1> QED BY <1>1, <1>2, <1>12, AskUntouched DEF WaStands, WaInv

\* What happens to groups, chats and the mapping.
LEMMA ChatsStand ==
    ASSUME WaInv, GroupInfo \/ Enrich \/ LearnMapping \/ ReconcileDirectChats \/ LeftExpires
    PROVE  WaStands
  <1>1. UNCHANGED <<hand, mine, repairVars>>
    BY DEF GroupInfo, Enrich, LearnMapping, ReconcileDirectChats, LeftExpires
  <1>2. mapped' \in BOOLEAN
    BY DEF WaInv, GroupInfo, Enrich, LearnMapping, ReconcileDirectChats, LeftExpires
  <1>3. MineFits' /\ HandsOK'
    BY <1>1 DEF WaInv, MineFits, HandsOK, HandFits
  <1>4. rows \in WaRows
    BY DEF WaInv
  <1>5. rows' \in WaRows /\ KeepsMedia
    <2>1. rows' = rows \/ EraseChat("group") \/ MergeAlias("lid")
      BY DEF GroupInfo, Enrich, LearnMapping, ReconcileDirectChats, LeftExpires, rowVars
    <2> QED BY <1>4, <2>1, RowsErased, AliasMerged
  <1> QED BY <1>1, <1>2, <1>3, <1>5, AskUntouched DEF WaStands, WaInv

\* The user's own reaction, leave or send.
LEMMA MineStands ==
    ASSUME WaInv, BeginReaction \/ BeginLeave \/ BeginSend \/ EndMine
    PROVE  WaStands
  <1>1. UNCHANGED <<mapped, hand, repairVars>>
    BY DEF BeginReaction, BeginLeave, BeginSend, EndMine
  <1>2. mapped' \in BOOLEAN /\ HandsOK' /\ MineFits /\ rows \in WaRows
    BY <1>1 DEF WaInv, HandsOK, HandFits
  <1>3. mine = [at |-> mine.at, id |-> mine.id, copy |-> mine.copy]
    BY <1>2 DEF MineFits
  <1>4. MineFits'
    <2>1. CASE BeginReaction
      <3>1. PICK i \in WaIds : Known(i) /\ mine' = [at |-> "react", id |-> i, copy |-> rows[i].by]
        BY <2>1 DEF BeginReaction
      <3>2. rows[i].by \in SUBSET {"me", "peer"}
        BY <1>2, <3>1 DEF Known, WaRows, Row
      <3> QED BY <3>1, <3>2 DEF MineFits
    <2>2. CASE BeginLeave
      <3>1. mine' = [at |-> "leave", id |-> mine.id, copy |-> mine.copy]
        BY <1>3, <2>2 DEF BeginLeave
      <3> QED BY <1>2, <3>1 DEF MineFits
    <2>3. CASE BeginSend
      <3>1. PICK i \in WaIds : mine' = [mine EXCEPT !.at = "record", !.id = i]
        BY <2>3 DEF BeginSend
      <3>2. mine' = [at |-> "record", id |-> i, copy |-> mine.copy]
        BY <1>3, <3>1
      <3> QED BY <1>2, <3>2 DEF MineFits
    <2>4. CASE EndMine
      BY <2>4 DEF EndMine, MineFits
    <2> QED BY <2>1, <2>2, <2>3, <2>4
  <1>5. rows' \in WaRows /\ KeepsMedia
    <2>1. CASE rows' = rows
      BY <1>2, <2>1, RowsErased
    <2>2. CASE EraseChat("group")
      BY <1>2, <2>2, RowsErased
    <2>3. CASE EndMine /\ mine.at = "react"
      <3>1. PICK i \in WaIds : i = mine.id
        BY <1>2, <2>3 DEF MineFits
      <3>2. PICK marks \in SUBSET {"me", "peer"} : marks = mine.copy \cup {"me"}
        BY <1>2 DEF MineFits
      <3>3. rows' = [rows EXCEPT ![i] = IF @ = Absent THEN Absent ELSE [@ EXCEPT !.by = marks]]
        BY <2>3, <3>1, <3>2 DEF EndMine
      <3> QED BY <1>2, <3>3, RowMarked
    <2>4. CASE EndMine /\ mine.at = "record"
      <3>1. PICK i \in WaIds : i = mine.id
        BY <1>2, <2>4 DEF MineFits
      <3>2. PICK chat \in WaChats : chat = IF Wire[i].group THEN "group" ELSE "pn"
        BY DEF WaChats
      <3>3. PICK full : full = Wire[i].photo
        OBVIOUS
      <3>4. full \in BOOLEAN
        BY <3>3, WaAssumption
      <3>5. PICK new : new = Filed(i, chat, full, "sent")
        OBVIOUS
      <3>6. new \in Row
        BY <3>4, <3>5, FiledRow DEF Outcome
      <3>7. Upsert(i, new)
        BY <2>4, <3>1, <3>2, <3>3, <3>5 DEF EndMine
      <3> QED BY <1>2, <3>6, <3>7, RowUpserted
    <2>5. rows' = rows \/ EraseChat("group") \/ (EndMine /\ mine.at \in {"react", "record"})
      BY DEF BeginReaction, BeginLeave, BeginSend, EndMine, rowVars
    <2> QED BY <2>1, <2>2, <2>3, <2>4, <2>5
  <1> QED BY <1>1, <1>2, <1>4, <1>5, AskUntouched DEF WaStands, WaInv

\* A photo is asked for; the request is answered, fails or is forgotten.
LEMMA AskStands ==
    ASSUME WaInv,
           (\E r \in DOMAIN asking : AskAgain(r) \/ Asked(r) \/ AskFails(r)) \/ AskExpires
    PROVE  WaStands
  <1>1. UNCHANGED <<rows, mapped, hand, mine>>
    BY DEF AskAgain, Asked, AskFails, AskExpires, rowVars
  <1>2. rows' \in WaRows /\ KeepsMedia /\ mapped' \in BOOLEAN /\ MineFits' /\ HandsOK'
    BY <1>1, RowsErased DEF WaInv, MineFits, HandsOK, HandFits
  <1>3. AskTypes /\ AskedIsOwed /\ DOMAIN asking = {"connect", "request"}
    BY DEF WaInv, AskTypes
  <1>4. ASSUME NEW r \in {"connect", "request"}, AskAgain(r) PROVE AskTypes' /\ AskedIsOwed'
    <2>1. PICK i \in WaIds : asked' = asked \cup {i} /\ asking' = [asking EXCEPT ![r] = i]
      BY <1>4 DEF AskAgain
    <2>2. asking[r] = Absent /\ granted' = granted
      BY <1>4 DEF AskAgain
    <2>3. AskTypes' /\ DOMAIN asking' = DOMAIN asking
      BY <1>3, <2>1, <2>2 DEF AskTypes
    <2>4. asking'[r] = i /\ \A q \in DOMAIN asking : q # r => asking'[q] = asking[q]
      BY <1>3, <2>1
    <2>5. ASSUME NEW j \in asked' PROVE j \in granted' \/ \E q \in DOMAIN asking' : asking'[q] = j
      <3>1. CASE j = i
        BY <1>3, <2>3, <2>4, <3>1
      <3>2. CASE j # i
        <4>1. j \in asked /\ j # Absent
          BY <1>3, <2>1, <3>2, WaAssumption DEF AskTypes
        <4>2. CASE j \in granted
          BY <2>2, <4>2
        <4>3. ASSUME NEW q \in DOMAIN asking, asking[q] = j
              PROVE  \E p \in DOMAIN asking' : asking'[p] = j
          BY <2>2, <2>3, <2>4, <4>1, <4>3
        <4> QED BY <1>3, <4>1, <4>2, <4>3 DEF AskedIsOwed
      <3> QED BY <3>1, <3>2
    <2> QED BY <2>3, <2>5 DEF AskedIsOwed
  <1>5. ASSUME NEW r \in {"connect", "request"}, Asked(r) \/ AskFails(r)
        PROVE  AskTypes' /\ AskedIsOwed'
    <2>1. PICK i : i = asking[r]
      OBVIOUS
    <2>2. asking' = [asking EXCEPT ![r] = Absent]
      BY <1>5 DEF Asked, AskFails
    <2>3. \/ asked' = asked /\ granted' = granted \cup ({i} \cap asked)
          \/ asked' = asked \ {i} /\ granted' = granted \ {i}
      BY <1>5, <2>1 DEF Asked, AskFails
    <2>4. AskTypes' /\ DOMAIN asking' = DOMAIN asking
      BY <1>3, <2>2, <2>3 DEF AskTypes
    <2>5. \A q \in DOMAIN asking : q # r => asking'[q] = asking[q]
      BY <1>3, <2>2
    <2>6. ASSUME NEW j \in asked' PROVE j \in granted' \/ \E q \in DOMAIN asking' : asking'[q] = j
      <3>1. j \in asked
        BY <2>3
      <3>2. CASE j = i
        BY <2>3, <3>1, <3>2
      <3>3. CASE j # i
        BY <1>3, <2>1, <2>3, <2>4, <2>5, <3>1, <3>3 DEF AskedIsOwed
      <3> QED BY <3>2, <3>3
    <2> QED BY <2>4, <2>6 DEF AskedIsOwed
  <1>6. CASE AskExpires
    <2>1. PICK i : asked' = asked \ {i} /\ granted' = granted \ {i}
      BY <1>6 DEF AskExpires
    <2>2. asking' = asking
      BY <1>6 DEF AskExpires
    <2> QED BY <1>2, <1>3, <2>1, <2>2 DEF AskTypes, AskedIsOwed, WaStands, WaInv
  <1> QED BY <1>2, <1>3, <1>4, <1>5, <1>6 DEF WaStands, WaInv

\* Photos stored earlier have no bytes; nothing is asked for.
LEMMA WaStart == WaInit => WaInv
  <1> SUFFICES ASSUME WaInit PROVE WaInv
    OBVIOUS
  <1>1. \A i \in WaIds : Filed(i, AliasOf(i), FALSE, "delivered") \in Row
    <2> SUFFICES ASSUME NEW i \in WaIds PROVE Filed(i, AliasOf(i), FALSE, "delivered") \in Row
      OBVIOUS
    <2>1. AliasOf(i) \in WaChats
      BY DEF AliasOf, WaChats
    <2> QED BY <2>1, FiledRow DEF Outcome
  <1>2. rows \in WaRows
    BY <1>1 DEF WaInit, WaRows
  <1>3. HandsOK
    <2>1. hand = [h \in Handlers |-> AtRest]
      BY DEF WaInit
    <2> QED BY <2>1, HandAtRest DEF HandsOK, HandFits
  <1>4. MineFits
    BY DEF WaInit, MineFits
  <1>5. AskTypes /\ AskedIsOwed /\ mapped \in BOOLEAN
    BY DEF WaInit, AskTypes, AskedIsOwed
  <1> QED BY <1>2, <1>3, <1>4, <1>5 DEF WaInv

\* Every step keeps the invariant and the media.
LEMMA WaStep == WaInv /\ [WaNext]_waVars => WaStands
  <1> SUFFICES ASSUME WaInv, [WaNext]_waVars PROVE WaStands
    OBVIOUS
  <1>1. ASSUME NEW h \in Handlers, Handle(h) PROVE WaStands
    BY <1>1, ReceiveStands, ReactionStands, CopyStands, FileConversationStands,
       FileMessageStands, AliasStands, SettleStands DEF Handle
  <1>2. CASE WriteReceipt
    <2>1. "live" \in Handlers
      BY DEF Handlers
    <2> QED BY <1>2, <2>1, CopyStands
  <1>3. CASE UNCHANGED waVars
    <2>1. UNCHANGED <<rows, mapped, hand, mine, repairVars>>
      BY <1>3 DEF waVars
    <2>2. rows' \in WaRows /\ KeepsMedia /\ mapped' \in BOOLEAN /\ MineFits' /\ HandsOK'
      BY <2>1, RowsErased DEF WaInv, MineFits, HandsOK, HandFits
    <2> QED BY <2>1, <2>2, AskUntouched DEF WaStands, WaInv
  <1>4. CASE ReadForReceipt
    BY <1>4, ReadForReceiptStands
  <1>5. CASE GroupInfo \/ Enrich \/ LearnMapping \/ ReconcileDirectChats \/ LeftExpires
    BY <1>5, ChatsStand
  <1>6. CASE BeginReaction \/ BeginLeave \/ BeginSend \/ EndMine
    BY <1>6, MineStands
  <1>7. CASE (\E r \in DOMAIN asking : AskAgain(r) \/ Asked(r) \/ AskFails(r)) \/ AskExpires
    BY <1>7, AskStands
  <1> QED BY <1>1, <1>2, <1>3, <1>4, <1>5, <1>6, <1>7 DEF WaNext

\* The WhatsApp client: media that was downloaded is never lost while its row
\* stays, whatever is written back from a copy; and every photo marked as asked
\* for is being asked for, or was, so that one that failed can be asked for again.
THEOREM MediaOwed == WaSpec => MediaIsOwed
  <1>1. WaInit => WaInv
    BY WaStart
  <1>2. WaInv /\ [WaNext]_waVars => WaInv'
    BY WaStep DEF WaStands
  <1>3. WaInv => AskedIsOwed
    BY DEF WaInv
  <1>4. WaInv /\ [WaNext]_waVars
        => [\A i \in WaIds : Known(i) /\ rows[i].media /\ rows'[i] # Absent => rows'[i].media]_rows
    BY WaStep DEF WaStands, KeepsMedia
  <1> QED BY <1>1, <1>2, <1>3, <1>4, PTL DEF WaSpec, MediaIsOwed, MediaKept

-----------------------------------------------------------------------------
(* The scheduler.                                                           *)

Handling(i) == pc \in {"route", "answer"} /\ i = Cur

\* A pass works on distinct rows, and its snapshot of their attempts holds: only
\* the pass itself changes them.
SnapshotOK ==
    /\ pc \in {"down", "load", "wait"} => due = <<>>
    /\ \A k \in 1 .. Len(due) :
          /\ due[k].attempts = table[due[k].id].attempts
          /\ table[due[k].id].status # "absent"
    /\ \A j, k \in 1 .. Len(due) : due[j].id = due[k].id => j = k

\* A message in hand is claimed, and stays claimed while the bridge works.
InHandOK ==
    /\ pc \in {"route", "answer"} => due # <<>> /\ table[Cur].status = "sending"
    /\ pc = "answer" => answer \in {"ok", "error"}

\* A message that may be sent still was never taken without being denied.
TakenOK == \A i \in Ids :
    /\ sent[i].taken <= 1 + sent[i].denied
    /\ \/ table[i].status \in {"absent", "pending"}
       \/ Handling(i) /\ (pc = "answer" => answer = "error")
       => sent[i].taken <= sent[i].denied

\* Every call is covered by an attempt, counted or in hand or lost with a claim.
CallsOK == \A i \in Ids :
    /\ table[i].status = "absent" => sent[i].calls = 0 /\ table[i].attempts = 0
    /\ table[i].status = "pending" =>
          sent[i].calls <= table[i].attempts /\ table[i].attempts < MaxAttempts
    /\ table[i].status = "sending" =>
          sent[i].calls <= table[i].attempts + 1 /\ table[i].attempts < MaxAttempts
    /\ Handling(i) /\ pc = "route" => sent[i].calls <= table[i].attempts
    /\ sent[i].calls <= MaxAttempts /\ table[i].attempts <= MaxAttempts

SchedulerInv == SchedulerTypeOK /\ SnapshotOK /\ InHandOK /\ TakenOK /\ CallsOK

\* What is known of a pass's list and of the list without its head.
LEMMA RestOfDue ==
    ASSUME due \in Seq(Loaded), due # <<>>
    PROVE  /\ Tail(due) \in Seq(Loaded)
           /\ Head(due) = due[1] /\ due[1] \in Loaded /\ 1 \in 1 .. Len(due)
           /\ \A k \in 1 .. Len(Tail(due)) :
                 k + 1 \in 1 .. Len(due) /\ Tail(due)[k] = due[k + 1]
    OBVIOUS

\* The message at the head of the list.
LEMMA CurIsId ==
    ASSUME SchedulerTypeOK, due # <<>>
    PROVE  Cur \in Ids /\ Head(due) = due[1] /\ due[1] \in Loaded /\ 1 \in 1 .. Len(due)
    <1>1. due \in Seq(Loaded) BY DEF SchedulerTypeOK
    <1>2. QED BY <1>1, RestOfDue DEF Loaded, Cur

\* A pass that is done with its head keeps a right snapshot of the rest.
LEMMA AdvanceKeeps ==
    ASSUME SchedulerTypeOK, SnapshotOK, due # <<>>, Advance,
           \A i \in Ids \ {Cur} : table'[i] = table[i]
    PROVE  SnapshotOK' /\ InHandOK' /\ due' \in Seq(Loaded)
    <1>1. due \in Seq(Loaded) BY DEF SchedulerTypeOK
    <1>2. /\ Tail(due) \in Seq(Loaded)
          /\ Cur = due[1].id /\ 1 \in 1 .. Len(due)
          /\ \A k \in 1 .. Len(Tail(due)) :
                k + 1 \in 1 .. Len(due) /\ Tail(due)[k] = due[k + 1]
      BY <1>1, RestOfDue DEF Cur
    <1>3. due' = Tail(due) /\ pc' = "next" BY DEF Advance
    <1>4. ASSUME NEW k \in 1 .. Len(due')
          PROVE  /\ due'[k].attempts = table'[due'[k].id].attempts
                 /\ table'[due'[k].id].status # "absent"
      <2>1. k + 1 \in 1 .. Len(due) /\ due'[k] = due[k + 1] BY <1>2, <1>3
      <2>2. due[k + 1] \in Loaded BY <1>1, <2>1
      <2>3. k + 1 # 1 BY <1>3, <1>2
      <2>4. due[k + 1].id \in Ids \ {Cur}
        BY <1>2, <2>1, <2>2, <2>3 DEF SnapshotOK, Loaded
      <2>5. QED BY <2>1, <2>4 DEF SnapshotOK
    <1>5. ASSUME NEW j \in 1 .. Len(due'), NEW k \in 1 .. Len(due'), due'[j].id = due'[k].id
          PROVE  j = k
      <2>1. /\ j + 1 \in 1 .. Len(due) /\ due'[j] = due[j + 1]
            /\ k + 1 \in 1 .. Len(due) /\ due'[k] = due[k + 1]
        BY <1>2, <1>3
      <2>2. j + 1 = k + 1 BY <1>5, <2>1 DEF SnapshotOK
      <2>3. QED BY <2>2
    <1>6. SnapshotOK' BY <1>3, <1>4, <1>5 DEF SnapshotOK
    <1>7. InHandOK' BY <1>3 DEF InHandOK
    <1>8. QED BY <1>2, <1>3, <1>6, <1>7

\* Before a pass there is nothing to keep.
LEMMA SchedulerInit == ASSUME SchedulerAssumption, Init PROVE SchedulerInv
    <1>1. SchedulerTypeOK
      BY DEF SchedulerAssumption, Init, SchedulerTypeOK, RowType, Statuses, Tally
    <1>2. SnapshotOK /\ InHandOK BY DEF Init, SnapshotOK, InHandOK
    <1>3. TakenOK BY DEF Init, TakenOK, Handling
    <1>4. CallsOK BY DEF Init, CallsOK, Handling, SchedulerAssumption
    <1>5. QED BY <1>1, <1>2, <1>3, <1>4 DEF SchedulerInv

\* The rows that are due can be listed, and every list of them names rows.
LEMMA DueListsFit ==
    ASSUME SchedulerAssumption, NEW q \in DueLists
    PROVE  /\ Len(q) \in Nat /\ DOMAIN q = 1 .. Len(q)
           /\ \A k \in 1 .. Len(q) : q[k] \in Ids /\ IsDue(q[k])
           /\ \A j, k \in 1 .. Len(q) : q[j] = q[k] => j = k
    <1> DEFINE D == {i \in Ids : IsDue(i)}
               n == Cardinality(D)
    <1>1. n \in Nat
      <2>1. IsFiniteSet(Ids) BY DEF SchedulerAssumption
      <2>2. IsFiniteSet(D) BY <2>1, FS_Subset
      <2>3. QED BY <2>2, FS_CardinalityType
    <1>2. /\ q \in [1 .. n -> D]
          /\ \A j, k \in 1 .. n : j < k => q[j] # q[k]
      BY DEF DueLists
    <1> HIDE DEF n
    <1>3. Len(q) = n BY <1>1, <1>2
    <1>4. \A j, k \in 1 .. n : q[j] = q[k] => j = k
      <2>1. TAKE j \in 1 .. n, k \in 1 .. n
      <2>2. j < k \/ k < j \/ j = k BY <1>1
      <2>3. QED BY <1>2, <2>2
    <1>5. QED BY <1>1, <1>2, <1>3, <1>4

\* A pass's list is made of the rows as they are.
LEMMA LoadKeeps == ASSUME SchedulerAssumption, SchedulerInv, Load PROVE SchedulerInv'
    <1>1. SchedulerTypeOK /\ SnapshotOK /\ pc = "load" /\ due = <<>>
      BY DEF SchedulerInv, SnapshotOK, Load
    <1>2. /\ due' \in Seq(Loaded)
          /\ pc' = "wait" => due' = <<>>
          /\ \A k \in 1 .. Len(due') :
                /\ due'[k].attempts = table[due'[k].id].attempts
                /\ table[due'[k].id].status # "absent"
          /\ \A j, k \in 1 .. Len(due') : due'[j].id = due'[k].id => j = k
      <2>1. CASE pc' = "wait" /\ UNCHANGED due BY <1>1, <2>1
      <2>2. ASSUME NEW q \in DueLists, pc' = "next",
                   due' = [k \in 1 .. Len(q) |-> [id |-> q[k], attempts |-> table[q[k]].attempts]]
            PROVE  <1>2!1 /\ <1>2!2 /\ <1>2!3 /\ <1>2!4
        <3>1. /\ Len(q) \in Nat
              /\ \A k \in 1 .. Len(q) : q[k] \in Ids /\ table[q[k]].status = "pending"
              /\ \A j, k \in 1 .. Len(q) : q[j] = q[k] => j = k
          BY DueListsFit DEF IsDue
        <3>2. \A k \in 1 .. Len(q) : table[q[k]].attempts \in Nat
          BY <1>1, <3>1 DEF SchedulerTypeOK, RowType
        <3>3. due' \in Seq(Loaded) BY <2>2, <3>1, <3>2 DEF Loaded
        <3>4. Len(due') = Len(q) BY <2>2, <3>1
        <3>5. QED BY <2>2, <3>1, <3>3, <3>4
      <2>3. QED BY <2>1, <2>2 DEF Load
    <1>3. /\ table' = table /\ sent' = sent /\ answer' = answer /\ now' = now
          /\ mishaps' \in Nat /\ pc' \in {"next", "wait"}
      BY <1>1 DEF Load, Mishap, SchedulerTypeOK
    <1>4. SchedulerTypeOK' BY <1>1, <1>2, <1>3 DEF SchedulerTypeOK
    <1>5. SnapshotOK' BY <1>2, <1>3 DEF SnapshotOK
    <1>6. InHandOK' BY <1>3 DEF InHandOK
    <1>7. TakenOK' BY <1>1, <1>3 DEF SchedulerInv, TakenOK, Handling
    <1>8. CallsOK' BY <1>1, <1>3 DEF SchedulerInv, CallsOK, Handling
    <1>9. QED BY <1>4, <1>5, <1>6, <1>7, <1>8 DEF SchedulerInv

\* Turns of the loop, the clock and the process's end leave every row alone.
LEMMA TurnKeeps ==
    ASSUME SchedulerInv, SchedulerStart \/ PassDone \/ Again \/ SchedulerCrash \/ SchedulerTick
    PROVE  SchedulerInv'
    <1>1. /\ table' = table /\ sent' = sent
          /\ \/ pc' = pc /\ due' = due /\ answer' = answer
             \/ pc' \in {"down", "load", "wait"} /\ due' = <<>> /\ answer' \in {answer, "none"}
      BY DEF SchedulerInv, SnapshotOK, SchedulerStart, PassDone, Again, SchedulerCrash,
             SchedulerTick
    <1>2. now' \in Nat /\ mishaps' \in Nat
      BY DEF SchedulerInv, SchedulerTypeOK, SchedulerStart, PassDone, Again, SchedulerCrash,
             SchedulerTick, Mishap
    <1>3. <<>> \in Seq(Loaded) OBVIOUS
    <1>4. SchedulerTypeOK' BY <1>1, <1>2, <1>3 DEF SchedulerInv, SchedulerTypeOK
    <1>5. SnapshotOK' BY <1>1 DEF SchedulerInv, SnapshotOK
    <1>6. InHandOK' BY <1>1 DEF SchedulerInv, InHandOK, Cur
    <1>7. TakenOK' BY <1>1 DEF SchedulerInv, TakenOK, Handling, Cur
    <1>8. CallsOK' BY <1>1 DEF SchedulerInv, CallsOK, Handling, Cur
    <1>9. QED BY <1>4, <1>5, <1>6, <1>7, <1>8 DEF SchedulerInv

\* The user's two calls change a row that no pass has in hand.
LEMMA UserKeeps ==
    ASSUME SchedulerAssumption, SchedulerInv, NEW i \in Ids, Create(i) \/ Cancel(i)
    PROVE  SchedulerInv'
    <1>1. /\ \/ table[i].status = "absent" /\ table'[i].status = "pending"
             \/ table[i].status = "pending" /\ table'[i].status = "canceled"
          /\ table'[i].attempts = table[i].attempts
          /\ \A j \in Ids \ {i} : table'[j] = table[j]
          /\ table' \in [Ids -> RowType]
      <2>1. table \in [Ids -> RowType] /\ now \in Nat /\ MaxDelay \in Nat
        BY DEF SchedulerInv, SchedulerTypeOK, SchedulerAssumption
      <2>2. CASE Create(i)
        <3>1. PICK t \in (now + 1) .. (now + MaxDelay) :
                 table' = [table EXCEPT ![i].status = "pending", ![i].at = t]
          BY <2>2 DEF Create
        <3>2. t \in Nat BY <2>1
        <3>3. table[i] \in RowType /\ table[i].status = "absent" BY <2>1, <2>2 DEF Create
        <3>4. /\ table'[i] = [table[i] EXCEPT !.status = "pending", !.at = t]
              /\ \A j \in Ids \ {i} : table'[j] = table[j]
          BY <2>1, <3>1
        <3>5. table'[i] \in RowType BY <3>2, <3>3, <3>4 DEF RowType, Statuses
        <3>6. table' \in [Ids -> RowType] BY <2>1, <3>1, <3>4, <3>5
        <3>7. QED BY <3>3, <3>4, <3>6 DEF RowType
      <2>3. CASE Cancel(i) BY <2>1, <2>3 DEF Cancel, RowType, Statuses
      <2>4. QED BY <2>2, <2>3
    <1>2. UNCHANGED <<pc, due, answer, now, mishaps, sent>> BY DEF Create, Cancel
    <1>3. SchedulerTypeOK' BY <1>1, <1>2 DEF SchedulerInv, SchedulerTypeOK
    <1>4. SnapshotOK'
      <2>1. \A k \in 1 .. Len(due) : due[k].id \in Ids
        <3>1. due \in Seq(Loaded) BY DEF SchedulerInv, SchedulerTypeOK
        <3>2. \A k \in 1 .. Len(due) : due[k] \in Loaded BY <3>1
        <3>3. QED BY <3>2 DEF Loaded
      <2>2. \A k \in 1 .. Len(due) :
               /\ table'[due[k].id].attempts = table[due[k].id].attempts
               /\ table[due[k].id].status # "absent" => table'[due[k].id].status # "absent"
        BY <1>1, <2>1
      <2>3. QED BY <1>2, <2>2 DEF SchedulerInv, SnapshotOK
    <1>5. pc \in {"route", "answer"} => Cur \in Ids /\ Cur # i
      BY <1>1, CurIsId DEF SchedulerInv, InHandOK
    <1>6. InHandOK' BY <1>1, <1>2, <1>5 DEF SchedulerInv, InHandOK, Cur
    <1>7. TakenOK' BY <1>1, <1>2, <1>5 DEF SchedulerInv, TakenOK, Handling, Cur
    <1>8. CallsOK'
      <2>1. MaxAttempts \in Nat \ {0} /\ sent[i].calls \in Nat
        BY DEF SchedulerAssumption, SchedulerInv, SchedulerTypeOK, Tally
      <2>2. QED BY <1>1, <1>2, <1>5, <2>1 DEF SchedulerInv, CallsOK, Handling, Cur
    <1>9. QED BY <1>3, <1>4, <1>6, <1>7, <1>8 DEF SchedulerInv

\* The bridge's answer is tallied; a claim covers the call.
LEMMA SendKeeps == ASSUME SchedulerInv, Send PROVE SchedulerInv'
    <1>1. /\ pc = "route" /\ pc' = "answer" /\ due # <<>>
          /\ UNCHANGED <<table, due, now, mishaps>>
      BY DEF Send, SchedulerInv, InHandOK
    <1>2. Cur \in Ids /\ Cur' = Cur BY <1>1, CurIsId DEF SchedulerInv, Cur
    <1>3. sent \in [Ids -> Tally] /\ sent[Cur] \in Tally
      BY <1>2 DEF SchedulerInv, SchedulerTypeOK
    <1>4. /\ answer' \in {"ok", "error"}
          /\ sent' \in [Ids -> Tally]
          /\ sent'[Cur].calls = sent[Cur].calls + 1
          /\ sent'[Cur].denied \in {sent[Cur].denied, sent[Cur].denied + 1}
          /\ sent'[Cur].taken \in {sent[Cur].taken, sent[Cur].taken + 1}
          /\ \/ answer' = "ok"
             \/ /\ sent'[Cur].taken # sent[Cur].taken
                => sent'[Cur].denied = sent[Cur].denied + 1
          /\ \A j \in Ids \ {Cur} : sent'[j] = sent[j]
      BY <1>2, <1>3 DEF Send, Tally
    <1>5. SchedulerTypeOK' BY <1>1, <1>4 DEF SchedulerInv, SchedulerTypeOK
    <1>6. SnapshotOK' BY <1>1 DEF SchedulerInv, SnapshotOK
    <1>7. InHandOK' BY <1>1, <1>2, <1>4 DEF SchedulerInv, InHandOK
    <1>8. TakenOK'
      <2>1. sent[Cur].taken <= sent[Cur].denied /\ table[Cur].status = "sending"
        BY <1>1, <1>2 DEF SchedulerInv, TakenOK, Handling, InHandOK
      <2>2. sent'[Cur].taken <= 1 + sent'[Cur].denied
        BY <1>3, <1>4, <2>1 DEF Tally
      <2>3. answer' = "error" => sent'[Cur].taken <= sent'[Cur].denied
        BY <1>3, <1>4, <2>1 DEF Tally
      <2>4. QED BY <1>1, <1>2, <1>4, <2>1, <2>2, <2>3 DEF SchedulerInv, TakenOK, Handling
    <1>9. CallsOK'
      <2>1. /\ sent[Cur].calls <= table[Cur].attempts /\ table[Cur].status = "sending"
            /\ table[Cur].attempts < MaxAttempts
        BY <1>1, <1>2 DEF SchedulerInv, CallsOK, Handling, InHandOK
      <2>2. sent'[Cur].calls <= table[Cur].attempts + 1 /\ sent'[Cur].calls <= MaxAttempts
        BY <1>2, <1>3, <1>4, <2>1, SchedulerAssumption
           DEF Tally, SchedulerAssumption, SchedulerInv, SchedulerTypeOK, RowType
      <2>3. QED BY <1>1, <1>2, <1>4, <2>1, <2>2 DEF SchedulerInv, CallsOK, Handling
    <1>10. QED BY <1>5, <1>6, <1>7, <1>8, <1>9 DEF SchedulerInv

\* A pass goes on after a step that left the head's row consistent: what there is
\* to show is about that row alone.
LEMMA HeadSettled ==
    ASSUME SchedulerAssumption, SchedulerInv, due # <<>>, Advance,
           UNCHANGED <<now, sent>>, mishaps' \in Nat, table' \in [Ids -> RowType],
           \A i \in Ids \ {Cur} : table'[i] = table[i],
           table'[Cur].status # "absent",
           table'[Cur].status = "pending" => sent[Cur].taken <= sent[Cur].denied,
           table'[Cur].status = "pending" =>
              sent[Cur].calls <= table'[Cur].attempts /\ table'[Cur].attempts < MaxAttempts,
           table'[Cur].status = "sending" =>
              sent[Cur].calls <= table'[Cur].attempts + 1 /\ table'[Cur].attempts < MaxAttempts,
           table'[Cur].attempts <= MaxAttempts
    PROVE  SchedulerInv'
    <1>1. SnapshotOK' /\ InHandOK' /\ due' \in Seq(Loaded)
      BY AdvanceKeeps DEF SchedulerInv
    <1>2. pc' = "next" /\ answer' = "none" /\ Cur \in Ids
      BY CurIsId DEF Advance, SchedulerInv
    <1>3. SchedulerTypeOK' BY <1>1, <1>2 DEF SchedulerInv, SchedulerTypeOK
    <1>4. TakenOK' BY <1>2 DEF SchedulerInv, TakenOK, Handling
    <1>5. CallsOK' BY <1>2 DEF SchedulerInv, CallsOK, Handling
    <1>6. QED BY <1>1, <1>3, <1>4, <1>5 DEF SchedulerInv

\* A pass takes a pending row in hand, or leaves the row alone.
LEMMA ClaimKeeps == ASSUME SchedulerAssumption, SchedulerInv, Claim PROVE SchedulerInv'
    <1>1. /\ pc = "next" /\ due # <<>> /\ now' = now /\ sent' = sent
          /\ Cur \in Ids /\ table \in [Ids -> RowType] /\ table[Cur] \in RowType
      BY CurIsId DEF Claim, SchedulerInv, SchedulerTypeOK
    <1>2. table[Cur].status # "absent"
      BY <1>1, CurIsId DEF SchedulerInv, SnapshotOK, Cur
    <1>3. CASE /\ table[Cur].status = "pending"
               /\ table' = [table EXCEPT ![Cur].status = "sending"]
               /\ pc' = "route"
               /\ UNCHANGED <<due, answer, mishaps>>
      <2>1. /\ table'[Cur] = [table[Cur] EXCEPT !.status = "sending"]
            /\ \A i \in Ids \ {Cur} : table'[i] = table[i]
        BY <1>1, <1>3
      <2>2. /\ table'[Cur] \in RowType /\ table'[Cur].status = "sending"
            /\ table'[Cur].attempts = table[Cur].attempts
        BY <1>1, <2>1 DEF RowType, Statuses
      <2>3. table' \in [Ids -> RowType] /\ Cur' = Cur BY <1>1, <1>3, <2>1, <2>2 DEF Cur
      <2>4. SchedulerTypeOK' BY <1>1, <1>3, <2>3 DEF SchedulerInv, SchedulerTypeOK
      <2>5. SnapshotOK'
        <3>1. due \in Seq(Loaded) BY DEF SchedulerInv, SchedulerTypeOK
        <3>2. \A k \in 1 .. Len(due) : due[k] \in Loaded BY <3>1
        <3>3. \A k \in 1 .. Len(due) : due[k].id \in Ids BY <3>2 DEF Loaded
        <3>4. \A k \in 1 .. Len(due) :
                 /\ table'[due[k].id].attempts = table[due[k].id].attempts
                 /\ table[due[k].id].status # "absent" => table'[due[k].id].status # "absent"
          BY <2>1, <2>2, <3>3
        <3>5. QED BY <1>1, <1>3, <3>4 DEF SchedulerInv, SnapshotOK
      <2>6. InHandOK' BY <1>1, <1>3, <2>2, <2>3 DEF InHandOK
      <2>7. TakenOK' BY <1>1, <1>3, <2>1, <2>2, <2>3 DEF SchedulerInv, TakenOK, Handling
      <2>8. CallsOK'
        <3>1. /\ sent[Cur].calls <= table[Cur].attempts /\ table[Cur].attempts < MaxAttempts
              /\ sent[Cur].calls \in Nat /\ table[Cur].attempts \in Nat
              /\ sent[Cur].calls <= MaxAttempts /\ table[Cur].attempts <= MaxAttempts
          BY <1>1, <1>3 DEF SchedulerInv, CallsOK, SchedulerTypeOK, Tally, RowType
        <3>2. sent[Cur].calls <= table[Cur].attempts + 1 BY <3>1
        <3>3. QED BY <1>1, <1>3, <2>1, <2>2, <2>3, <3>1, <3>2
                 DEF SchedulerInv, CallsOK, Handling
      <2>9. QED BY <2>4, <2>5, <2>6, <2>7, <2>8 DEF SchedulerInv
    <1>4. CASE Advance /\ UNCHANGED table /\ mishaps' \in Nat
      <2>1. /\ table[Cur].status = "pending" => sent[Cur].taken <= sent[Cur].denied
            /\ table[Cur].status = "pending" =>
                  sent[Cur].calls <= table[Cur].attempts /\ table[Cur].attempts < MaxAttempts
            /\ table[Cur].status = "sending" =>
                  sent[Cur].calls <= table[Cur].attempts + 1 /\ table[Cur].attempts < MaxAttempts
            /\ table[Cur].attempts <= MaxAttempts
        BY <1>1 DEF SchedulerInv, TakenOK, CallsOK
      <2>2. QED BY <1>1, <1>2, <1>4, <2>1, HeadSettled
    <1>5. mishaps \in Nat BY DEF SchedulerInv, SchedulerTypeOK
    <1>6. QED BY <1>3, <1>4, <1>5 DEF Claim, Mishap

\* A failed try is counted, from the snapshot that still holds, or its count is
\* lost and the row stays claimed.
LEMMA RetryKeeps ==
    ASSUME SchedulerAssumption, SchedulerInv, NotConnected \/ SendFailed
    PROVE  SchedulerInv'
    <1>1. /\ pc \in {"route", "answer"} /\ due # <<>>
          /\ pc = "answer" => answer = "error"
          /\ table[Cur].status = "sending"
          /\ RetryOrFail /\ Advance /\ UNCHANGED <<now, sent>>
      BY DEF NotConnected, SendFailed, RetryOrFail, SchedulerInv, InHandOK
    <1>2. /\ Cur \in Ids /\ table[Cur] \in RowType /\ table \in [Ids -> RowType]
          /\ sent[Cur] \in Tally /\ MaxAttempts \in Nat /\ mishaps \in Nat
      BY <1>1, CurIsId DEF SchedulerInv, SchedulerTypeOK, SchedulerAssumption
    <1>3. /\ sent[Cur].taken <= sent[Cur].denied
          /\ sent[Cur].calls <= table[Cur].attempts + 1
          /\ table[Cur].attempts < MaxAttempts
      BY <1>1, <1>2 DEF SchedulerInv, TakenOK, CallsOK, Handling
    <1>4. Head(due).attempts = table[Cur].attempts
      BY <1>1, CurIsId DEF SchedulerInv, SnapshotOK, Cur
    <1>5. CASE Mishap /\ UNCHANGED table
      <2>1. mishaps' \in Nat /\ table[Cur].attempts <= MaxAttempts
        BY <1>2, <1>3, <1>5 DEF Mishap, RowType
      <2>2. QED BY <1>1, <1>2, <1>3, <1>5, <2>1, HeadSettled
    <1>6. CASE /\ table' = [table EXCEPT
                      ![Cur].status = IF Head(due).attempts + 1 >= MaxAttempts THEN "failed"
                                      ELSE "pending",
                      ![Cur].attempts = @ + 1]
               /\ UNCHANGED mishaps
      <2> DEFINE verdict == IF table[Cur].attempts + 1 >= MaxAttempts THEN "failed" ELSE "pending"
      <2>1. /\ table'[Cur] = [table[Cur] EXCEPT !.status = verdict,
                                                !.attempts = table[Cur].attempts + 1]
            /\ \A i \in Ids \ {Cur} : table'[i] = table[i]
        BY <1>2, <1>4, <1>6
      <2>2. /\ verdict \in {"failed", "pending"}
            /\ verdict = "pending" => table[Cur].attempts + 1 < MaxAttempts
        BY <1>2 DEF RowType
      <2> HIDE DEF verdict
      <2>3. /\ table'[Cur] \in RowType /\ table'[Cur].status = verdict
            /\ table'[Cur].attempts = table[Cur].attempts + 1
        <3>1. table[Cur].attempts \in Nat BY <1>2 DEF RowType
        <3>2. table[Cur].attempts + 1 \in Nat BY <3>1
        <3>3. verdict \in Statuses BY <2>2 DEF Statuses
        <3>4. QED BY <1>2, <2>1, <3>2, <3>3 DEF RowType
      <2>4. table' \in [Ids -> RowType] BY <1>2, <1>6, <2>1, <2>3
      <2>5. table'[Cur].attempts <= MaxAttempts BY <1>2, <1>3, <2>3 DEF RowType
      <2>6. QED BY <1>1, <1>2, <1>3, <1>6, <2>1, <2>2, <2>3, <2>4, <2>5, HeadSettled
    <1>7. QED BY <1>1, <1>5, <1>6 DEF RetryOrFail

\* A sent message is recorded, or stays claimed.
LEMMA MarkKeeps == ASSUME SchedulerAssumption, SchedulerInv, MarkSent PROVE SchedulerInv'
    <1>1. /\ pc = "answer" /\ due # <<>> /\ table[Cur].status = "sending"
          /\ Advance /\ UNCHANGED <<now, sent>>
      BY DEF MarkSent, SchedulerInv, InHandOK
    <1>2. /\ Cur \in Ids /\ table[Cur] \in RowType /\ table \in [Ids -> RowType]
          /\ mishaps \in Nat
      BY <1>1, CurIsId DEF SchedulerInv, SchedulerTypeOK
    <1>3. /\ sent[Cur].calls <= table[Cur].attempts + 1
          /\ table[Cur].attempts < MaxAttempts /\ table[Cur].attempts <= MaxAttempts
      BY <1>1, <1>2 DEF SchedulerInv, CallsOK
    <1>4. CASE Mishap /\ UNCHANGED table
      <2>1. mishaps' \in Nat BY <1>2, <1>4 DEF Mishap
      <2>2. QED BY <1>1, <1>2, <1>3, <1>4, <2>1, HeadSettled
    <1>5. CASE table' = [table EXCEPT ![Cur].status = "sent"] /\ UNCHANGED mishaps
      <2>1. /\ table'[Cur] = [table[Cur] EXCEPT !.status = "sent"]
            /\ \A i \in Ids \ {Cur} : table'[i] = table[i]
        BY <1>2, <1>5
      <2>2. /\ table'[Cur] \in RowType /\ table'[Cur].status = "sent"
            /\ table'[Cur].attempts = table[Cur].attempts
        BY <1>2, <2>1 DEF RowType, Statuses
      <2>3. table' \in [Ids -> RowType] BY <1>2, <1>5, <2>1, <2>2
      <2>4. QED BY <1>1, <1>2, <1>3, <1>5, <2>1, <2>2, <2>3, HeadSettled
    <1>6. QED BY <1>4, <1>5 DEF MarkSent

\* Every step of the scheduler keeps the invariant.
LEMMA SchedulerStep ==
    ASSUME SchedulerAssumption, SchedulerInv, [Next]_vars PROVE SchedulerInv'
    <1>1. CASE SchedulerStart \/ PassDone \/ Again \/ SchedulerCrash \/ SchedulerTick
      BY <1>1, TurnKeeps
    <1>2. CASE Load BY <1>2, LoadKeeps
    <1>3. CASE Claim BY <1>3, ClaimKeeps
    <1>4. CASE NotConnected \/ SendFailed BY <1>4, RetryKeeps
    <1>5. CASE Send BY <1>5, SendKeeps
    <1>6. CASE MarkSent BY <1>6, MarkKeeps
    <1>7. CASE \E i \in Ids : Create(i) \/ Cancel(i) BY <1>7, UserKeeps
    <1>8. CASE UNCHANGED vars
      BY <1>8 DEF vars, SchedulerInv, SchedulerTypeOK, SnapshotOK, InHandOK, TakenOK, CallsOK,
                  Handling, Cur
    <1>9. QED BY <1>1, <1>2, <1>3, <1>4, <1>5, <1>6, <1>7, <1>8 DEF Next, SchedulerLoop

\* The inductive invariant holds of the scheduler: claims, snapshots and the tally
\* of calls fit together (StartScheduler, retryOrFail).
THEOREM SchedulerHolds == Spec => []SchedulerInv
    <1>1. Init => SchedulerInv BY SchedulerAssumption, SchedulerInit
    <1>2. SchedulerInv /\ [Next]_vars => SchedulerInv' BY SchedulerAssumption, SchedulerStep
    <1>3. QED BY <1>1, <1>2, PTL DEF Spec

\* A scheduled message is sent a second time only after a bridge denied having sent
\* it: crashes, failing records, stale snapshots and cancels never repeat one
\* (ClaimScheduledMessage, MarkScheduledMessageSent).
THEOREM RepeatIsDenied == Spec => []RepeatedOnlyIfDenied
    <1>1. SchedulerInv => RepeatedOnlyIfDenied
      BY DEF SchedulerInv, TakenOK, RepeatedOnlyIfDenied
    <1>2. QED BY <1>1, SchedulerHolds, PTL

\* No message is offered to a bridge more than scheduleMaxAttempts times, although
\* the count is judged by a snapshot and may be lost with a claim (retryOrFail).
THEOREM BudgetHolds == Spec => []AttemptBudget
    <1>1. SchedulerInv => AttemptBudget BY DEF SchedulerInv, CallsOK, AttemptBudget
    <1>2. QED BY <1>1, SchedulerHolds, PTL

\* A message withdrawn, sent or given up is never taken up again, although a pass
\* may have loaded it before (CancelScheduledMessage).
THEOREM FinalStays == Spec => FinalIsFinal
    <1> DEFINE Stays == \A i \in Ids :
            table[i].status \in {"canceled", "sent", "failed"} =>
                table'[i] = table[i] /\ sent'[i].calls = sent[i].calls
    <1>1. ASSUME SchedulerInv, [Next]_vars PROVE Stays
      <2>1. TAKE i \in Ids
      <2>2. HAVE table[i].status \in {"canceled", "sent", "failed"}
      <2>3. /\ pc \in {"route", "answer"} => Cur # i
            /\ table \in [Ids -> RowType] /\ sent \in [Ids -> Tally]
        BY <1>1, <2>2 DEF SchedulerInv, SchedulerTypeOK, InHandOK
      <2>4. CASE Load \/ SchedulerStart \/ PassDone \/ Again \/ SchedulerCrash \/ SchedulerTick
        BY <2>4 DEF Load, SchedulerStart, PassDone, Again, SchedulerCrash, SchedulerTick
      <2>5. CASE Claim BY <2>2, <2>3, <2>5 DEF Claim
      <2>6. CASE NotConnected \/ SendFailed
        BY <2>3, <2>6 DEF NotConnected, SendFailed, RetryOrFail
      <2>7. CASE Send BY <2>3, <2>7 DEF Send
      <2>8. CASE MarkSent BY <2>3, <2>8 DEF MarkSent
      <2>9. CASE \E j \in Ids : Create(j) \/ Cancel(j) BY <2>2, <2>3, <2>9 DEF Create, Cancel
      <2>10. CASE UNCHANGED vars BY <2>10 DEF vars
      <2>11. QED BY <1>1, <2>4, <2>5, <2>6, <2>7, <2>8, <2>9, <2>10 DEF Next, SchedulerLoop
    <1>2. SchedulerInv /\ [Next]_vars => [Stays]_vars BY <1>1
    <1>3. FinalIsFinal <=> [][Stays]_vars BY PTL DEF FinalIsFinal
    <1>4. QED BY <1>2, <1>3, SchedulerHolds, PTL DEF Spec
=============================================================================
