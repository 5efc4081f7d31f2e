------------------------------- MODULE Marks -------------------------------
(* The marks on one message: who reacted with what, and how far the         *)
(* conversation was read.  A platform tells of reactions either one by one  *)
(* (WhatsApp, Signal) or as the full list inside every copy of the message  *)
(* (Google, Slack); the frames become inbox records, which the ingest       *)
(* worker may process in any order and again after a crash.  The user's own *)
(* reactions and read positions go out through the outbox.                  *)
EXTENDS Integers, Sequences, FiniteSets

CONSTANTS
    Others,        \* the people of the conversation besides the user
    Emojis,        \* what they react with
    NoEmoji,       \* no reaction
    MaxMarkTime,       \* bound on the platform's clock
    MaxRecords,    \* bound on the frames the platform sends
    MaxPresses,    \* bound on what the user submits
    MaxMarkCrashes \* bound on crashes of the daemon

Own == "self"
Reactors == Others \cup {Own}
Reaction == Emojis \cup {NoEmoji}

VARIABLES
    river,      \* how the platform tells of reactions: "whole" or "each"
    subject,    \* what the behaviour is about: reactions, or read positions
    target,     \* the message in the store: "absent", "present" or "deleted"
    truth,      \* the reaction each reactor has on the platform
    phoneTime,      \* the platform's time
    wire,       \* frames sent and not yet received
    recorded,      \* records in the order received
    done,       \* records marked processed
    midway,     \* record whose message is written and whose reactions are not, 0 if none
    marks,      \* the row of each reactor
    fence,      \* the sequence of the newest full list applied, 0 if none
    applied,    \* history: records whose reactions were applied
    readCursor,     \* the read cursor: time, and whether it names a message
    intents,    \* reactions and receipts in the outbox, oldest first
    press,      \* the last press that reported success: emoji and action
    markCrashes

markVars == <<river, subject, target, truth, phoneTime, wire, recorded, done, midway, marks, fence,
              applied, readCursor, intents, press, markCrashes>>
storeVars == <<marks, fence, applied, readCursor>>
wireVars == <<truth, phoneTime, wire>>

NoRow == [on |-> FALSE, emoji |-> NoEmoji, at |-> -1, seq |-> -1]
\* A row carried over from the legacy store keeps its emoji, at the time of its message.
Seeded(e) == [on |-> TRUE, emoji |-> e, at |-> 0, seq |-> 0]
NoPress == [emoji |-> NoEmoji, action |-> "none"]
Shown(who) == IF marks[who].on THEN marks[who].emoji ELSE NoEmoji

MarksInit ==
    /\ river \in {"whole", "each"} /\ target \in {"absent", "present"}
    /\ subject \in {"reactions", "reads"} /\ (subject = "reads" => river = "each")
    /\ truth = [who \in Reactors |-> NoEmoji] /\ phoneTime = 1
    /\ wire = <<>> /\ recorded = <<>> /\ done = {} /\ midway = 0
    /\ marks \in {[who \in Reactors |-> NoRow]} \cup
                 {[[who \in Reactors |-> NoRow] EXCEPT ![o] = Seeded(e)] :
                     o \in Others, e \in {CHOOSE x \in Emojis : TRUE}}
    /\ target = "absent" => \A who \in Reactors : marks[who] = NoRow
    /\ fence = 0 /\ applied = {} /\ readCursor = [at |-> 0, named |-> FALSE]
    /\ intents = <<>> /\ press = NoPress /\ markCrashes = 0

(***************************************************************************)
(* The platform.                                                           *)
(***************************************************************************)
\* On a platform of full lists every frame carries the whole message.
Frame(kind, who, all) ==
    [kind |-> kind, who |-> who, emoji |-> all[who], at |-> phoneTime',
     all |-> IF river = "whole" THEN all ELSE [r \in Reactors |-> NoEmoji]]
Tick == phoneTime < MaxMarkTime /\ phoneTime' \in {phoneTime, phoneTime + 1}
PutOnWire(f) == Len(recorded) + Len(wire) < MaxRecords /\ wire' = Append(wire, f)
ReactsOnPlatform(who, e) ==
    /\ truth' = [truth EXCEPT ![who] = e]
    /\ PutOnWire(Frame("reaction", who, truth'))

\* Another person, or the user on another device, reacts or takes it back.
React(who, e) ==
    /\ subject = "reactions" /\ truth[who] # e /\ Tick /\ ReactsOnPlatform(who, e)
    /\ UNCHANGED <<river, subject, target, recorded, done, midway, storeVars, intents,
                   press, markCrashes>>

\* The message itself, its deletion, or the user's own read receipt.
SendFrame(kind) ==
    /\ kind = "receipt" => subject = "reads"
    /\ Tick /\ PutOnWire(Frame(kind, Own, truth))
    /\ UNCHANGED <<river, subject, target, truth, recorded, done, midway, storeVars,
                   intents, press,
                   markCrashes>>

\* A connection delivers full copies in order; encrypted deltas may overtake.
\* ReceivedAt is in milliseconds: two records may carry the same.
ReceivedNow == IF recorded = <<>> THEN {1}
               ELSE {recorded[Len(recorded)].seq, recorded[Len(recorded)].seq + 1}
ReceiveFrame(k) ==
    /\ k \in DOMAIN wire /\ (river = "whole" => k = 1)
    /\ \E seq \in ReceivedNow :
          recorded' = Append(recorded, [frame |-> wire[k], seq |-> seq])
    /\ wire' = SubSeq(wire, 1, k - 1) \o SubSeq(wire, k + 1, Len(wire))
    /\ UNCHANGED <<river, subject, target, truth, phoneTime, done, midway, storeVars,
                   intents, press,
                   markCrashes>>

(***************************************************************************)
(* Applying a record.                                                      *)
(***************************************************************************)
\* Mutant of Supersedes: every report wins.
SupersedesAlways(at, row) == TRUE
\* A later report wins, and of the same millisecond the one applied last.
Supersedes(at, row) == at >= row.at
\* A removal keeps the emoji it removed.
WithDelta(row, f, seq) ==
    IF ~Supersedes(f.at, row) THEN row
    ELSE [on |-> f.emoji # NoEmoji,
          emoji |-> IF f.emoji = NoEmoji THEN row.emoji ELSE f.emoji,
          at |-> f.at, seq |-> seq]
\* ApplyReaction.
ApplyReaction(r) ==
    marks' = [marks EXCEPT ![r.frame.who] = WithDelta(@, r.frame, r.seq)]

\* Entries newer than their row replace it; reactors not listed lose theirs.
WithEntry(row, e, seq) ==
    IF e = NoEmoji THEN (IF row.on THEN [row EXCEPT !.on = FALSE, !.seq = seq] ELSE row)
    ELSE IF seq < row.seq THEN row
    ELSE [on |-> TRUE, emoji |-> e, at |-> phoneTime, seq |-> seq]
Outdated(seq) == seq < fence
\* ReplaceEmbeddedReactions.
ReplaceEmbeddedReactions(r) ==
    IF Outdated(r.seq) THEN UNCHANGED <<marks, fence>>
    ELSE /\ fence' = r.seq
         /\ marks' = [who \in Reactors |-> WithEntry(marks[who], r.frame.all[who], r.seq)]

\* upsertReadCursor: an older time changes nothing, an equal one the message.
NotOlder(at) == at >= readCursor.at
UpsertReadCursor(at, named) ==
    readCursor' = IF NotOlder(at) THEN [at |-> at, named |-> named] ELSE readCursor

Pending(k) == k \in DOMAIN recorded \ done
InRiver(kind) == river = "whole" /\ kind \in {"message", "reaction"}

\* A full copy writes the message, which marks its record processed ...
ProjectCopy(k) ==
    /\ Pending(k) /\ midway = 0 /\ InRiver(recorded[k].frame.kind)
    /\ target' = IF target = "absent" THEN "present" ELSE target
    /\ done' = done \cup {k} /\ midway' = k
    /\ UNCHANGED <<river, subject, wireVars, recorded, storeVars, intents, press,
                   markCrashes>>

\* ... and then its list of reactions.
ReplaceList ==
    /\ midway # 0 /\ ReplaceEmbeddedReactions(recorded[midway])
    /\ applied' = applied \cup {midway} /\ midway' = 0
    /\ UNCHANGED <<river, subject, target, wireVars, recorded, done, readCursor,
                   intents, press, markCrashes>>

\* A report of one reaction is dropped when its message is not stored.
\* The record is marked processed in a step of its own.
ApplyDelta(k) ==
    /\ Pending(k) /\ river = "each" /\ recorded[k].frame.kind = "reaction"
    /\ IF target = "absent" THEN UNCHANGED <<marks, applied>>
       ELSE ApplyReaction(recorded[k]) /\ applied' = applied \cup {k}
    /\ done' \in {done, done \cup {k}}
    /\ done' = done => markCrashes < MaxMarkCrashes
    /\ markCrashes' = markCrashes + IF done' = done THEN 1 ELSE 0
    /\ UNCHANGED <<river, subject, target, wireVars, recorded, midway, fence,
                   readCursor, intents, press>>

\* The message of a platform of single reports; ApplyMessageMutation.
WriteTarget(k) ==
    /\ Pending(k) /\ midway = 0
    /\ \/ /\ recorded[k].frame.kind = "message" /\ river = "each"
          /\ target' = IF target = "absent" THEN "present" ELSE target
       \/ /\ recorded[k].frame.kind = "delete"
          /\ target' = IF target = "absent" THEN "absent" ELSE "deleted"
    /\ done' = done \cup {k}
    /\ UNCHANGED <<river, subject, wireVars, recorded, midway, storeVars, intents,
                   press, markCrashes>>

\* advanceReadCursor: the user read the conversation on another device.
AdvanceReadCursor(k) ==
    /\ Pending(k) /\ midway = 0 /\ recorded[k].frame.kind = "receipt"
    /\ UpsertReadCursor(recorded[k].frame.at, target # "absent")
    /\ done' = done \cup {k}
    /\ UNCHANGED <<river, subject, target, wireVars, recorded, midway, marks, fence,
                   applied, intents,
                   press, markCrashes>>

\* The daemon dies between writing the message and its reactions.
MarkCrash ==
    /\ midway # 0 /\ markCrashes < MaxMarkCrashes
    /\ midway' = 0 /\ markCrashes' = markCrashes + 1
    /\ UNCHANGED <<river, subject, target, wireVars, recorded, done, storeVars,
                   intents, press>>

(***************************************************************************)
(* The user.                                                               *)
(***************************************************************************)
\* The palette removes an emoji the message shows, whoever it is from.
PaletteAction(e) == IF \E who \in Reactors : Shown(who) = e THEN "remove" ELSE "add"

\* The key is made of message, emoji and action only.
IntentKey(e, action) == <<e, action>>
Known(key) == \E n \in DOMAIN intents : intents[n].key = key
Enqueue(key, effect) ==
    intents' = IF Known(key) THEN intents
               ELSE Append(intents, [key |-> key, effect |-> effect, state |-> "queued"])

\* MessageService.SendReaction: a deleted message takes no reaction.
SendReaction(e, action) ==
    /\ target = "present"
    /\ Enqueue(IntentKey(e, action), IF action = "add" THEN e ELSE NoEmoji)

Press(e) ==
    /\ subject = "reactions" /\ Len(intents) < MaxPresses
    /\ LET action == PaletteAction(e)
       IN  /\ SendReaction(e, action)
           /\ press' = [emoji |-> e, action |-> action]
    /\ UNCHANGED <<river, subject, target, wireVars, recorded, done, midway, storeVars,
                   markCrashes>>

\* Opening the conversation reads up to now, and up to its newest message.
MarkConversationRead ==
    /\ subject = "reads" /\ UpsertReadCursor(phoneTime, target # "absent")
    /\ UNCHANGED <<river, subject, target, wireVars, recorded, done, midway, marks,
                   fence, applied,
                   intents, press, markCrashes>>

\* The legacy store's read position is copied without a message.
MirrorReadCursor ==
    /\ subject = "reads" /\ UpsertReadCursor(phoneTime, FALSE)
    /\ UNCHANGED <<river, subject, target, wireVars, recorded, done, midway, marks,
                   fence, applied,
                   intents, press, markCrashes>>

\* A caller's read position moves the cursor and queues the receipt at once;
\* a repeated one does neither.
MarkRead(at) ==
    /\ subject = "reads" /\ target # "absent" /\ Len(intents) < MaxPresses
    /\ Enqueue(<<"read", at>>, NoEmoji)
    /\ IF Known(<<"read", at>>) THEN UNCHANGED readCursor ELSE UpsertReadCursor(at, TRUE)
    /\ UNCHANGED <<river, subject, target, wireVars, recorded, done, midway, marks,
                   fence, applied,
                   press, markCrashes>>

Queued(n) == n \in DOMAIN intents /\ intents[n].state = "queued"
\* Confirmed, rejected or uncertain: the row is not sent again.
SettleIntent(n) == intents' = [intents EXCEPT ![n].state = "settled"]

\* The platform takes the reaction; it may show it to the user's other clients.
DispatchReaction(n) ==
    /\ Queued(n) /\ intents[n].key[1] # "read" /\ Tick
    /\ SettleIntent(n)
    /\ \/ ReactsOnPlatform(Own, intents[n].effect)
       \/ /\ river = "each"
          /\ truth' = [truth EXCEPT ![Own] = intents[n].effect] /\ UNCHANGED wire
    /\ UNCHANGED <<river, subject, target, recorded, done, midway, storeVars, press,
                   markCrashes>>

\* A receipt, a refusal, or a call that never reached the platform.
DispatchRest(n) ==
    /\ Queued(n) /\ SettleIntent(n)
    /\ UNCHANGED <<river, subject, target, wireVars, recorded, done, midway, storeVars,
                   press, markCrashes>>

MarksNext ==
    \/ \E who \in Reactors, e \in Reaction : React(who, e)
    \/ \E kind \in {"message", "delete", "receipt"} : SendFrame(kind)
    \/ \E k \in 1..MaxRecords :
          \/ ReceiveFrame(k) \/ ProjectCopy(k) \/ ApplyDelta(k)
          \/ WriteTarget(k) \/ AdvanceReadCursor(k)
    \/ ReplaceList \/ MarkCrash
    \/ \E e \in Emojis : Press(e)
    \/ MarkConversationRead \/ MirrorReadCursor
    \/ \E at \in 1..MaxMarkTime : MarkRead(at)
    \/ \E n \in 1..MaxPresses : DispatchReaction(n) \/ DispatchRest(n)

MarksSpec == MarksInit /\ [][MarksNext]_markVars

(***************************************************************************)
(* Properties.                                                             *)
(***************************************************************************)
\* Types of the marks.
MarksTypeOK ==
    /\ river \in {"whole", "each"} /\ target \in {"absent", "present", "deleted"}
    /\ truth \in [Reactors -> Reaction] /\ phoneTime \in 1..MaxMarkTime
    /\ done \subseteq DOMAIN recorded /\ applied \subseteq DOMAIN recorded
    /\ midway \in {0} \cup DOMAIN recorded
    /\ \A who \in Reactors : marks[who].on => marks[who].emoji \in Emojis
    /\ fence \in Nat /\ readCursor.at \in 0..MaxMarkTime /\ Len(intents) <= MaxPresses

Reports(who) == {k \in applied : river = "each" /\ recorded[k].frame.who = who}
\* What each reactor is shown with is what the newest report applied says,
\* in whatever order, and however often, the records were processed: for
\* single reports the newest by the platform's time, for full lists the one
\* received last.
MarksAreLatest ==
    /\ \A who \in Reactors : Reports(who) # {} =>
          \E k \in Reports(who) :
             /\ \A j \in Reports(who) : recorded[j].frame.at <= recorded[k].frame.at
             /\ Shown(who) = recorded[k].frame.emoji
    /\ river = "whole" /\ applied # {} =>
          \E k \in applied :
             /\ \A j \in applied : recorded[j].seq <= recorded[k].seq
             /\ \A who \in Reactors : Shown(who) = recorded[k].frame.all[who]

\* The read position never moves back, whatever receipts, readings on other
\* devices and mirrored positions arrive late.
CursorNeverBack == [][readCursor'.at >= readCursor.at]_markVars

\* docs/tui.md:298 has a slot add the reaction, and pressed again remove it:
\* of the reactions queued with an emoji the last is the one last pressed.
LastOf(e) == {n \in DOMAIN intents : intents[n].key[1] = e
                /\ \A j \in n + 1..Len(intents) : intents[j].key[1] # e}
PressLeadsLast ==
    press = NoPress \/ \E n \in LastOf(press.emoji) : intents[n].key[2] = press.action

=============================================================================
