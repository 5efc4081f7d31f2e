---------------------------- MODULE SignalReceive ----------------------------
(* The receive pipeline of the Signal live client,                          *)
(* src/internal/signallive/client.go.  signal-cli acknowledges a batch to   *)
(* the server while it prints it, so from then on the lines exist only in   *)
(* this process: in the write-ahead file, in the recovery queue (lines that *)
(* could not be handled) or in a goroutine's hands.  Three kinds of         *)
(* goroutine work on the two files and on the message store:                *)
(*   Loop     the receive loop: poll, log the batch, handle each line,      *)
(*            remove the log (runReceiveLoop, handleReceiveOutput);         *)
(*   Hosts    what the loop starts beside itself: handle what the log still *)
(*            holds, remove it, then replay the recovery queue              *)
(*            (refreshMetadataAndReplay);                                   *)
(*   Clients  callers of ReplayReceiveRecoveryQueue.                        *)
(* A line is abstract: only its kind and the message it is about are kept.  *)
(* The text of a message is the line that wrote it.                         *)
EXTENDS Integers, Sequences, FiniteSets, SequencesExt

CONSTANTS
    Lines,      \* the lines signal-cli prints
    Kind,       \* line -> "message" | "edit" | "broken" | "anonymous" | "other"
    Of,         \* message or edit line -> the message it is about
    Near,       \* message -> the messages of its author at most 15 s away
    Loop,       \* the receive loop
    Hosts,      \* slots for the goroutines the loop starts
    Clients,    \* slots for the API callers
    NoText,     \* an absent row or placeholder
    MaxBatch,   \* bound: lines per poll
    MaxStops,   \* bound: crashes, panics and stops of the loop
    MaxFaults   \* bound: failing writes

KnownKinds == {"message", "edit", "broken", "anonymous", "other"}

ASSUME ReceiveConstants ==
    /\ Kind \in [Lines -> KnownKinds]
    /\ NoText \notin Lines
    /\ Loop \notin Hosts \cup Clients
    /\ Hosts \cap Clients = {}
    /\ {MaxBatch, MaxStops, MaxFaults} \subseteq Nat
    /\ \A l \in Lines : Kind[l] \in {"message", "edit"} => l \in DOMAIN Of
    /\ Near \in [{Of[l] : l \in DOMAIN Of} -> SUBSET {Of[l] : l \in DOMAIN Of}]

Workers == {Loop} \cup Hosts \cup Clients
Messages == {Of[l] : l \in DOMAIN Of}
Text == Lines \cup {NoText}
Slots == {"row", "alias"} \X Messages
Fates == {"kept", "discarded", "unlogged", "unlinked", "unfiled", "unpaired"}

VARIABLES
    server,     \* lines not yet acknowledged
    wal,        \* signal-receive-wal.ndjson
    recovery,   \* signal-receive-recovery.ndjson
    store,      \* message -> text of its row and of its missing-edit placeholder
    worker,     \* what each goroutine is doing
    paired,     \* the signal-cli state exists
    budget,     \* stops and faults left
    handled,    \* history: lines some handler finished
    fate,       \* history: what made a line depend on one goroutine's memory
    muddled     \* history: messages two goroutines, a repeat, a neighbour or
                \* a failed delete got involved with

receiveVars == <<server, wal, recovery, store, worker, paired, budget,
                 handled, fate, muddled>>

\* A goroutine: where it stands, under which rules it handles lines, the lines
\* left and all it took, the lines a replay keeps, and the text and the target
\* it has read.
Resting == [at |-> "idle", mode |-> "live", todo |-> <<>>, took |-> {},
            kept |-> <<>>, text |-> NoText, slot |-> NoText]

ReceiveInit ==
    /\ server = Lines
    /\ wal = <<>> /\ recovery = <<>>
    /\ store = [m \in Messages |-> [row |-> NoText, alias |-> NoText]]
    /\ worker = [w \in Workers |-> Resting]
    /\ paired = TRUE
    /\ budget = [stops |-> MaxStops, faults |-> MaxFaults]
    /\ handled = {}
    /\ fate = [l \in Lines |-> "kept"]
    /\ muddled = {}

-----------------------------------------------------------------------------
Batches == {b \in SeqOf(Lines, MaxBatch) : b # <<>> /\ IsInjective(b)}
About(l) == IF l \in DOMAIN Of THEN {Of[l]} ELSE {}
InHand(w) == ToSet(worker[w].todo)
MayFail == budget.faults > 0
Spent == [budget EXCEPT !.faults = @ - 1]
Marked(lines, why) == [l \in Lines |-> IF l \in lines THEN why ELSE fate[l]]

\* replayReceiveRecoveryQueue holds recoveryMu from its read of the queue to
\* its rewrite of it.
Replaying(w) == worker[w].mode = "replay" /\ worker[w].at # "idle"
\* A mutant: the queue's mutex is not taken.
Unlocked == TRUE

LockFree == \A w \in Workers : ~Replaying(w)

\* drainReceiveWAL and handleReceiveOutput pass allowRecovery, the replay of
\* the recovery queue does not.
AllowRecovery(mode) == mode # "replay"

\* Worker w goes on to state s with the fields of f changed.
Goes(w, s) == worker' = [worker EXCEPT ![w].at = s]
Carries(w, s, text) == worker' = [worker EXCEPT ![w].at = s, ![w].text = text]

\* Worker w is through with the first line of its hand.  A replay keeps the
\* lines it could not resolve; after the last line the live loop and the drain
\* remove the log and the replay rewrites the queue.
NextLine(w, resolved) ==
    LET me == worker[w]
        left == Tail(me.todo)
    IN  worker' = [worker EXCEPT ![w] =
            [me EXCEPT !.at = IF left # <<>> THEN "line"
                              ELSE IF me.mode = "replay" THEN "rewrite" ELSE "unlink",
                       !.todo = left,
                       !.kept = IF resolved \/ me.mode # "replay" THEN @
                                ELSE Append(@, Head(me.todo)),
                       !.text = NoText, !.slot = NoText]]

Resolve(w) == NextLine(w, TRUE) /\ handled' = handled \cup {Head(worker[w].todo)}

\* A line that failed: filed in the recovery queue when that is allowed, kept
\* by the replay otherwise.
Refuse(w) ==
    IF AllowRecovery(worker[w].mode) THEN Goes(w, "file") ELSE NextLine(w, FALSE)

\* Two goroutines in the same message, or a message written a second time.
Clash(w, l) ==
    {m \in About(l) :
        \/ Kind[l] = "message" /\ store[m].row # NoText
        \/ \E v \in Workers \ {w} : \E k \in InHand(v) : m \in About(k)}

-----------------------------------------------------------------------------
(* The loop's own steps.                                                    *)

\* StartPoller and the head of runReceiveLoop: the loop begins to poll and, at
\* the same time, starts the goroutine that drains the log.
StartLoop(h) ==
    /\ paired
    /\ worker[Loop].at = "idle" /\ worker[h].at = "idle"
    /\ worker' = [worker EXCEPT ![Loop] = [Resting EXCEPT !.at = "poll"],
                                ![h] = [Resting EXCEPT !.at = "drain", !.mode = "drain"]]
    /\ UNCHANGED <<server, wal, recovery, store, paired, budget, handled, fate, muddled>>

\* A poll that printed a batch and succeeded.
Poll(batch) ==
    /\ worker[Loop].at = "poll"
    /\ ToSet(batch) \subseteq server
    /\ server' = server \ ToSet(batch)
    /\ worker' = [worker EXCEPT ![Loop].at = "log", ![Loop].todo = batch,
                                ![Loop].took = ToSet(batch)]
    /\ UNCHANGED <<wal, recovery, store, paired, budget, handled, fate, muddled>>

\* A poll that printed and acknowledged a batch, and then failed or was
\* cancelled: runReceiveLoop does not look at the output.
DiscardBatch(batch) ==
    /\ worker[Loop].at = "poll" /\ MayFail
    /\ ToSet(batch) \subseteq server
    /\ server' = server \ ToSet(batch)
    /\ fate' = Marked(ToSet(batch), "discarded")
    /\ budget' = Spent
    /\ UNCHANGED <<wal, recovery, store, worker, paired, handled, muddled>>

\* appendReceiveWAL.  A failure is logged and the batch is handled anyway.
LogBatch ==
    /\ worker[Loop].at = "log"
    /\ Goes(Loop, "line")
    /\ \/ /\ wal' = wal \o worker[Loop].todo
          /\ UNCHANGED <<budget, fate>>
       \/ /\ MayFail
          /\ budget' = Spent
          /\ fate' = Marked(InHand(Loop), "unlogged")
          /\ UNCHANGED wal
    /\ UNCHANGED <<server, recovery, store, paired, handled, muddled>>

\* The end of handleReceiveOutput and of drainReceiveWAL: the file is removed,
\* with whatever the other one logged meanwhile.  After the drain the replay
\* of the recovery queue begins.
Unlink(w) ==
    /\ worker[w].at = "unlink"
    /\ wal' = <<>>
    /\ fate' = Marked({l \in ToSet(wal) \ worker[w].took :
                          l \notin handled \cup ToSet(recovery)}, "unlinked")
    /\ worker' = [worker EXCEPT ![w] =
            IF w = Loop THEN [Resting EXCEPT !.at = "poll"]
            ELSE [Resting EXCEPT !.at = "lock", !.mode = "wait"]]
    /\ UNCHANGED <<server, recovery, store, paired, budget, handled, muddled>>

\* drainReceiveWAL reads the whole file; a missing or empty file ends it.
ReadLog(h) ==
    /\ worker[h].at = "drain"
    /\ worker' = [worker EXCEPT ![h] =
            IF wal = <<>> THEN [Resting EXCEPT !.at = "lock", !.mode = "wait"]
            ELSE [@ EXCEPT !.at = "line", !.todo = wal, !.took = ToSet(wal)]]
    /\ UNCHANGED <<server, wal, recovery, store, paired, budget, handled, fate, muddled>>

-----------------------------------------------------------------------------
(* processReceiveLine, for the first line of a worker's hand.               *)

\* A line that does not parse, or names no source, goes to recovery; one that
\* is neither a message nor an edit is done.
SortLine(w) ==
    /\ worker[w].at = "line"
    /\ LET kind == Kind[Head(worker[w].todo)] IN
       \/ kind \in {"broken", "anonymous"} /\ Refuse(w) /\ UNCHANGED handled
       \/ kind = "other" /\ Resolve(w)
    /\ UNCHANGED <<server, wal, recovery, store, paired, budget, fate, muddled>>

\* A failing store call before anything was written: the conversation upsert,
\* the look-up of the edit's target, the message upsert.
StoreFails(w) ==
    /\ \/ worker[w].at \in {"merge", "write", "amend", "invent"}
       \/ worker[w].at = "line" /\ Kind[Head(worker[w].todo)] = "edit"
    /\ MayFail
    /\ budget' = Spent
    /\ Refuse(w)
    /\ UNCHANGED <<server, wal, recovery, store, paired, handled, fate, muddled>>

\* handleDataMessage and handleSentMessage: the text of a placeholder wins
\* over the message's own, at the first look and again at the second.
TakeMessage(w) ==
    LET l == Head(worker[w].todo) IN
    /\ worker[w].at = "line" /\ Kind[l] = "message"
    /\ muddled' = muddled \cup Clash(w, l)
    /\ Carries(w, "merge", IF store[Of[l]].alias # NoText THEN store[Of[l]].alias ELSE l)
    /\ UNCHANGED <<server, wal, recovery, store, paired, budget, handled, fate>>

\* Mutant of MergeAlias: the text of the message itself.
MergeAliasIgnored(w) ==
    /\ worker[w].at = "merge"
    /\ Carries(w, "write", Head(worker[w].todo))
    /\ UNCHANGED <<server, wal, recovery, store, paired, budget, handled, fate, muddled>>

MergeAlias(w) ==
    LET found == store[Of[Head(worker[w].todo)]].alias IN
    /\ worker[w].at = "merge"
    /\ Carries(w, "write", IF found # NoText THEN found ELSE worker[w].text)
    /\ UNCHANGED <<server, wal, recovery, store, paired, budget, handled, fate, muddled>>

WriteMessage(w) ==
    /\ worker[w].at = "write"
    /\ store' = [store EXCEPT ![Of[Head(worker[w].todo)]].row = worker[w].text]
    /\ Goes(w, "tidy")
    /\ UNCHANGED <<server, wal, recovery, paired, budget, handled, fate, muddled>>

\* The third look: a placeholder is deleted, and a failing delete only logged.
DeleteAlias(w) ==
    LET m == Of[Head(worker[w].todo)] IN
    /\ worker[w].at = "tidy"
    /\ Resolve(w)
    /\ \/ /\ store' = [store EXCEPT ![m].alias = NoText]
          /\ UNCHANGED <<budget, muddled>>
       \/ /\ store[m].alias # NoText /\ MayFail
          /\ budget' = Spent
          /\ muddled' = muddled \cup {m}
          /\ UNCHANGED store
    /\ UNCHANGED <<server, wal, recovery, paired, fate>>

\* findTimestampTarget: what has the edit's timestamp, the row before its
\* placeholder; otherwise whatever its author wrote within 15 s of it.
Present(ms) == {s \in Slots : s[2] \in ms /\ store[s[2]][s[1]] # NoText}
Targets(m) ==
    LET own == Present({m}) IN
    IF <<"row", m>> \in own THEN {<<"row", m>>}
    ELSE IF own # {} THEN own ELSE Present(Near[m])

\* handleEditMessage and handleSentEditMessage: an edit without a target is
\* an error on the live paths and becomes a placeholder in the replay.
TakeEdit(w) ==
    LET l == Head(worker[w].todo)
        m == Of[l]
    IN  /\ worker[w].at = "line" /\ Kind[l] = "edit"
        /\ \/ \E s \in Targets(m) :
                /\ worker' = [worker EXCEPT ![w].at = "amend", ![w].slot = s]
                /\ muddled' = muddled \cup Clash(w, l) \cup (IF s[2] = m THEN {} ELSE {m, s[2]})
           \/ /\ Targets(m) = {}
              /\ IF AllowRecovery(worker[w].mode) THEN Refuse(w) ELSE Goes(w, "invent")
              /\ muddled' = muddled \cup Clash(w, l)
        /\ UNCHANGED <<server, wal, recovery, store, paired, budget, handled, fate>>

\* applySignalEdit writes its copy of the target back with the new text, even
\* if the row was deleted since.
AmendTarget(w) ==
    LET s == worker[w].slot IN
    /\ worker[w].at = "amend"
    /\ store' = [store EXCEPT ![s[2]][s[1]] = Head(worker[w].todo)]
    /\ Resolve(w)
    /\ UNCHANGED <<server, wal, recovery, paired, budget, fate, muddled>>

\* materializeMissingSignalEdit.
InventAlias(w) ==
    LET l == Head(worker[w].todo) IN
    /\ worker[w].at = "invent"
    /\ store' = [store EXCEPT ![Of[l]].alias = l]
    /\ Resolve(w)
    /\ UNCHANGED <<server, wal, recovery, paired, budget, fate, muddled>>

\* recordReceiveRecoveryIssue: appends under recoveryMu; a failure is logged.
FileLine(w) ==
    LET l == Head(worker[w].todo) IN
    /\ worker[w].at = "file"
    /\ LockFree
    /\ NextLine(w, FALSE)
    /\ \/ recovery' = Append(recovery, l) /\ UNCHANGED <<budget, fate>>
       \/ /\ MayFail
          /\ budget' = Spent
          /\ fate' = Marked({l}, "unfiled")
          /\ UNCHANGED recovery
    /\ UNCHANGED <<server, wal, store, paired, handled, muddled>>

-----------------------------------------------------------------------------
(* replayReceiveRecoveryQueue and what ends a goroutine.                    *)

\* ReplayReceiveRecoveryQueue, from the API.
AskReplay(c) ==
    /\ paired
    /\ worker[c].at = "idle"
    /\ worker' = [worker EXCEPT ![c] = [Resting EXCEPT !.at = "lock", !.mode = "wait"]]
    /\ UNCHANGED <<server, wal, recovery, store, paired, budget, handled, fate, muddled>>

\* recoveryMu is taken and the queue read.
ReadQueue(w) ==
    /\ worker[w].at = "lock"
    /\ LockFree
    /\ worker' = [worker EXCEPT ![w] =
            IF recovery = <<>> THEN Resting
            ELSE [Resting EXCEPT !.at = "line", !.mode = "replay", !.todo = recovery]]
    /\ UNCHANGED <<server, wal, recovery, store, paired, budget, handled, fate, muddled>>

\* rewriteRecoveryQueue: the kept lines under a temporary name, then a rename.
\* A failure leaves the old queue.
RewriteQueue(w) ==
    /\ worker[w].at = "rewrite"
    /\ worker' = [worker EXCEPT ![w] = Resting]
    /\ \/ /\ recovery' = IF paired THEN worker[w].kept ELSE <<>>
          /\ UNCHANGED budget
       \/ MayFail /\ budget' = Spent /\ UNCHANGED recovery
    /\ UNCHANGED <<server, wal, store, paired, handled, fate, muddled>>

\* The loop ends: its context was cancelled between two polls, or handling a
\* line panicked (its recover leaves the log in place).
StopLoop ==
    /\ worker[Loop].at \notin {"idle", "log"}
    /\ budget.stops > 0
    /\ budget' = [budget EXCEPT !.stops = @ - 1]
    /\ worker' = [worker EXCEPT ![Loop] = Resting]
    /\ UNCHANGED <<server, wal, recovery, store, paired, handled, fate, muddled>>

\* The process dies.  A batch that was being logged may be in the file up to
\* some line.
Crash ==
    /\ budget.stops > 0
    /\ budget' = [budget EXCEPT !.stops = @ - 1]
    /\ worker' = [w \in Workers |-> Resting]
    /\ \E n \in 0 .. (IF worker[Loop].at = "log" THEN Len(worker[Loop].todo) ELSE 0) :
         /\ wal' = wal \o SubSeq(worker[Loop].todo, 1, n)
         /\ fate' = Marked(IF worker[Loop].at = "log"
                           THEN InHand(Loop) \ ToSet(SubSeq(worker[Loop].todo, 1, n))
                           ELSE {}, "unlogged")
    /\ UNCHANGED <<server, recovery, store, paired, handled, muddled>>

\* UnpairContext joins the loop and its hosts, then removes the directory.
RemoveAccount ==
    /\ paired
    /\ \A w \in {Loop} \cup Hosts : worker[w].at = "idle"
    /\ budget.stops > 0
    /\ budget' = [budget EXCEPT !.stops = 0]
    /\ paired' = FALSE
    /\ wal' = <<>> /\ recovery' = <<>>
    /\ fate' = Marked((ToSet(wal) \cup ToSet(recovery)) \ handled, "unpaired")
    /\ UNCHANGED <<server, store, worker, handled, muddled>>

\* The steps with which a goroutine that does not poll comes to its end.
HostStep(w) ==
    \/ ReadLog(w) \/ SortLine(w) \/ TakeMessage(w) \/ MergeAlias(w)
    \/ WriteMessage(w) \/ DeleteAlias(w) \/ TakeEdit(w) \/ AmendTarget(w) \/ InventAlias(w)
    \/ FileLine(w) \/ Unlink(w) \/ ReadQueue(w) \/ RewriteQueue(w)

ReceiveNext ==
    \/ \E h \in Hosts : StartLoop(h)
    \/ \E b \in Batches : Poll(b) \/ DiscardBatch(b)
    \/ LogBatch
    \/ \E w \in Workers : HostStep(w) \/ StoreFails(w)
    \/ \E c \in Clients : AskReplay(c)
    \/ StopLoop
    \/ Crash
    \/ RemoveAccount

ReceiveSpec == ReceiveInit /\ [][ReceiveNext]_receiveVars

-----------------------------------------------------------------------------
(* Properties.                                                              *)

\* Every variable stays in its type; a goroutine in the middle of a line has
\* a line, and only a replay keeps any.
ReceiveTypeOK ==
    /\ server \subseteq Lines /\ handled \subseteq Lines
    /\ wal \in Seq(Lines) /\ recovery \in Seq(Lines)
    /\ store \in [Messages -> [row : Text, alias : Text]]
    /\ paired \in BOOLEAN
    /\ budget \in [stops : Nat, faults : Nat]
    /\ fate \in [Lines -> Fates]
    /\ muddled \subseteq Messages
    /\ \A w \in Workers :
          /\ worker[w].mode \in {"live", "drain", "wait", "replay"}
          /\ worker[w].todo \in Seq(Lines) /\ worker[w].kept \in Seq(Lines)
          /\ worker[w].at \notin {"idle", "poll", "drain", "lock", "unlink", "rewrite"}
                 => worker[w].todo # <<>>
          /\ worker[w].kept # <<>> => Replaying(w)

\* A line signal-cli has acknowledged was handled, or is on disk, or is in the
\* hands of a goroutine - unless one of the five things happened that the code
\* answers with a log line or not at all: the output of a failed poll, a log or
\* a record that could not be written, a log removed by another goroutine, an
\* unpairing.
NothingDropped ==
    \A l \in Lines \ server :
        \/ l \in handled \cup ToSet(wal) \cup ToSet(recovery)
        \/ \E w \in Workers : l \in InHand(w)
        \/ fate[l] # "kept"

\* A line leaves the recovery queue only handled, or with the whole account,
\* although lines are added to the queue while others are being replayed.
RecordsLeaveHandled ==
    [][\A l \in ToSet(recovery) \ ToSet(recovery') : l \in handled' \/ ~paired']_receiveVars

\* What the log and the recovery file are for: from the poll that took it to its
\* row, a line is nowhere lost on the way.
LinesAreKept == []NothingDropped /\ RecordsLeaveHandled

\* Once a message and an edit of it are handled, in whatever order and by
\* whichever of the three paths, the row shows an edit and no placeholder
\* stands beside it.
EditsOf(m) == {l \in Lines : Kind[l] = "edit" /\ Of[l] = m}
ThreadShowsEdit ==
    \A l \in handled :
        Kind[l] = "message" /\ Of[l] \notin muddled =>
            /\ store[Of[l]].alias = NoText
            /\ handled \cap EditsOf(Of[l]) # {} => store[Of[l]].row \in EditsOf(Of[l])

\* What drainReceiveWAL says of itself (before the receive loop begins polling
\* signal-cli again) and what the log is for: a logged line stays logged until
\* it was handled or filed.
LoggedUntilHandled ==
    [][\A l \in ToSet(wal) \ ToSet(wal') :
          l \in handled' \cup ToSet(recovery') \/ fate'[l] = "unfiled" \/ ~paired']_receiveVars
=============================================================================
