----------------------------- MODULE GoogleSync -----------------------------
(* What is kept in the legacy store of one Google thread: the live handler, *)
(* which files each message, raises the thread and removes the placeholder  *)
(* of a send that it echoes; the deep, the shallow and the recent backfill, *)
(* which page through the phone's history beside it; and the refresh of     *)
(* attachments that were announced before they were ready.                  *)
EXTENDS Integers, FiniteSets, Sequences

CONSTANTS
    PhoneMax,       \* how many messages the phone ever has
    Scripts,        \* their kinds, in order
    EchoOf,         \* the send that an echo is of
    PhoneFirst,     \* how many of them it has from the start
    LocalFirst,     \* those that are stored from the start
    LocalSends,     \* messages sent from here
    PageSize, MaxPages,     \* of a fetch, and of a reconcile or a refresh
    Attempts,       \* of a refresh
    SyncBudget      \* runs started, and faults, swaps, updates and reads

Numbers == 1..PhoneMax
ASSUME SyncAssumption ==
    /\ PhoneMax \in Nat
    /\ Scripts \subseteq [Numbers -> {"in", "own", "untagged", "mms", "tapback"}]
    /\ PhoneFirst \in 0..PhoneMax /\ LocalFirst \subseteq 1..PhoneFirst
    /\ PageSize \in Nat \ {0} /\ MaxPages \in Nat \ {0} /\ Attempts \in Nat
    /\ SyncBudget \in [{"runs", "oddities"} -> Nat]

VARIABLES
    kinds,      \* the script
    phone,      \* how many messages the phone has
    onWire,     \* live events that were not handled
    ready,      \* attachments that the phone has in full
    stored,     \* messages in the legacy store
    bytes,      \* attachments stored with a reference
    tapped,     \* messages that show a tapback
    holders,    \* placeholders of sends, with their time
    thread,     \* the conversation's time and unread count
    liveAt,     \* the live handler
    sendAt,     \* the local sends
    work,       \* the backfill, deep or shallow, and the recent reconcile
    refresh,    \* the attempts made for each attachment
    client,     \* the current client, 0 when there is none
    budget
storeVars == <<stored, bytes, tapped, holders, thread>>
wireVars == <<kinds, phone, onWire, ready, client>>
syncVars == <<wireVars, storeVars, liveAt, sendAt, work, refresh, budget>>

Kind(m) == kinds[m]
Echoes(m) == Kind(m) \in {"own", "untagged"}
Workers == {"backfill", "recent"}
Told == [ts |-> 0, unread |-> 0]
NoWork == [mode |-> "deep", at |-> "idle", cli |-> 0, snap |-> Told, copy |-> Told, page |-> {},
           below |-> PhoneMax + 1, pages |-> 0, from |-> 0, owed |-> {}, missed |-> {},
           errors |-> 0, whole |-> TRUE]
\* Message m has time 2m, and a placeholder one between two messages.
Latest(set) == CHOOSE x \in set : \A y \in set : y <= x

SyncTypeOK ==
    /\ kinds \in Scripts /\ phone \in 0..PhoneMax /\ onWire \in Seq(Numbers) /\ ready \subseteq Numbers
    /\ stored \subseteq Numbers /\ bytes \subseteq stored /\ tapped \subseteq stored
    /\ holders \subseteq LocalSends \X Nat
    /\ thread.ts \in 0..PhoneMax /\ thread.unread \in Nat
    /\ sendAt \in [LocalSends -> {"none", "accepted", "recorded"}]
    /\ \A w \in Workers : /\ work[w].page \subseteq Numbers /\ work[w].missed \subseteq Numbers
                          /\ work[w].pages \in 0..PhoneMax
    /\ refresh \in [Numbers -> 0..Attempts + 1]

SyncInit ==
    /\ kinds \in Scripts /\ phone = PhoneFirst /\ onWire = <<>> /\ ready = {} /\ client = 1
    /\ stored = LocalFirst /\ bytes = {} /\ tapped = {} /\ holders = {}
    /\ thread = Told
    /\ liveAt = [at |-> "idle", m |-> 0]
    /\ sendAt = [s \in LocalSends |-> "none"]
    /\ work = [w \in Workers |-> NoWork]
    /\ refresh = [m \in Numbers |-> 0]
    /\ budget = SyncBudget
Spend(what) == budget[what] > 0 /\ budget' = [budget EXCEPT ![what] = @ - 1]

(* --- the phone, the wire and the user -------------------------------------- *)

\* A message reaches the phone; its event reaches the daemon, or a gap loses it.
PhoneGets ==
    /\ phone < PhoneMax /\ phone' = phone + 1
    /\ Echoes(phone + 1) => sendAt[EchoOf[phone + 1]] # "none"
    /\ \/ onWire' = Append(onWire, phone + 1) /\ UNCHANGED budget
       \/ UNCHANGED onWire /\ Spend("oddities")
    /\ UNCHANGED <<kinds, ready, client, storeVars, liveAt, sendAt, work, refresh>>
\* The event of a message comes again when its status changes.
StatusUpdate ==
    /\ Spend("oddities")
    /\ \E m \in 1..phone : onWire' = Append(onWire, m)
    /\ UNCHANGED <<kinds, phone, ready, client, storeVars, liveAt, sendAt, work, refresh>>
AttachmentReady ==
    /\ \E m \in (1..phone) \ ready : Kind(m) = "mms" /\ ready' = ready \cup {m}
    /\ UNCHANGED <<kinds, phone, onWire, client, storeVars, liveAt, sendAt, work, refresh, budget>>
\* The client is replaced, taken away or set again.
SwapClient ==
    /\ Spend("oddities") /\ client' \in {0, client + 1} \ {client}
    /\ UNCHANGED <<kinds, phone, onWire, ready, storeVars, liveAt, sendAt, work, refresh>>
\* SendTextToConversation: Google takes the message, then it is recorded. The
\* sends are those that the script has an echo of.
Scripted(s) == \E m \in Numbers : Echoes(m) /\ EchoOf[m] = s
SendAccepted(s) ==
    /\ sendAt[s] = "none" /\ Scripted(s) /\ client > 0 /\ sendAt' = [sendAt EXCEPT ![s] = "accepted"]
    /\ UNCHANGED <<wireVars, storeVars, liveAt, work, refresh, budget>>
RecordSend(s) ==
    /\ sendAt[s] = "accepted" /\ sendAt' = [sendAt EXCEPT ![s] = "recorded"]
    /\ holders' = holders \cup {<<s, 2 * phone + 1>>}
    /\ UNCHANGED <<wireVars, stored, bytes, tapped, thread, liveAt, work, refresh, budget>>
MarkThreadRead ==
    /\ Spend("oddities") /\ thread' = [thread EXCEPT !.unread = 0]
    /\ UNCHANGED <<wireVars, stored, bytes, tapped, holders, liveAt, sendAt, work, refresh>>

(* --- the live handler ------------------------------------------------------ *)

LiveOnly == UNCHANGED <<kinds, phone, ready, client, sendAt, work>>
Next1(step) == liveAt' = [liveAt EXCEPT !.at = step]
\* ApplyTapback: the latest message before it that it quotes.
Quoted(m) == {q \in stored : q < m /\ Kind(q) # "tapback"}
TakeEvent ==
    /\ liveAt.at = "idle" /\ onWire # <<>> /\ onWire' = Tail(onWire)
    /\ LET m == Head(onWire)
       IN IF Kind(m) = "tapback" /\ Quoted(m) # {}
          THEN tapped' = tapped \cup {Latest(Quoted(m))} /\ UNCHANGED liveAt
          ELSE liveAt' = [at |-> "file", m |-> m] /\ UNCHANGED tapped
    /\ LiveOnly /\ UNCHANGED <<stored, bytes, holders, thread, refresh, budget>>
\* The row is written, with what is ready of its attachment, or the write fails.
RowWritten(m) == stored' = stored \cup {m} /\ bytes' = bytes \cup ({m} \cap ready) /\ UNCHANGED budget
RowFails == Spend("oddities") /\ UNCHANGED <<stored, bytes>>
LiveFiles ==
    /\ liveAt.at = "file"
    /\ \/ RowWritten(liveAt.m) /\ Next1("raise")
       \/ RowFails /\ Next1("idle")
    /\ LiveOnly /\ UNCHANGED <<onWire, tapped, holders, thread, refresh>>
\* AdvanceConversationRecency
LiveRaises ==
    /\ liveAt.at = "raise" /\ Next1(IF Echoes(liveAt.m) THEN "echo" ELSE "count")
    /\ thread' = [thread EXCEPT !.ts = IF @ < liveAt.m THEN liveAt.m ELSE @]
    /\ LiveOnly /\ UNCHANGED <<onWire, stored, bytes, tapped, holders, refresh, budget>>
\* An echo that carries its placeholder's id removes that one; another removes
\* one with its text (DeleteOrphanedSendPlaceholder).
Replaced(m) ==
    IF Kind(m) = "own" THEN {{h \in holders : h[1] = EchoOf[m]}}
    ELSE IF holders = {} THEN {{}} ELSE {{h} : h \in holders}
LiveEchoes ==
    /\ liveAt.at = "echo" /\ Next1("idle")
    /\ \E gone \in Replaced(liveAt.m) : holders' = holders \ gone
    /\ LiveOnly /\ UNCHANGED <<onWire, stored, bytes, tapped, thread, refresh, budget>>
\* IncrementConversationUnread, and a refresh where the attachment is not ready.
BackfillRuns == work["backfill"].at \notin {"idle", "done"}
LiveCounts ==
    /\ liveAt.at = "count" /\ Next1("idle")
    /\ thread' = [thread EXCEPT !.unread = @ + 1]
    /\ refresh' = [refresh EXCEPT ![liveAt.m] =
         IF Kind(liveAt.m) = "mms" /\ liveAt.m \notin bytes /\ ~BackfillRuns /\ @ = 0
         THEN 1 ELSE @]
    /\ LiveOnly /\ UNCHANGED <<onWire, stored, bytes, tapped, holders, budget>>

\* refreshPendingMediaMessageAttempt: the pages are searched for the message. What
\* was fetched tells whether it is resolved, not what was written.
Reach == {m \in 1..phone : phone - m < PageSize * MaxPages}
RefreshAttempt(m) ==
    /\ refresh[m] \in 1..Attempts
    /\ \/ /\ client > 0 /\ m \in Reach /\ (RowWritten(m) \/ RowFails)
          /\ refresh' = [refresh EXCEPT ![m] = IF m \in ready THEN Attempts + 1 ELSE @ + 1]
       \/ /\ client > 0
          /\ \/ Spend("oddities")
             \/ m \notin Reach /\ UNCHANGED budget
          /\ refresh' = [refresh EXCEPT ![m] = @ + 1] /\ UNCHANGED <<stored, bytes>>
       \/ /\ client = 0 /\ UNCHANGED <<stored, bytes, budget>>
          /\ refresh' = [refresh EXCEPT ![m] = Attempts + 1]
    /\ UNCHANGED <<wireVars, tapped, holders, thread, liveAt, sendAt, work>>

(* --- the backfills ---------------------------------------------------------- *)

WorkOnly == UNCHANGED <<wireVars, liveAt, sendAt, refresh>>
SetWork(w, state) == work' = [work EXCEPT ![w] = state]
Is(w, modes) == work[w].mode \in modes
\* beginBackfill and StartRecentReconcile
Start(w, mode) ==
    /\ work[w].at \in {"idle", "done"} /\ Spend("runs") /\ client > 0
    /\ (w = "recent") = (mode = "recent")
    /\ ~BackfillRuns
    /\ SetWork(w, [NoWork EXCEPT !.mode = mode, !.at = "list", !.cli = client])
    /\ WorkOnly /\ UNCHANGED storeVars
\* deepBackfillShouldAbort; the shallow one does not look.
Stale(w) == ~Is(w, {"shallow"}) /\ client # work[w].cli
GiveUp(w) ==
    /\ SetWork(w, [work[w] EXCEPT !.at = "done", !.whole = FALSE])
    /\ UNCHANGED <<storeVars, budget>> /\ WorkOnly
FetchFails(w) ==
    /\ Spend("oddities")
    /\ SetWork(w, [work[w] EXCEPT !.at = "done", !.whole = FALSE,
                                  !.errors = IF Is(w, {"deep"}) THEN @ + 1 ELSE @])
    /\ UNCHANGED storeVars /\ WorkOnly
ListConversations(w) ==
    /\ work[w].at = "list"
    /\ \/ Is(w, {"deep"}) /\ Stale(w) /\ GiveUp(w)
       \/ FetchFails(w)
       \/ /\ ~(Is(w, {"deep"}) /\ Stale(w))
          /\ \E unread \in 0..1 :
               SetWork(w, [work[w] EXCEPT !.at = "conv", !.snap = [ts |-> phone, unread |-> unread]])
          /\ UNCHANGED <<storeVars, budget>> /\ WorkOnly
\* ApplyConversationSnapshot: the row is read, and then written. Where the write
\* fails the shallow backfill leaves the thread; the others go on.
ReadThread(w) ==
    /\ work[w].at = "conv"
    /\ IF Is(w, {"recent"}) /\ Stale(w) THEN GiveUp(w)
       ELSE /\ SetWork(w, [work[w] EXCEPT !.at = "put", !.copy = thread])
            /\ UNCHANGED <<storeVars, budget>> /\ WorkOnly
Snapshot(snap, copy) ==
    [ts |-> IF snap.ts < copy.ts THEN copy.ts ELSE snap.ts,
     unread |-> IF copy.unread = 0 /\ snap.ts <= copy.ts THEN 0 ELSE snap.unread]
WriteThread(w) ==
    /\ work[w].at = "put" /\ WorkOnly
    /\ LET next == IF Is(w, {"recent"}) THEN "bound" ELSE "fetch"
       IN \/ /\ thread' = Snapshot(work[w].snap, work[w].copy)
             /\ SetWork(w, [work[w] EXCEPT !.at = next])
             /\ UNCHANGED <<stored, bytes, tapped, holders, budget>>
          \/ Is(w, {"shallow"}) /\ FetchFails(w)
          \/ /\ ~Is(w, {"shallow"}) /\ Spend("oddities") /\ UNCHANGED storeVars
             /\ SetWork(w, [work[w] EXCEPT !.at = next,
                                           !.errors = IF Is(w, {"deep"}) THEN @ + 1 ELSE @])
\* The latest local row, a message or a placeholder, bounds the reconcile; when it
\* cannot be read the thread counts as empty, and one page is fetched.
Bound(w) ==
    /\ work[w].at = "bound"
    /\ \/ /\ UNCHANGED budget
          /\ SetWork(w, [work[w] EXCEPT !.at = "fetch",
               !.from = Latest({0} \cup {2 * m : m \in stored} \cup {h[2] : h \in holders})])
       \/ Spend("oddities") /\ SetWork(w, [work[w] EXCEPT !.at = "fetch"])
    /\ UNCHANGED storeVars /\ WorkOnly
Page(w) == {m \in 1..phone : m < work[w].below /\
              Cardinality({x \in 1..phone : m < x /\ x < work[w].below}) < PageSize}
\* What a run undertakes to store, once it fetches its first page.
Undertaken(w) ==
    CASE Is(w, {"deep"}) -> 1..phone
      [] Is(w, {"shallow"}) -> Page(w)
      [] OTHER -> IF work[w].from = 0 THEN Page(w) ELSE {m \in 1..phone : 2 * m > work[w].from}
Fetch(w) ==
    /\ work[w].at = "fetch"
    /\ \/ (Stale(w) \/ (Is(w, {"recent"}) /\ work[w].pages = MaxPages)) /\ GiveUp(w)
       \/ FetchFails(w)
       \/ /\ ~Stale(w) /\ (Is(w, {"recent"}) => work[w].pages < MaxPages)
          /\ SetWork(w, [work[w] EXCEPT !.at = IF Page(w) = {} THEN "done" ELSE "store",
               !.page = Page(w), !.pages = @ + 1,
               !.owed = IF work[w].pages = 0 THEN Undertaken(w) ELSE @])
          /\ UNCHANGED <<storeVars, budget>> /\ WorkOnly
\* reconcileBatchReachedLocalBoundary, of a page whose oldest message is m.
Reached(w, m) == work[w].from = 0 \/ 2 * m <= work[w].from
\* The page that ends with m is the last one; whether or not there are more.
LastPageAlways(w, m) == TRUE
LastPage(w, m) == m = 1 \/ Is(w, {"shallow"}) \/ (Is(w, {"recent"}) /\ Reached(w, m))
\* storeMessage: a write that fails is logged, counted nowhere, and the run goes on.
WentThrough(w, m, missed) ==
    LET left == work[w].page \ {m}
    IN SetWork(w, [work[w] EXCEPT !.page = left, !.below = m, !.missed = missed,
         !.at = IF left # {} THEN "store" ELSE IF LastPage(w, m) THEN "done" ELSE "fetch"])
Keep(w) ==
    /\ work[w].at = "store"
    /\ LET m == Latest(work[w].page)
       IN \/ RowWritten(m) /\ WentThrough(w, m, work[w].missed)
          \/ RowFails /\ WentThrough(w, m, work[w].missed \cup {m})
    /\ UNCHANGED <<tapped, holders, thread>> /\ WorkOnly

SyncNext ==
    \/ PhoneGets \/ StatusUpdate \/ AttachmentReady \/ SwapClient \/ MarkThreadRead
    \/ \E s \in LocalSends : SendAccepted(s) \/ RecordSend(s)
    \/ TakeEvent \/ LiveFiles \/ LiveRaises \/ LiveEchoes \/ LiveCounts
    \/ \E m \in Numbers : RefreshAttempt(m)
    \/ \E w \in Workers :
        \/ \E mode \in {"deep", "shallow", "recent"} : Start(w, mode)
        \/ ListConversations(w) \/ ReadThread(w) \/ WriteThread(w) \/ Bound(w)
        \/ Fetch(w) \/ Keep(w)
SyncSpec == SyncInit /\ [][SyncNext]_syncVars

(* --- properties ------------------------------------------------------------- *)

\* A backfill or a reconcile that ends without a failed fetch, a new client or the
\* page limit went through all it set out to, whatever the live handler did
\* meanwhile: each message of the whole thread, of its latest page, or newer than
\* the latest row it found, is stored, or is one whose own write failed. The run
\* goes on over such a write and reports nothing (backfill.go:750-752).
SyncIsComplete ==
    \A w \in Workers : work[w].at = "done" /\ work[w].whole
        => work[w].owed \subseteq stored \cup work[w].missed

\* A deep backfill that is done and reports no error has stored the thread: not
\* when the client changed, which ends it without an error (backfill.go:191), nor
\* when the write of a message failed (backfill.go:750).
DoneIsWhole ==
    work["backfill"].at = "done" /\ Is("backfill", {"deep"}) /\ work["backfill"].errors = 0
        => 1..PhoneFirst \subseteq stored

\* The thread's time never moves backward (conversations.go:583-585): it does
\* when a message raises it between a snapshot's read and its write.
RecencyNeverFalls == [][thread'.ts >= thread.ts]_thread

\* A placeholder goes when its own message has come: an echo without the
\* placeholder's id takes that of another send.
UnechoedIsShown ==
    \A s \in LocalSends :
        sendAt[s] = "recorded" /\ (\A h \in holders : h[1] # s)
            => \E m \in stored : Echoes(m) /\ EchoOf[m] = s

\* After a gap a reconcile that ended whole leaves none: it does when a message
\* came before it looked for the latest row, or when a write failed.
NoGapLeft ==
    \A w \in Workers : work[w].at = "done" /\ work[w].whole /\ Is(w, {"recent"})
        => \A m \in stored : m > PhoneFirst => (PhoneFirst + 1)..m \subseteq stored
=============================================================================
