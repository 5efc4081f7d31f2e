------------------------------- MODULE Outbox -------------------------------
(***************************************************************************)
(* The durable outbox of om-tui and the MessageService that drains it.     *)
(*                                                                         *)
(* A row is one outgoing intent (text, media, reaction or read receipt).   *)
(* A daemon process leases due rows, commits a "transport called" marker,  *)
(* calls the bridge adapter and records the answer, each in a SQLite       *)
(* transaction of its own (transactions are serialized: the store opens    *)
(* with _txlock=immediate).  Between two transactions anything else may    *)
(* happen: API calls, echoes of the message through the inbound path, the  *)
(* clock, another process over the same store, a crash.                    *)
(*                                                                         *)
(* The adapters are here only as the answers they may give (Call, Denials; *)
(* AdapterSend.tla has what is behind an answer).  External parts: the     *)
(* platform's echo frames (EchoArrives) and the process manager (Start,    *)
(* Crash, Shutdown).                                                       *)
(***************************************************************************)
EXTENDS Naturals, Sequences, FiniteSets

CONSTANTS
    Intents,       \* outbox ids that may ever be submitted
    Workers,       \* daemon processes that may run over the store
    NoIntent,      \* SQL NULL in a column holding an outbox id
    Kinds,         \* kinds of intent submitted, a subset of AllKinds
    Correlated,    \* intents of Google accounts: the platform confirms with the
                   \* request id and its echo carries that id too; the others
                   \* confirm with the real id and their echoes are anonymous
    LeaseTime,     \* defaultLeaseTime
    RetryDelay,    \* defaultRetryDelay
    BatchLimit,    \* defaultBatchLimit
    Tokens,        \* lease tokens, numbered; enough that a fresh one is left
    StorageFaults, \* may a storage call of the dispatcher fail?
    MaxDelay,      \* bound: how far ahead an intent is scheduled
    MaxTime,       \* bound on the clock
    MaxCrashes,    \* bound on crashes and shutdowns together
    MaxDenied      \* bound: how often an adapter may deny what was taken, by intent

AllKinds  == {"text", "media", "reaction", "read"}
Messages  == {"text", "media"}           \* kinds with an optimistic message

ASSUME OutboxAssumption ==
    /\ IsFiniteSet(Intents) /\ NoIntent \notin Intents
    /\ Kinds \subseteq AllKinds
    /\ Correlated \subseteq Intents /\ StorageFaults \in BOOLEAN
    /\ LeaseTime \in Nat \ {0} /\ RetryDelay \in Nat /\ BatchLimit \in Nat \ {0}
    /\ Tokens \subseteq Nat \ {0}
    /\ MaxDelay \in Nat /\ MaxTime \in Nat /\ MaxCrashes \in Nat /\ MaxDenied \in Nat

VARIABLES
    row,      \* outbox table: Intents -> row record
    msg,      \* remote id of the intent's optimistic message row
    dup,      \* intents whose echo was projected as a second message row
    pinned,   \* those second rows another table points at (FOREIGN KEY)
    echo,     \* inbox frame carrying the intent's echo, by intent
    now,      \* wall clock; starts at 1, so 0 can stand for SQL NULL
    wk,       \* daemon processes
    crashes,  \* crashes and shutdowns so far
    accepted, \* history: times the transport took the intent ...
    denied    \* ... and times it did and the adapter said that it had not

vars == <<row, msg, dup, pinned, echo, now, wk, crashes, accepted, denied>>

\* How often the recipient got the intent.
Taken(i) == accepted[i] + denied[i]

-----------------------------------------------------------------------------
(* Rows *)

Null == 0                                 \* SQL NULL of a time or a token

Settled   == {"uncertain", "confirmed", "store_failed", "rejected", "canceled"}
Pending   == {"queued", "not_dispatched"}
States    == Settled \cup Pending \cup {"dispatching"}
RemoteIDs == {"request", "real"}          \* transport_request_id, or the platform's own id

RowType ==
    [st : States \cup {"absent"}, kind : AllKinds, sched : Nat, next : Nat,
     tok : Nat, exp : Nat, called : BOOLEAN, result : RemoteIDs \cup {"none"},
     prev : Intents \cup {NoIntent}]

Absent == [st |-> "absent", kind |-> "text", sched |-> Null, next |-> Null,
           tok |-> Null, exp |-> Null, called |-> FALSE, result |-> "none",
           prev |-> NoIntent]

\* Leave "dispatching": every transition clears the four lease columns.
Freed(r, st, next) ==
    [r EXCEPT !.st = st, !.next = next, !.tok = Null, !.exp = Null, !.called = FALSE]

\* An accepted result is recorded.
Confirmed(r, id) == [r EXCEPT !.st = "confirmed", !.result = id, !.next = Null]

Holds(i, t) == row[i].st = "dispatching" /\ row[i].tok = t

DueKey(i) == IF row[i].next = Null THEN row[i].sched ELSE row[i].next

\* Mutant of Due: doubt is retried.
DueWithDoubt == {i \in Intents : row[i].st \in Pending \cup {"uncertain"}
                                    /\ row[i].sched <= now /\ row[i].next <= now}

Due == {i \in Intents : row[i].st \in Pending /\ row[i].sched <= now /\ row[i].next <= now}

\* Mutant of DueBatches: one row at a time, the earliest first.
DueBatchesOfOne ==
    IF Due = {} THEN {<<>>}
    ELSE {<<i>> : i \in {j \in Due : \A k \in Due : DueKey(j) <= DueKey(k)}}

\* LeaseDue's ORDER BY ... LIMIT: the earliest due rows, in due order.
DueBatches ==
    LET size == IF Cardinality(Due) < BatchLimit THEN Cardinality(Due) ELSE BatchLimit
    IN  {q \in [1..size -> Due] :
            /\ \A j, k \in 1..size : j < k => q[j] # q[k] /\ DueKey(q[j]) <= DueKey(q[k])
            /\ \A i \in Due : (\A k \in 1..size : q[k] # i)
                                 => \A k \in 1..size : DueKey(q[k]) <= DueKey(i)}

FreshTokens(n) ==
    LET used == {row[i].tok : i \in Intents}
                  \cup UNION {{wk[w].batch[k].tok : k \in DOMAIN wk[w].batch} : w \in Workers}
    IN  {f \in [1..n -> Tokens \ used] :
            \A k \in 1..n : \A t \in Tokens \ used :
                (\A j \in 1..(k - 1) : f[j] # t) => f[k] <= t /\ \A j \in 1..(k - 1) : f[j] # f[k]}

\* Mutants of Recovered: every expired row is retried; a called one is taken as sent.
RecoveredBlind ==
    [i \in Intents |-> IF row[i].st # "dispatching" \/ row[i].exp > now THEN row[i]
                       ELSE Freed(row[i], "not_dispatched", now)]
RecoveredAsSent ==
    [i \in Intents |-> IF row[i].st # "dispatching" \/ row[i].exp > now THEN row[i]
                       ELSE Freed(row[i], IF row[i].called THEN "confirmed" ELSE "not_dispatched", now)]

\* RecoverExpiredLeases, one transaction over the whole table.
Recovered ==
    [i \in Intents |->
        IF row[i].st # "dispatching" \/ row[i].exp > now THEN row[i]
        ELSE IF row[i].called THEN Freed(row[i], "uncertain", Null)
        ELSE Freed(row[i], "not_dispatched", now)]

-----------------------------------------------------------------------------
(* The optimistic message and its echo *)

\* Only text and media have a message of their own, which moves to the
\* platform's id once.
Moves(i, id) == row[i].kind \in Messages /\ msg[i] = "request" /\ id = "real"

\* repointLocalMessage deletes the echoed row it collides with, so it fails if
\* that row is referenced by a table whose FOREIGN KEY does not cascade.
CanRepoint(i, id) == Moves(i, id) => i \notin pinned

Repoint(i, id) ==
    /\ msg' = IF Moves(i, id) THEN [msg EXCEPT ![i] = "real"] ELSE msg
    /\ dup' = IF Moves(i, id) THEN dup \ {i} ELSE dup

\* ReconcileConfirm on the row of intent i.  An accepted result confirms a row
\* in doubt or store_failed; on a row confirmed by its request id it only fills
\* in the real id; in every other state it changes nothing.
Reconcile(i, id) ==
    LET confirms == row[i].st \in {"uncertain", "store_failed"}
        enriches == row[i].st = "confirmed" /\ row[i].result = "request" /\ Moves(i, id)
    IN  IF (confirms \/ enriches) /\ CanRepoint(i, id)
        THEN /\ row' = [row EXCEPT ![i] = Confirmed(row[i], id)]
             /\ Repoint(i, id)
        ELSE UNCHANGED <<row, msg, dup>>

-----------------------------------------------------------------------------
(* Daemon processes *)

Lease   == [id : Intents, tok : Nat, exp : Nat]
Answers == {"real", "request", "empty",        \* accepted: SendResult.RemoteMessageID
            "refused", "not_called", "unknown"} \* errors: terminal class, proven not sent, the rest
Phases  == {"down", "recover", "repair", "lease", "next", "prepare", "call",
            "answer", "release", "wait", "ended"}

WorkerType ==
    [pc : Phases, batch : Seq(Lease), stopping : BOOLEAN,
     answer : Answers \cup {"none"}, asked : Intents \cup {NoIntent}]

Down == [pc |-> "down", batch |-> <<>>, stopping |-> FALSE, answer |-> "none",
         asked |-> NoIntent]

At(w, pc) == wk[w].pc = pc
Cur(w)    == Head(wk[w].batch)
Goto(w, pc) == wk' = [wk EXCEPT ![w].pc = pc]
Up(w)     == ~At(w, "down")

\* The dispatcher is done with the head of its batch and goes on to pc.
Advance(w, pc) ==
    wk' = [wk EXCEPT ![w].pc = pc, ![w].batch = Tail(wk[w].batch), ![w].answer = "none"]

\* An update of the leased row: it goes through only while the row still
\* carries this lease on the given side of the call marker.  Otherwise it is
\* ErrLeaseLost: DispatchDue releases the rest of its batch and Run returns.
Finish(w, called, new, pc) ==
    IF Holds(Cur(w).id, Cur(w).tok) /\ row[Cur(w).id].called = called
    THEN row' = [row EXCEPT ![Cur(w).id] = new] /\ Advance(w, pc)
    ELSE row' = row /\ Advance(w, "release")

Init ==
    /\ row = [i \in Intents |-> Absent]
    /\ msg = [i \in Intents |-> "request"]
    /\ dup = {} /\ pinned = {}
    /\ echo = [i \in Intents |-> "none"]
    /\ now = 1 /\ crashes = 0
    /\ wk = [w \in Workers |-> Down]
    /\ accepted = [i \in Intents |-> 0]
    /\ denied = [i \in Intents |-> 0]

\* The ingest worker went down with its process: the inbox still holds the
\* frame unprocessed.
Interrupted == [i \in Intents |-> IF echo[i] = "observed" THEN "pending" ELSE echo[i]]

Tables  == <<row, msg, dup, pinned>>
History == <<accepted, denied, crashes>>

-----------------------------------------------------------------------------
(* MessageService.Run *)

Start(w) ==
    /\ At(w, "down")
    /\ Goto(w, "recover")
    /\ UNCHANGED <<Tables, echo, now, History>>

\* Run's only unconditional recovery: once, before the loop.
RecoverOnStart(w) ==
    /\ At(w, "recover") /\ ~wk[w].stopping
    /\ row' = Recovered
    /\ Goto(w, "repair")
    /\ UNCHANGED <<msg, dup, pinned, echo, now, History>>

\* reconcileStoreFailedDue: one ReconcileConfirm per store_failed row; a row
\* that fails stays behind and the pass goes on; a canceled context cuts the
\* pass short.  (Its limit of 32 is larger than any instance checked here.)
RepairStoreFailedDue(w) ==
    /\ At(w, "repair")
    /\ LET able == {i \in Intents : row[i].st = "store_failed" /\ CanRepoint(i, row[i].result)}
       IN  \E S \in SUBSET able :
             LET moved == {i \in S : Moves(i, row[i].result)}
             IN  /\ StorageFaults \/ wk[w].stopping \/ S = able
                 /\ row' = [i \in Intents |->
                              IF i \in S THEN Confirmed(row[i], row[i].result) ELSE row[i]]
                 /\ msg' = [i \in Intents |-> IF i \in moved THEN "real" ELSE msg[i]]
                 /\ dup' = dup \ moved
    /\ Goto(w, "lease")
    /\ UNCHANGED <<pinned, echo, now, History>>

\* LeaseDue: claim a batch in one transaction, each row under a token that no
\* row and no process still remembers (16 random bytes in the code; which fresh
\* ones are drawn makes no difference, so the smallest are).
Claimed(r, tok) ==
    [r EXCEPT !.st = "dispatching", !.next = Null, !.tok = tok, !.exp = now + LeaseTime,
              !.called = FALSE]

Claim(w, q, tok) ==
    /\ row' = [i \in Intents |->
                 IF \E k \in 1..Len(q) : q[k] = i
                 THEN Claimed(row[i], tok[CHOOSE k \in 1..Len(q) : q[k] = i]) ELSE row[i]]
    /\ wk' = [wk EXCEPT ![w].pc = IF Len(q) = 0 THEN "wait" ELSE "next",
                        ![w].batch = [k \in 1..Len(q) |->
                            [id |-> q[k], tok |-> tok[k], exp |-> now + LeaseTime]]]

LeaseDue(w) ==
    /\ At(w, "lease") /\ ~wk[w].stopping
    /\ \E q \in DueBatches : \E tok \in FreshTokens(Len(q)) : Claim(w, q, tok)
    /\ UNCHANGED <<msg, dup, pinned, echo, now, History>>

\* The loop head of DispatchDue: canceled context, expired lease, or go on.
NextLease(w) ==
    /\ At(w, "next") /\ wk[w].batch # <<>>
    /\ IF wk[w].stopping THEN Goto(w, "release") /\ row' = row
       ELSE IF Cur(w).exp <= now THEN
            /\ row' = Recovered
            /\ wk' = [wk EXCEPT ![w].pc = "wait", ![w].batch = <<>>]
       ELSE Goto(w, "prepare") /\ row' = row
    /\ UNCHANGED <<msg, dup, pinned, echo, now, History>>

BatchDone(w) ==
    /\ At(w, "next") /\ wk[w].batch = <<>>
    /\ Goto(w, "wait")
    /\ UNCHANGED <<Tables, echo, now, History>>

\* A timer tick or a wake signal ends the poll.
Poll(w) ==
    /\ At(w, "wait") /\ ~wk[w].stopping
    /\ Goto(w, "repair")
    /\ UNCHANGED <<Tables, echo, now, History>>

-----------------------------------------------------------------------------
(* dispatchTextLease, dispatchMediaLease, dispatchReactionLease, dispatchReadLease *)

\* No usable sender (or the context died before the call marker): the row goes
\* back to the queue without consuming an attempt.
ReleaseUnavailable(w) ==
    /\ At(w, "prepare")
    /\ Finish(w, FALSE, Freed(row[Cur(w).id], "queued", Null),
              IF wk[w].stopping THEN "release" ELSE "next")
    /\ UNCHANGED <<msg, dup, pinned, echo, now, History>>

\* The payload, its conversation, target or blob cannot be read.
MarkNotDispatched(w) ==
    /\ At(w, "prepare")
    /\ Finish(w, FALSE, Freed(row[Cur(w).id], "not_dispatched", now + RetryDelay), "next")
    /\ UNCHANGED <<msg, dup, pinned, echo, now, History>>

\* The account does not support the operation, or the blob is gone.
RejectPreCall(w) ==
    /\ At(w, "prepare") /\ row[Cur(w).id].kind # "text"
    /\ Finish(w, FALSE, Freed(row[Cur(w).id], "rejected", Null), "next")
    /\ UNCHANGED <<msg, dup, pinned, echo, now, History>>

\* Commit the call marker.  It is refused once the lease has run out, and a
\* refusal ends Run with the row as it is.
MarkTransportCalled(w) ==
    /\ At(w, "prepare") /\ ~wk[w].stopping
    /\ LET i == Cur(w).id
           open == Holds(i, Cur(w).tok) /\ row[i].exp > now /\ ~row[i].called
       IN  \/ open /\ row' = [row EXCEPT ![i].called = TRUE] /\ Goto(w, "call")
           \/ ~open /\ row' = row /\ Advance(w, "release")
    /\ UNCHANGED <<msg, dup, pinned, echo, now, History>>

\* What an adapter answers for an intent that the transport took.  A read
\* receipt has no remote id; any kind may end in an error that says nothing.
Acceptances(i) ==
    {"unknown", "empty"} \cup
    CASE row[i].kind = "read"     -> {}
      [] row[i].kind = "reaction" -> {"real"}
      [] OTHER -> {IF i \in Correlated THEN "request" ELSE "real"}

\* The definite answers an adapter may give although the transport took the
\* intent: a failed read receipt and a Google reaction without a response count
\* as not called, as both may be repeated, and a Google caption that fails for
\* good is reported as the failure of the media before it.
Denials(i) ==
    CASE row[i].kind = "read" -> {"not_called"}
      [] row[i].kind = "reaction" /\ i \in Correlated -> {"not_called"}
      [] row[i].kind = "media" /\ i \in Correlated -> {"refused"}
      [] OTHER -> {}

Call(w) ==
    /\ At(w, "call")
    /\ \E a \in Answers :
         /\ wk' = [wk EXCEPT ![w].pc = "answer", ![w].answer = a]
         /\ LET i == Cur(w).id
            IN  \/ /\ a \in Acceptances(i)
                   /\ accepted' = [accepted EXCEPT ![i] = @ + 1] /\ denied' = denied
                \/ /\ a \in {"refused", "not_called", "unknown"}
                   /\ accepted' = accepted /\ denied' = denied
                \/ /\ a \in Denials(i) /\ denied[i] < MaxDenied
                   /\ denied' = [denied EXCEPT ![i] = @ + 1] /\ accepted' = accepted
    /\ UNCHANGED <<Tables, echo, now, crashes>>

\* Mutant of Confirm: a failed confirmation has already moved the message.
ConfirmNotAtomic(w) ==
    /\ At(w, "answer") /\ wk[w].answer \in RemoteIDs
    /\ LET i == Cur(w).id
       IN  /\ Finish(w, TRUE, [Freed(row[i], "store_failed", Null) EXCEPT !.result = wk[w].answer], "next")
           /\ Repoint(i, wk[w].answer)
    /\ UNCHANGED <<pinned, echo, now, History>>

\* Confirm and, when its transaction fails, MarkStoreFailed.
Confirm(w) ==
    /\ At(w, "answer") /\ wk[w].answer \in RemoteIDs
    /\ LET i == Cur(w).id
           id == wk[w].answer
           held == Holds(i, Cur(w).tok) /\ row[i].called
       IN  \/ /\ held /\ CanRepoint(i, id)
              /\ row' = [row EXCEPT ![i] = Confirmed(Freed(row[i], "confirmed", Null), id)]
              /\ Repoint(i, id)
              /\ Advance(w, "next")
           \/ /\ held /\ (StorageFaults \/ ~CanRepoint(i, id))
              /\ row' = [row EXCEPT ![i] = [Freed(row[i], "store_failed", Null) EXCEPT !.result = id]]
              /\ UNCHANGED <<msg, dup>>
              /\ Advance(w, "next")
           \/ /\ ~held
              /\ UNCHANGED <<row, msg, dup>>
              /\ Advance(w, "release")
    /\ UNCHANGED <<pinned, echo, now, History>>

\* Accepted without a remote id: in doubt for a message, done for the others.
AcceptWithoutID(w) ==
    /\ At(w, "answer") /\ wk[w].answer = "empty"
    /\ Finish(w, TRUE,
              Freed(row[Cur(w).id],
                    IF row[Cur(w).id].kind \in Messages THEN "uncertain" ELSE "confirmed", Null),
              "next")
    /\ UNCHANGED <<msg, dup, pinned, echo, now, History>>

\* Mutant of RecordSendError: a timeout is retried.
RecordSendErrorRetries(w) ==
    /\ At(w, "answer") /\ wk[w].answer \in {"unknown", "refused", "not_called"}
    /\ Finish(w, TRUE, Freed(row[Cur(w).id], "not_dispatched", now + RetryDelay), "next")
    /\ UNCHANGED <<msg, dup, pinned, echo, now, History>>

\* recordSendError: uncertain unless the adapter proves nothing was sent.
RecordSendError(w) ==
    /\ At(w, "answer")
    /\ LET r == row[Cur(w).id]
       IN  \/ wk[w].answer = "unknown"
              /\ Finish(w, TRUE, Freed(r, "uncertain", Null), "next")
           \/ wk[w].answer = "refused"
              /\ Finish(w, TRUE, Freed(r, "rejected", Null), "next")
           \/ wk[w].answer = "not_called"
              /\ Finish(w, TRUE, Freed(r, "not_dispatched", now + RetryDelay), "next")
    /\ UNCHANGED <<msg, dup, pinned, echo, now, History>>

\* The store refuses the statement that would move the row: Run hands back the
\* rest of the batch and returns, and this row keeps its lease and its marker.
MutationFault(w) ==
    /\ StorageFaults /\ wk[w].pc \in {"prepare", "answer"}
    /\ Advance(w, "release")
    /\ UNCHANGED <<Tables, echo, now, History>>

\* releaseUntouched: hand back the rest of the batch, one row at a time; a row
\* that is no longer ours is skipped.  Then Run has returned.
ReleaseUntouched(w) ==
    /\ At(w, "release") /\ wk[w].batch # <<>>
    /\ row' = IF Holds(Cur(w).id, Cur(w).tok) /\ ~row[Cur(w).id].called
              THEN [row EXCEPT ![Cur(w).id] = Freed(row[Cur(w).id], "queued", Null)]
              ELSE row
    /\ Advance(w, "release")
    /\ UNCHANGED <<msg, dup, pinned, echo, now, History>>

\* Run returned.  On a canceled context the process exits; on an error it only
\* logs "V2 message dispatcher stopped" and lives on without a dispatcher.
RunReturns(w) ==
    /\ \/ At(w, "release") /\ wk[w].batch = <<>>
       \/ wk[w].stopping /\ wk[w].pc \in {"recover", "repair", "lease", "wait", "ended"}
    /\ wk' = [wk EXCEPT ![w] = IF wk[w].stopping THEN Down ELSE [wk[w] EXCEPT !.pc = "ended"]]
    /\ echo' = IF wk[w].stopping THEN Interrupted ELSE echo
    /\ UNCHANGED <<Tables, now, History>>

\* Recovery, the store_failed listing or the lease transaction fails: Run
\* returns at once, releasing nothing.
RunFails(w) ==
    /\ StorageFaults /\ ~wk[w].stopping
    /\ \/ wk[w].pc \in {"recover", "repair", "lease"}
       \/ At(w, "next") /\ wk[w].batch # <<>> /\ Cur(w).exp <= now
    /\ wk' = [wk EXCEPT ![w].pc = "ended", ![w].batch = <<>>]
    /\ UNCHANGED <<Tables, echo, now, History>>

Crash(w) ==
    /\ Up(w) /\ crashes < MaxCrashes
    /\ wk' = [wk EXCEPT ![w] = Down]
    /\ echo' = Interrupted
    /\ crashes' = crashes + 1
    /\ UNCHANGED <<Tables, now, accepted, denied>>

\* The service context is canceled.
Shutdown(w) ==
    /\ Up(w) /\ ~wk[w].stopping /\ crashes < MaxCrashes
    /\ wk' = [wk EXCEPT ![w].stopping = TRUE]
    /\ crashes' = crashes + 1
    /\ UNCHANGED <<Tables, echo, now, accepted, denied>>

Tick ==
    /\ now < MaxTime
    /\ now' = now + 1
    /\ UNCHANGED <<Tables, echo, wk, History>>

-----------------------------------------------------------------------------
(* The application interface, served by any process that is up *)

Serving == \E w \in Workers : Up(w)

NewRow(kind, sched, prev) ==
    [Absent EXCEPT !.st = "queued", !.kind = kind, !.sched = sched, !.prev = prev]

\* SendText, SendMedia, SendReaction, MarkRead: the row, its payload and the
\* optimistic message commit together.  A repeated idempotency key finds the
\* row already there and changes nothing, so only the first call is a step.
Enqueue(i) ==
    /\ Serving /\ row[i].st = "absent"
    /\ \E kind \in Kinds, sched \in now..(now + MaxDelay) :
         row' = [row EXCEPT ![i] = NewRow(kind, sched, NoIntent)]
    /\ UNCHANGED <<msg, dup, pinned, echo, now, wk, History>>

\* Mutants of Cancel: a claimed row can be withdrawn; a state the table does not list.
CancelClaimed(i) ==
    /\ Serving /\ row[i].st \in Pending \cup {"dispatching"}
    /\ row' = [row EXCEPT ![i] = Freed(row[i], "canceled", Null)]
    /\ UNCHANGED <<msg, dup, pinned, echo, now, wk, History>>
CancelMisspelt(i) ==
    /\ Serving /\ row[i].st \in Pending
    /\ row' = [row EXCEPT ![i].st = "cancelled", ![i].next = Null]
    /\ UNCHANGED <<msg, dup, pinned, echo, now, wk, History>>

Cancel(i) ==
    /\ Serving /\ row[i].st \in Pending
    /\ row' = [row EXCEPT ![i].st = "canceled", ![i].next = Null]
    /\ UNCHANGED <<msg, dup, pinned, echo, now, wk, History>>

RetryNotDispatched(i) ==
    /\ Serving /\ row[i].st = "not_dispatched"
    /\ row' = [row EXCEPT ![i].next = now]
    /\ UNCHANGED <<msg, dup, pinned, echo, now, wk, History>>

\* SendAgain reads the predecessor ...
SendAgainReads(w, i) ==
    /\ Up(w) /\ wk[w].asked = NoIntent
    /\ row[i].st \in {"uncertain", "rejected"} /\ row[i].kind \in Messages
    /\ wk' = [wk EXCEPT ![w].asked = i]
    /\ UNCHANGED <<Tables, echo, now, History>>

\* ... and enqueues a new intent afterwards, in a transaction of its own.
SendAgainEnqueues(w, i) ==
    /\ Up(w) /\ wk[w].asked # NoIntent /\ row[i].st = "absent"
    /\ row' = [row EXCEPT ![i] = NewRow(row[wk[w].asked].kind, now, wk[w].asked)]
    /\ wk' = [wk EXCEPT ![w].asked = NoIntent]
    /\ UNCHANGED <<msg, dup, pinned, echo, now, History>>

RepairStoreFailed(i) ==
    /\ Serving /\ row[i].st = "store_failed"
    /\ Reconcile(i, row[i].result)
    /\ UNCHANGED <<pinned, echo, now, wk, History>>

-----------------------------------------------------------------------------
(* Echoes on the inbound path *)

\* The platform shows the message it took to this device too (MayEcho); its frame is
\* committed to the inbox.  Later frames (status changes) carry it again.
MayEcho(i) == row[i].kind \in Messages /\ Taken(i) > 0

EchoArrives(i) ==
    /\ Serving /\ MayEcho(i) /\ echo[i] = "none"
    /\ echo' = [echo EXCEPT ![i] = "pending"]
    /\ UNCHANGED <<Tables, now, wk, History>>

\* A correlated frame goes to the outbox first.  A failure is only counted.
ObserveTransportEcho(i) ==
    /\ Serving /\ i \in Correlated /\ echo[i] = "pending"
    /\ \/ Reconcile(i, "real")
       \/ StorageFaults /\ UNCHANGED <<row, msg, dup>>
    /\ echo' = [echo EXCEPT ![i] = "observed"]
    /\ UNCHANGED <<pinned, now, wk, History>>

\* ProjectMessage: upsert by (account, conversation, remote id) and mark the
\* frame processed.  It lands on the optimistic message only if that one
\* carries the platform's id by now.
ProjectEcho(i) ==
    /\ Serving /\ echo[i] = IF i \in Correlated THEN "observed" ELSE "pending"
    /\ dup' = IF msg[i] = "real" THEN dup ELSE dup \cup {i}
    /\ echo' = [echo EXCEPT ![i] = "none"]
    /\ UNCHANGED <<row, msg, pinned, now, wk, History>>

\* The user reads up to the second row, or reacts to it: read_cursors,
\* outbox_read_receipts and outbox_reactions reference it without a cascade.
PinDuplicate(i) ==
    /\ Serving /\ i \in dup /\ i \notin pinned
    /\ pinned' = pinned \cup {i}
    /\ UNCHANGED <<row, msg, dup, echo, now, wk, History>>

-----------------------------------------------------------------------------

DispatcherStep(w) ==
    \/ RecoverOnStart(w) \/ RepairStoreFailedDue(w) \/ LeaseDue(w)
    \/ NextLease(w) \/ BatchDone(w) \/ Poll(w)
    \/ ReleaseUnavailable(w) \/ MarkNotDispatched(w) \/ RejectPreCall(w)
    \/ MarkTransportCalled(w) \/ Call(w)
    \/ Confirm(w) \/ AcceptWithoutID(w) \/ RecordSendError(w)
    \/ MutationFault(w) \/ ReleaseUntouched(w) \/ RunReturns(w) \/ RunFails(w)

UserStep(i) ==
    \/ Enqueue(i) \/ Cancel(i) \/ RetryNotDispatched(i) \/ RepairStoreFailed(i)
    \/ PinDuplicate(i)

EchoStep(i) ==
    \/ EchoArrives(i) \/ ObserveTransportEcho(i) \/ ProjectEcho(i)

Next ==
    \/ \E w \in Workers : Start(w) \/ DispatcherStep(w) \/ Crash(w) \/ Shutdown(w)
    \/ \E w \in Workers, i \in Intents : SendAgainReads(w, i) \/ SendAgainEnqueues(w, i)
    \/ \E i \in Intents : UserStep(i) \/ EchoStep(i)
    \/ Tick

Spec == Init /\ [][Next]_vars

\* The dispatcher goroutine runs on, adapters return from their calls, the
\* daemon is restarted when it is down and time passes.
Fairness ==
    /\ \A w \in Workers : WF_vars(Start(w)) /\ WF_vars(DispatcherStep(w))
    /\ WF_vars(Tick)

FairSpec == Spec /\ Fairness

-----------------------------------------------------------------------------
(* Properties *)

TypeOK ==
    /\ row \in [Intents -> RowType]
    /\ msg \in [Intents -> RemoteIDs]
    /\ dup \subseteq Intents /\ pinned \subseteq Intents
    /\ echo \in [Intents -> {"none", "pending", "observed"}]
    /\ now \in Nat /\ crashes \in Nat
    /\ wk \in [Workers -> WorkerType]
    /\ accepted \in [Intents -> Nat] /\ denied \in [Intents -> Nat]

\* The CHECK constraints of the outbox table: only a dispatching row has lease
\* columns or a call marker, and a not_dispatched row has a retry time.  A
\* transition that broke one would be refused by SQLite and stop the dispatcher.
LeaseShape == \A i \in Intents :
    /\ IF row[i].st = "dispatching" THEN row[i].tok # Null /\ row[i].exp # Null
       ELSE row[i].tok = Null /\ row[i].exp = Null /\ ~row[i].called
    /\ row[i].st = "not_dispatched" => row[i].next # Null

\* The recipient gets a message (text or media) at most once, whatever crashes,
\* lost leases, second dispatchers and false errors come between; a reaction or a
\* read receipt is repeated only while its adapter denies that it went out.
AtMostOnceAccepted == \A i \in Intents :
    /\ accepted[i] <= 1
    /\ row[i].kind \in Messages => Taken(i) <= 1

\* A row that the dispatcher cannot offer for sending again, nor the user
\* withdraw: in flight behind the marker, in doubt, or recorded.
Kept(r) == (r.st = "dispatching" /\ r.called) \/ r.st \in {"uncertain", "confirmed", "store_failed"}

\* What the transport took and the adapter did not deny is kept, and shown
\* neither as refused nor as canceled.  Of what the adapter denied, media may be
\* shown as refused, but is not sent again either; only reactions and read
\* receipts are.
AcceptedNeverForgotten == \A i \in Intents :
    /\ accepted[i] > 0 => Kept(row[i])
    /\ denied[i] > 0 => \/ row[i].kind \notin Messages
                        \/ row[i].kind = "media" /\ (Kept(row[i]) \/ row[i].st = "rejected")

\* What is shown as sent was taken by the transport, and if its adapter denied
\* that it is a message, whose echo told.
NoFalseConfirm == \A i \in Intents :
    row[i].st \in {"confirmed", "store_failed"} => accepted[i] > 0 \/ MayEcho(i)

\* "so a transport call cannot race a cancel" (Cancel): no process is in, or
\* about to record, a call for an intent the user withdrew, and no withdrawn
\* message has reached its recipient.
NoCallForCanceled == \A i \in Intents : row[i].st = "canceled" =>
    /\ accepted[i] = 0 /\ (row[i].kind \in Messages => Taken(i) = 0)
    /\ \A w \in Workers : wk[w].pc \in {"call", "answer"} => Cur(w).id # i

\* isRequestBoundOrConfirmedRemoteID: the optimistic message always carries the
\* request id or the row's confirmed result, or a repeated submission of the
\* same intent would be reported as a corrupt pair.
PairStaysReplayable == \A i \in Intents :
    \/ msg[i] = "request"
    \/ row[i].st = "confirmed" /\ row[i].result = msg[i]

\* Once an intent is confirmed under the platform's id the conversation shows
\* one bubble for it: no echoed second row survives or comes back.
ConfirmedHasOneBubble == \A i \in Intents :
    row[i].st = "confirmed" /\ row[i].result = "real" /\ row[i].kind \in Messages
        => msg[i] = "real" /\ i \notin dup

\* The row and its message stay one pair through resends, echoes and verdicts:
\* a repeated submission finds it, and the conversation shows it once.
PairStaysOne == PairStaysReplayable /\ ConfirmedHasOneBubble

\* A resend never stands beside a predecessor the dispatcher may still send.
ResendOnlyOfSettled == \A i \in Intents : row[i].prev # NoIntent =>
    row[row[i].prev].st \in {"uncertain", "rejected", "confirmed"}

\* Calls in progress.  Whatever happened to the lease meanwhile, an intent with
\* the transport is in flight behind its marker, in doubt, or was confirmed out
\* of doubt; no second process is with the same intent; before its call returns a
\* message has reached nobody, and "not called" is true of one; an intent that was
\* taken with no denial is never answered for as unsent, and an acceptance or an
\* echo is never invented.
Engaged(w) == wk[w].pc \in {"call", "answer"}

InFlight(r) == (r.st = "dispatching" /\ r.called) \/ r.st \in {"uncertain", "confirmed"}

CallsAreMarked == \A w \in Workers : Engaged(w) => InFlight(row[Cur(w).id])

CallsAreAlone == \A w, v \in Workers :
    Engaged(w) /\ Engaged(v) /\ Cur(w).id = Cur(v).id => w = v

AnswersAreTrue == \A w \in Workers :
    /\ At(w, "call") \/ (At(w, "answer") /\ wk[w].answer \in {"refused", "not_called"})
          => accepted[Cur(w).id] = 0
    /\ (At(w, "call") \/ (At(w, "answer") /\ wk[w].answer = "not_called"))
          /\ row[Cur(w).id].kind \in Messages => Taken(Cur(w).id) = 0
    /\ At(w, "answer") /\ wk[w].answer \in {"real", "request", "empty"}
          => accepted[Cur(w).id] > 0

EchoesAreTrue == \A i \in Intents : echo[i] # "none" => MayEcho(i)

CallsInv == CallsAreMarked /\ CallsAreAlone /\ AnswersAreTrue /\ EchoesAreTrue

\* A settled row leaves its state only by an accepted result confirming a
\* doubt or repairing a failed store; a confirmed one is only ever enriched
\* from the request id to the real one; withdrawn and refused rows are final.
SettledStays == [][\A i \in Intents :
    /\ row[i].st \in {"canceled", "rejected"} => row'[i] = row[i]
    /\ row[i].st \in {"uncertain", "store_failed"} /\ row'[i] # row[i] =>
          row'[i].st = "confirmed" /\ row'[i].result # "none"
    /\ row[i].st = "confirmed" /\ row'[i] # row[i] =>
          row[i].result = "request" /\ row'[i] = [row[i] EXCEPT !.result = "real"]]_vars

\* Until the lease runs out nobody but the process that holds it, and only
\* once its call has returned, touches a row whose message is with the
\* transport; after that it may also fall into doubt.
MarkerHeldUntilVerdict == [][\A i \in Intents :
    row[i].st = "dispatching" /\ row[i].called /\ row'[i] # row[i] =>
        \/ row[i].exp <= now /\ row'[i].st = "uncertain"
        \/ \E w \in Workers :
              /\ wk[w].pc = "answer" /\ Cur(w).id = i /\ Cur(w).tok = row[i].tok
              /\ wk'[w] # wk[w]]_vars

Stopped == \E w \in Workers : At(w, "ended")

\* A due intent is taken up sooner or later (or withdrawn), however often other
\* intents before it in the queue find no connection.  It takes a dispatcher
\* that has not died and a batch as large as the backlog.
DueIsTried == \A i \in Intents : i \in Due ~> i \notin Due \/ Stopped

\* No intent stays claimed for ever while its dispatcher lives.
ClaimEnds == \A i \in Intents :
    row[i].st = "dispatching" ~> row[i].st # "dispatching" \/ Stopped

\* "periodically dispatches due durable intents until ctx is canceled" (Run).
RunsUntilCanceled == \A w \in Workers : At(w, "ended") => wk[w].stopping

\* "Crashes after that marker still recover as uncertain."
\* (MarkCalledNotDispatched): a marked row that no process holds any more and
\* whose lease has run out does not stay in flight.
Orphaned(i) ==
    /\ row[i].st = "dispatching" /\ row[i].called /\ row[i].exp <= now
    /\ \A w \in Workers : \A k \in DOMAIN wk[w].batch : wk[w].batch[k].id # i
CrashedCallRecovers == \A i \in Intents : Orphaned(i) ~> row[i].st # "dispatching"

=============================================================================
