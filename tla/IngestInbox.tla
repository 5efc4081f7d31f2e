----------------------------- MODULE IngestInbox -----------------------------
(***************************************************************************)
(* The durable inbox and its projection worker.  A transport's frame is     *)
(* committed to the inbox before anything looks at it; one goroutine then   *)
(* drains the inbox, decodes each frame and applies its events in several   *)
(* transactions.  Notifications are best effort, a frame may be delivered   *)
(* again, statements may meet a busy or a failing database, and the process *)
(* may stop anywhere.                                                       *)
(*                                                                          *)
(* Frames are frames up to their dedupe key.  What a frame decodes to is a  *)
(* constant; what it writes is kept per Key, a message or a conversation.   *)
(***************************************************************************)
EXTENDS Naturals, Sequences, FiniteSets

CONSTANTS
    Frames,         \* distinct durable frames
    Keys,           \* messages and conversations, by natural key
    Values,         \* what can be stored under a key
    Decoded,        \* what each frame decodes to
    NoValue,        \* nothing is stored under the key
    NoFrame,
    QueueCapacity,  \* of the notification channel
    Retries,        \* maxTransientRetries
    MaxDeliveries,  \* bounds, by frame: how often a transport delivers it
    MaxFaults,      \* bound on refused statements
    MaxStops        \* bound on crashes and shutdowns

Writes == Seq([key : Keys, value : Values])

ASSUME IngestAssumption ==
    /\ IsFiniteSet(Frames) /\ NoFrame \notin Frames /\ NoValue \notin Values
    /\ QueueCapacity \in Nat \ {0} /\ Retries \in Nat
    /\ MaxDeliveries \in [Frames -> Nat] /\ MaxFaults \in Nat /\ MaxStops \in Nat
    /\ Decoded \in [Frames -> [valid : BOOLEAN, conversations : Writes, messages : Writes,
                               mutations : Writes, extras : Nat]]

VARIABLES
    inbox,      \* Frames -> status and receipt time of the row
    clock,      \* received_at_ms of the latest row
    delivered,  \* Frames -> times a transport delivered it
    notifying,  \* appends that have committed and not yet notified
    queue,      \* the worker's channel
    wk,         \* the worker goroutine
    store,      \* Keys -> what is stored
    faults, stops,
    log         \* history, see LogType

vars == <<inbox, clock, delivered, notifying, queue, wk, store, faults, stops, log>>

-----------------------------------------------------------------------------
(* What a frame does *)

Ops == {"write", "follow", "project", "mutate", "mark"}

\* Writes of a key, and the steps that touch no content: recency, payloads,
\* reactions, receipts.
Upserts(op, s) == [i \in 1..Len(s) |-> [op |-> op, key |-> s[i].key, value |-> s[i].value]]
Bare(op, n)    == [i \in 1..n |-> [op |-> op]]

\* applyEvents: the transactions of a frame in order.  The first message
\* carries the inbox row along, the others are imported, each is followed by
\* the bump of its conversation; a frame without a message marks its row last.
Plan(f) ==
    LET d == Decoded[f]
        n == Len(d.messages)
        messages == [i \in 1..(2 * n) |->
            IF i % 2 = 0 THEN [op |-> "follow"]
            ELSE [op    |-> IF i = 1 THEN "project" ELSE "write",
                  key   |-> d.messages[(i + 1) \div 2].key,
                  value |-> d.messages[(i + 1) \div 2].value]]
    IN  Upserts("write", d.conversations) \o messages \o Upserts("mutate", d.mutations)
            \o Bare("follow", d.extras) \o Bare("mark", IF n = 0 THEN 1 ELSE 0)

Steps(f) == 1..Len(Plan(f))

\* The message that carries the row along is written by its own step only, or with
\* the same content: the frame neither names it twice nor edits it otherwise.
FirstIsWrittenOnce(f) == \A i, j \in Steps(f) :
    /\ Plan(f)[i].op = "project" /\ Plan(f)[j].op \in {"write", "mutate"}
    /\ Plan(f)[j].key = Plan(f)[i].key
    => Plan(f)[j].value = Plan(f)[i].value

RowType == [status : {"absent", "pending", "processed"}, at : Nat]
Item    == [frame : Frames, replay : BOOLEAN]

\* Where the worker is: "off" (no process), "listing" (reads the pending rows),
\* "waiting" (in select), "apply" (before step pos of frame cur), "quarantine"
\* (before it marks cur processed), "returned".
Places     == {"off", "listing", "waiting", "apply", "quarantine", "returned"}
WorkerType ==
    [pc : Places, batch : Seq(Frames), cur : Frames \cup {NoFrame}, pos : Nat, tries : Nat,
     replay : BOOLEAN, canceled : BOOLEAN]

Off == [pc |-> "off", batch |-> <<>>, cur |-> NoFrame, pos |-> 1, tries |-> 0,
        replay |-> FALSE, canceled |-> FALSE]

\* done: the steps of a frame that ever took effect; hit: what befell it;
\* quarantined: frames given up; replaced: the values replaced by a step that had
\* never taken effect before.
LogType ==
    [done : [Frames -> SUBSET Nat],
     hit : [Frames -> SUBSET {"exhausted", "failed", "stopped", "unlisted"}],
     quarantined : SUBSET Frames, replaced : [Keys -> SUBSET Values]]

Init ==
    /\ inbox = [f \in Frames |-> [status |-> "absent", at |-> 0]]
    /\ clock = 0 /\ delivered = [f \in Frames |-> 0] /\ notifying = {} /\ queue = <<>>
    /\ wk = Off
    /\ store = [k \in Keys |-> NoValue]
    /\ faults = 0 /\ stops = 0
    /\ log = [done |-> [f \in Frames |-> {}], hit |-> [f \in Frames |-> {}],
              quarantined |-> {}, replaced |-> [k \in Keys |-> {}]]

Up      == wk.pc # "off"
Pending == {f \in Frames : inbox[f].status = "pending"}
Fault   == faults < MaxFaults /\ faults' = faults + 1
Cur     == wk.cur
Step    == Plan(Cur)[wk.pos]

Befalls(f, what) == [log EXCEPT !.hit[f] = @ \cup {what}]

-----------------------------------------------------------------------------
(* Transports *)

\* AppendInbox: two frames may carry the same millisecond.  An append that
\* fails leaves nothing behind: the frame was not delivered.
AppendIngress(f) ==
    /\ Up /\ delivered[f] < MaxDeliveries[f]
    /\ delivered' = [delivered EXCEPT ![f] = @ + 1]
    /\ \/ /\ inbox[f].status = "absent"
          /\ \E at \in {clock, clock + 1} \ {0} :
               /\ inbox' = [inbox EXCEPT ![f] = [status |-> "pending", at |-> at]]
               /\ clock' = at
          /\ notifying' = notifying \cup {[frame |-> f, replay |-> FALSE]}
       \/ /\ inbox[f].status # "absent"
          /\ notifying' = notifying \cup {[frame |-> f, replay |-> TRUE]}
          /\ UNCHANGED <<inbox, clock>>
    /\ UNCHANGED <<queue, wk, store, faults, stops, log>>

\* Worker.enqueue: a full channel drops the notification.
Notify ==
    /\ Up
    /\ \E item \in notifying :
         /\ notifying' = notifying \ {item}
         /\ queue' = IF Len(queue) < QueueCapacity THEN Append(queue, item) ELSE queue
    /\ UNCHANGED <<inbox, clock, delivered, wk, store, faults, stops, log>>
-----------------------------------------------------------------------------
(* The worker *)

\* handleRecord begins; decoding has no effect of its own.
Handle(f, replay, rest) ==
    [wk EXCEPT !.pc = IF Decoded[f].valid THEN "apply" ELSE "quarantine",
               !.batch = rest, !.cur = f, !.pos = 1, !.tries = 0,
               !.replay = replay]

GoTo(place) ==
    [wk EXCEPT !.pc = place, !.batch = <<>>, !.cur = NoFrame, !.pos = 1, !.tries = 0,
               !.replay = FALSE]

\* Mutant of NextRecord: a replay is not followed by a drain.
NextRecordNoDrain ==
    IF wk.replay \/ wk.canceled \/ wk.batch = <<>> THEN GoTo("waiting")
    ELSE Handle(Head(wk.batch), FALSE, Tail(wk.batch))

\* handleRecord has returned: a replay is followed by a drain, a drain goes on
\* with its snapshot unless the context has been canceled.
NextRecord ==
    IF wk.replay THEN GoTo("listing")
    ELSE IF wk.canceled \/ wk.batch = <<>> THEN GoTo("waiting")
    ELSE Handle(Head(wk.batch), FALSE, Tail(wk.batch))

\* Unprocessed: ORDER BY received_at_ms, inbox_id, and inbox ids are random.
Snapshots ==
    {q \in [1..Cardinality(Pending) -> Pending] :
        \A j, k \in DOMAIN q : j < k => q[j] # q[k] /\ inbox[q[j]].at <= inbox[q[k]].at}

List ==
    /\ wk.pc = "listing" /\ ~wk.canceled
    /\ \E q \in Snapshots :
         wk' = IF q = <<>> THEN GoTo("waiting") ELSE Handle(Head(q), FALSE, Tail(q))
    /\ UNCHANGED <<inbox, clock, delivered, notifying, queue, store, faults, stops, log>>

\* Retries of the query included; drain only logs.
ListFails ==
    /\ wk.pc = "listing" /\ ~wk.canceled /\ Fault
    /\ wk' = GoTo("waiting")
    /\ log' = [log EXCEPT !.hit =
           [f \in Frames |-> IF f \in Pending THEN @[f] \cup {"unlisted"} ELSE @[f]]]
    /\ UNCHANGED <<inbox, clock, delivered, notifying, queue, store, stops>>

\* A replayed frame is decoded again although its row is processed.
Receive ==
    /\ wk.pc = "waiting" /\ queue # <<>>
    /\ queue' = Tail(queue)
    /\ wk' = IF Head(queue).replay THEN Handle(Head(queue).frame, TRUE, <<>>)
             ELSE GoTo("listing")
    /\ UNCHANGED <<inbox, clock, delivered, notifying, store, faults, stops, log>>

\* Mutant of Stale: any processed row is a stale replay.
StaleByStatus(s) == s.op = "project" /\ inbox[Cur].status = "processed"

\* ProjectMessage finds the row processed and another content stored.
Stale(s) ==
    s.op = "project" /\ inbox[Cur].status = "processed" /\ store[s.key] # s.value

\* What a step leaves of the stored values: imports and conversations are
\* blind upserts, a mutation needs its target.
Stored(s, held) ==
    CASE s.op = "write" -> [held EXCEPT ![s.key] = s.value]
      [] s.op = "project" /\ inbox[Cur].status # "processed" ->
            [held EXCEPT ![s.key] = s.value]
      [] s.op = "mutate" /\ held[s.key] # NoValue -> [held EXCEPT ![s.key] = s.value]
      [] OTHER -> held

\* One transaction of applyEvents.  Conversations and recency are written
\* without the context, so they may still succeed after it is canceled.
ApplyStep ==
    /\ wk.pc = "apply" /\ ~Stale(Step)
    /\ wk.canceled => Step.op \in {"write", "follow"}
    /\ store' = Stored(Step, store)
    /\ inbox' = IF Step.op \in {"project", "mutate", "mark"}
                THEN [inbox EXCEPT ![Cur].status = "processed"] ELSE inbox
    /\ wk' = IF wk.pos < Len(Plan(Cur)) THEN [wk EXCEPT !.pos = @ + 1] ELSE NextRecord
    /\ log' = [log EXCEPT !.done[Cur] = @ \cup {wk.pos},
                          !.replaced = IF wk.pos \in log.done[Cur] THEN @ ELSE [k \in Keys |->
                              IF store'[k] = store[k] THEN @[k]
                              ELSE (@[k] \cup {store[k]}) \ {store'[k], NoValue}]]
    /\ UNCHANGED <<clock, delivered, notifying, queue, faults, stops>>

\* staleReplayError: counted, and the rest of the frame is left.
StaleReplay ==
    /\ wk.pc = "apply" /\ Stale(Step) /\ ~wk.canceled
    /\ wk' = NextRecord
    /\ UNCHANGED <<inbox, clock, delivered, notifying, queue, store, faults, stops, log>>

\* retryTransient: the database is busy, the frame starts over.
Busy ==
    /\ wk.pc \in {"apply", "quarantine"} /\ ~wk.canceled
    /\ wk.tries < Retries /\ Fault
    /\ wk' = [wk EXCEPT !.tries = @ + 1, !.pos = 1]
    /\ UNCHANGED <<inbox, clock, delivered, notifying, queue, store, stops, log>>

\* transientExhaustedError
Exhausted ==
    /\ wk.pc \in {"apply", "quarantine"} /\ ~wk.canceled
    /\ wk.tries = Retries /\ Fault
    /\ wk' = NextRecord
    /\ log' = Befalls(Cur, "exhausted")
    /\ UNCHANGED <<inbox, clock, delivered, notifying, queue, store, stops>>

\* Any other error, or a panic: the frame is to be quarantined; when that
\* fails too it is left as it is.
Failed ==
    /\ wk.pc \in {"apply", "quarantine"} /\ ~wk.canceled /\ Fault
    /\ wk' = IF wk.pc = "apply" THEN [wk EXCEPT !.pc = "quarantine", !.pos = 1, !.tries = 0]
             ELSE NextRecord
    /\ log' = Befalls(Cur, "failed")
    /\ UNCHANGED <<inbox, clock, delivered, notifying, queue, store, stops>>

\* markQuarantined
Quarantine ==
    /\ wk.pc = "quarantine" /\ ~wk.canceled
    /\ inbox' = [inbox EXCEPT ![Cur].status = "processed"]
    /\ wk' = NextRecord
    /\ log' = [log EXCEPT !.quarantined = @ \cup {Cur}]
    /\ UNCHANGED <<clock, delivered, notifying, queue, store, faults, stops>>

-----------------------------------------------------------------------------
(* Start, shutdown and crash of the process *)

\* Mutant of Start: no drain before the first notification.
StartWaits ==
    /\ wk.pc = "off"
    /\ wk' = [Off EXCEPT !.pc = "waiting"]
    /\ UNCHANGED <<inbox, clock, delivered, notifying, queue, store, faults, stops, log>>

\* Run begins with a drain.
Start ==
    /\ wk.pc = "off"
    /\ wk' = [Off EXCEPT !.pc = "listing"]
    /\ UNCHANGED <<inbox, clock, delivered, notifying, queue, store, faults, stops, log>>

Shutdown ==
    /\ Up /\ wk.pc # "returned" /\ ~wk.canceled
    /\ stops < MaxStops /\ stops' = stops + 1
    /\ wk' = [wk EXCEPT !.canceled = TRUE]
    /\ UNCHANGED <<inbox, clock, delivered, notifying, queue, store, faults, log>>

\* A statement fails on the canceled context: no verdict on the frame.
Abort ==
    /\ wk.pc \in {"listing", "apply", "quarantine"} /\ wk.canceled
    /\ wk' = IF wk.pc = "listing" THEN GoTo("waiting") ELSE NextRecord
    /\ log' = IF wk.pc = "listing" THEN log ELSE Befalls(Cur, "stopped")
    /\ UNCHANGED <<inbox, clock, delivered, notifying, queue, store, faults, stops>>

\* Run returns; transports may append until the process is gone.
Return ==
    /\ wk.pc = "waiting" /\ wk.canceled
    /\ wk' = GoTo("returned")
    /\ UNCHANGED <<inbox, clock, delivered, notifying, queue, store, faults, stops, log>>

Exit ==
    /\ wk.pc = "returned"
    /\ wk' = Off /\ notifying' = {} /\ queue' = <<>>
    /\ UNCHANGED <<inbox, clock, delivered, store, faults, stops, log>>

Crash ==
    /\ Up /\ wk.pc # "returned"
    /\ stops < MaxStops /\ stops' = stops + 1
    /\ wk' = Off /\ notifying' = {} /\ queue' = <<>>
    /\ log' = IF Cur = NoFrame THEN log ELSE Befalls(Cur, "stopped")
    /\ UNCHANGED <<inbox, clock, delivered, store, faults>>

-----------------------------------------------------------------------------

WorkerStep ==
    \/ List \/ Receive \/ ApplyStep \/ StaleReplay \/ Quarantine
    \/ Abort \/ Return \/ Exit

Next ==
    \/ WorkerStep \/ Notify \/ Start
    \/ ListFails \/ Busy \/ Exhausted \/ Failed \/ Shutdown \/ Crash
    \/ \E f \in Frames : AppendIngress(f)

\* The goroutine runs on, an appending goroutine notifies, the daemon is
\* started again.  Transports owe nothing.
Spec == Init /\ [][Next]_vars /\ WF_vars(WorkerStep) /\ WF_vars(Notify) /\ WF_vars(Start)

-----------------------------------------------------------------------------
(* Properties *)

IngestTypeOK ==
    /\ inbox \in [Frames -> RowType] /\ clock \in Nat /\ delivered \in [Frames -> Nat]
    /\ notifying \subseteq Item /\ queue \in Seq(Item) /\ wk \in WorkerType
    /\ store \in [Keys -> Values \cup {NoValue}]
    /\ faults \in Nat /\ stops \in Nat /\ log \in LogType

\* No lost wakeup: a worker that waits with nothing in its channel leaves no
\* committed frame behind, although enqueue drops notifications and a drain
\* works on a snapshot; only a frame that met a refused statement may wait.
NoFrameForgotten ==
    wk.pc = "waiting" /\ ~wk.canceled /\ queue = <<>> =>
        \A f \in Pending :
            \/ [frame |-> f, replay |-> FALSE] \in notifying
            \/ log.hit[f] \cap {"exhausted", "failed", "unlisted"} # {}

\* A row marked processed in the middle of its frame is completed by the same
\* handling, across retries that start the frame over: unless the frame was
\* quarantined, or a stop or a final error cut it short, all of its steps took effect
\* (applyEvents, ProjectMessage's reading of a processed row).
ProcessedIsComplete == \A f \in Frames :
    /\ inbox[f].status = "processed" /\ f # Cur
    /\ f \notin log.quarantined /\ log.hit[f] \cap {"exhausted", "failed", "stopped"} = {}
    => log.done[f] = Steps(f)

\* Neither a busy database nor a shutdown in the middle of a frame is taken for
\* a defect of the frame (handleRecord's order of checks).
OnlyDefectsQuarantined == \A f \in log.quarantined :
    ~Decoded[f].valid \/ "failed" \in log.hit[f]

\* A frame leaves the worker whole, or quarantined for a defect of its own
\* (handleRecord).
LeavesWholeOrDefective == ProcessedIsComplete /\ OnlyDefectsQuarantined

\* Keys that no repeated frame imports or edits: repeated frames only project them.
PlainKeys == {k \in Keys : \A f \in Frames : MaxDeliveries[f] > 1 =>
    \A n \in Steps(f) : LET s == Plan(f)[n] IN s.op \in {"write", "mutate"} => s.key # k}

\* A message frame delivered again never restores content that a later frame
\* has replaced: "It must not restore the old body" (sink_worker_test.go).
ReplayRestoresNothing == \A k \in PlainKeys : store[k] \notin log.replaced[k]

\* A committed frame is processed in the end, whatever notification was
\* dropped and whenever the process stopped, unless statements were refused.
FrameIsHandled == \A f \in Frames :
    f \in Pending ~>
        (f \notin Pending \/ log.hit[f] \cap {"exhausted", "failed", "unlisted"} # {})

\* The same of all content, edits and conversations included.
SupersededStays == \A k \in Keys : store[k] \notin log.replaced[k]

\* "exhausted transient retries; leaving frame unprocessed" (handleRecord): a
\* frame whose retries are used up before all its steps took effect stays listed.
LeavesUnprocessed == [][\A f \in Frames :
    "exhausted" \in log'.hit[f] \ log.hit[f] /\ log.done[f] # Steps(f)
        => inbox'[f].status = "pending"]_vars

=============================================================================
