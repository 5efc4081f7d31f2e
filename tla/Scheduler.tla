------------------------------ MODULE Scheduler ------------------------------
(***************************************************************************)
(* The legacy "send later" scheduler: a loop of the daemon that claims due  *)
(* rows of scheduled_messages and sends them through the live bridges.  It  *)
(* runs only while the version 2 store is not primary (the outbox carries   *)
(* scheduled intents then).  There is no lease and no marker: a claim is a  *)
(* status, and each of load, claim, send and record is a step of its own.   *)
(***************************************************************************)
EXTENDS Naturals, Sequences, FiniteSets

CONSTANTS
    Ids,          \* scheduled messages that may ever be created
    MaxAttempts,  \* scheduleMaxAttempts
    Truthful,     \* FALSE: a bridge may report an error for a message it sent
    MaxDelay,     \* bound: how far ahead a message is scheduled
    MaxSendTime,      \* bound on the clock
    MaxMishaps    \* bound on crashes and failing store calls together

ASSUME SchedulerAssumption ==
    /\ IsFiniteSet(Ids)
    /\ MaxAttempts \in Nat \ {0} /\ Truthful \in BOOLEAN
    /\ MaxDelay \in Nat \ {0} /\ MaxSendTime \in Nat /\ MaxMishaps \in Nat

VARIABLES
    table,    \* scheduled_messages: Ids -> row
    pc,       \* where the scheduler goroutine is
    due,      \* the rows the current pass loaded and has still to look at
    answer,   \* what the bridge answered
    now,      \* wall clock
    mishaps,  \* crashes and failing store calls so far
    sent      \* history: calls made, messages taken, and taken behind an error

vars == <<table, pc, due, answer, now, mishaps, sent>>

-----------------------------------------------------------------------------

Statuses == {"pending", "sending", "sent", "failed", "canceled"}
RowType  == [status : Statuses \cup {"absent"}, at : Nat, attempts : Nat]
Loaded   == [id : Ids, attempts : Nat]
Tally    == [calls : Nat, taken : Nat, denied : Nat]

Init ==
    /\ table = [i \in Ids |-> [status |-> "absent", at |-> 0, attempts |-> 0]]
    /\ pc = "down" /\ due = <<>> /\ answer = "none"
    /\ now = 1 /\ mishaps = 0
    /\ sent = [i \in Ids |-> [calls |-> 0, taken |-> 0, denied |-> 0]]

Up  == pc # "down"
Cur == Head(due).id

\* A store call fails: the caller logs it at most and goes on.
Mishap == mishaps < MaxMishaps /\ mishaps' = mishaps + 1

\* The goroutine is done with the head of its list.
Advance == pc' = "next" /\ due' = Tail(due) /\ answer' = "none"

IsDue(i) == table[i].status = "pending" /\ table[i].at <= now

\* GetDueScheduledMessages, ORDER BY send_at.
DueLists ==
    LET D == {i \in Ids : IsDue(i)}
    IN  {q \in [1..Cardinality(D) -> D] :
            \A j, k \in 1..Cardinality(D) :
                j < k => q[j] # q[k] /\ table[q[j]].at <= table[q[k]].at}

-----------------------------------------------------------------------------
(* The scheduler goroutine *)

SchedulerStart ==
    /\ pc = "down"
    /\ pc' = "load"
    /\ UNCHANGED <<table, due, answer, now, mishaps, sent>>

\* The pass works on this snapshot, attempts included.
Load ==
    /\ pc = "load"
    /\ \/ /\ \E q \in DueLists :
               due' = [k \in 1..Len(q) |-> [id |-> q[k], attempts |-> table[q[k]].attempts]]
          /\ pc' = "next" /\ UNCHANGED mishaps
       \/ /\ Mishap /\ pc' = "wait" /\ UNCHANGED due
    /\ UNCHANGED <<table, answer, now, sent>>

PassDone ==
    /\ pc = "next" /\ due = <<>>
    /\ pc' = "wait"
    /\ UNCHANGED <<table, due, answer, now, mishaps, sent>>

\* The ticker fires.
Again ==
    /\ pc = "wait"
    /\ pc' = "load"
    /\ UNCHANGED <<table, due, answer, now, mishaps, sent>>

\* Mutant of Claim: the pass does not go on after a refused claim.
ClaimSticks ==
    /\ pc = "next" /\ due # <<>> /\ table[Cur].status = "pending"
    /\ table' = [table EXCEPT ![Cur].status = "sending"]
    /\ pc' = "route"
    /\ UNCHANGED <<due, answer, now, mishaps, sent>>

\* ClaimScheduledMessage: the row may have been canceled since it was loaded.
Claim ==
    /\ pc = "next" /\ due # <<>>
    /\ \/ /\ table[Cur].status = "pending"
          /\ table' = [table EXCEPT ![Cur].status = "sending"]
          /\ pc' = "route"
          /\ UNCHANGED <<due, answer, mishaps>>
       \/ /\ table[Cur].status # "pending"
          /\ Advance
          /\ UNCHANGED <<table, mishaps>>
       \/ /\ Mishap /\ Advance
          /\ UNCHANGED table
    /\ UNCHANGED <<now, sent>>

\* retryOrFail: judged by the snapshot's attempts; a failing update is ignored.
RetryOrFail ==
    /\ \/ /\ table' = [table EXCEPT
                 ![Cur].status = IF Head(due).attempts + 1 >= MaxAttempts THEN "failed" ELSE "pending",
                 ![Cur].attempts = @ + 1]
          /\ UNCHANGED mishaps
       \/ Mishap /\ UNCHANGED table
    /\ Advance

NotConnected ==
    /\ pc = "route"
    /\ RetryOrFail
    /\ UNCHANGED <<now, sent>>

\* The bridge sends, or not, and answers.
Send ==
    /\ pc = "route"
    /\ \E taken \in BOOLEAN, a \in {"ok", "error"} :
         /\ a = "ok" => taken
         /\ Truthful => (taken <=> a = "ok")
         /\ sent' = [sent EXCEPT ![Cur] =
                [calls |-> @.calls + 1, taken |-> IF taken THEN @.taken + 1 ELSE @.taken,
                 denied |-> IF taken /\ a = "error" THEN @.denied + 1 ELSE @.denied]]
         /\ answer' = a
    /\ pc' = "answer"
    /\ UNCHANGED <<table, due, now, mishaps>>

\* Mutant of MarkSent: a sent message whose record fails is tried again.
MarkSentOrRevert ==
    /\ pc = "answer" /\ answer = "ok"
    /\ \/ table' = [table EXCEPT ![Cur].status = "sent"] /\ UNCHANGED mishaps
       \/ Mishap /\ table' = [table EXCEPT ![Cur].status = "pending"]
    /\ Advance
    /\ UNCHANGED <<now, sent>>

\* A failing record is only logged: the row stays claimed.
MarkSent ==
    /\ pc = "answer" /\ answer = "ok"
    /\ \/ table' = [table EXCEPT ![Cur].status = "sent"] /\ UNCHANGED mishaps
       \/ Mishap /\ UNCHANGED table
    /\ Advance
    /\ UNCHANGED <<now, sent>>

SendFailed ==
    /\ pc = "answer" /\ answer = "error"
    /\ RetryOrFail
    /\ UNCHANGED <<now, sent>>

\* The goroutine has no other end than the process's.
SchedulerCrash ==
    /\ Up /\ Mishap
    /\ pc' = "down" /\ due' = <<>> /\ answer' = "none"
    /\ UNCHANGED <<table, now, sent>>

-----------------------------------------------------------------------------
(* The web interface and the clock *)

\* POST /api/schedule; ValidateScheduleTime asks for a time in the future.
Create(i) ==
    /\ Up /\ table[i].status = "absent"
    /\ \E t \in (now + 1)..(now + MaxDelay) :
         table' = [table EXCEPT ![i].status = "pending", ![i].at = t]
    /\ UNCHANGED <<pc, due, answer, now, mishaps, sent>>

\* CancelScheduledMessage: refused once the message is claimed.
Cancel(i) ==
    /\ Up /\ table[i].status = "pending"
    /\ table' = [table EXCEPT ![i].status = "canceled"]
    /\ UNCHANGED <<pc, due, answer, now, mishaps, sent>>

SchedulerTick ==
    /\ now < MaxSendTime
    /\ now' = now + 1
    /\ UNCHANGED <<table, pc, due, answer, mishaps, sent>>

-----------------------------------------------------------------------------

SchedulerLoop ==
    \/ Load \/ PassDone \/ Again \/ Claim \/ NotConnected \/ Send
    \/ MarkSent \/ SendFailed

Next ==
    \/ SchedulerStart \/ SchedulerLoop \/ SchedulerCrash \/ SchedulerTick
    \/ \E i \in Ids : Create(i) \/ Cancel(i)

\* The goroutine runs on, bridges answer, the daemon is started again, time passes.
SchedulerFairness == WF_vars(SchedulerStart) /\ WF_vars(SchedulerLoop) /\ WF_vars(SchedulerTick)
Spec == Init /\ [][Next]_vars /\ SchedulerFairness

-----------------------------------------------------------------------------
(* Properties *)

SchedulerTypeOK ==
    /\ table \in [Ids -> RowType]
    /\ pc \in {"down", "load", "next", "wait", "route", "answer"}
    /\ due \in Seq(Loaded) /\ answer \in {"none", "ok", "error"}
    /\ now \in Nat /\ mishaps \in Nat
    /\ sent \in [Ids -> Tally]

\* The attempt budget counts every call: neither the stale snapshot, nor lost
\* updates, nor crashes let a message be offered more than scheduleMaxAttempts
\* times (retryOrFail).
AttemptBudget == \A i \in Ids :
    sent[i].calls <= MaxAttempts /\ table[i].attempts <= MaxAttempts

\* A message is sent a second time only after a bridge denied having sent it:
\* crashes, failing records and cancels never repeat one (ClaimScheduledMessage,
\* MarkScheduledMessageSent).
RepeatedOnlyIfDenied == \A i \in Ids : sent[i].taken <= 1 + sent[i].denied

\* A withdrawn, sent or given-up message is never taken up again, although a
\* pass may have loaded it before (CancelScheduledMessage).
FinalIsFinal == [][\A i \in Ids :
    table[i].status \in {"canceled", "sent", "failed"} =>
        table'[i] = table[i] /\ sent'[i].calls = sent[i].calls]_vars

\* A due message is claimed sooner or later, or withdrawn, across crashes and
\* failing passes (StartScheduler: "catches up immediately on startup").
DueIsClaimed == \A i \in Ids : IsDue(i) ~> ~IsDue(i)

=============================================================================
