----------------------- MODULE OutboxRefinementProofs -----------------------
(* Outbox implements AtMostOnceSend, and an intent and its message stay one *)
(* pair, for any number of intents and processes, proved.                  *)
EXTENDS OutboxProofs

-----------------------------------------------------------------------------
(* The refinement mapping *)

\* What a row of each state is to the promise.
LEMMA StatusIs ==
    ASSUME NEW r
    PROVE  /\ r.st = "absent" => StatusOf(r) = "none"
           /\ r.st \in Pending => StatusOf(r) = "open"
           /\ r.st = "dispatching" /\ ~r.called => StatusOf(r) = "open"
           /\ r.st = "dispatching" /\ r.called => StatusOf(r) = "sending"
           /\ r.st = "uncertain" => StatusOf(r) = "doubt"
           /\ r.st \in {"confirmed", "store_failed"} => StatusOf(r) = "sent"
           /\ r.st = "rejected" => StatusOf(r) = "refused"
           /\ r.st = "canceled" => StatusOf(r) = "withdrawn"
  BY DEF StatusOf, Pending

StatusMap == [i \in Intents |-> StatusOf(row[i])]

KindMap == [i \in Intents |-> row[i].kind]

\* What a step of the promise looks like from here.
PromiseStep == Promise!Next \/ UNCHANGED <<StatusMap, KindMap, accepted, denied>>

\* A step that moves no row to another status, and changes no kind, is invisible.
LEMMA Invisible ==
    ASSUME UNCHANGED <<accepted, denied>>,
           \A i \in Intents : StatusOf(row'[i]) = StatusOf(row[i]) /\ row'[i].kind = row[i].kind
    PROVE  PromiseStep
  BY DEF PromiseStep, StatusMap, KindMap

\* A step that moves one row only shows as that move.
LEMMA OneMove ==
    ASSUME NEW i \in Intents, NEW new, row' = [row EXCEPT ![i] = new],
           row \in [Intents -> RowType], UNCHANGED <<accepted, denied>>
    PROVE  /\ Promise!Moves(i, StatusOf(row[i]), StatusOf(new))
           /\ new.kind = row[i].kind => Promise!Becomes(i, StatusOf(row[i]), StatusOf(new))
  BY DEF Promise!Moves, Promise!Becomes

\* What is known of every row before and after a step.
LEMMA Known ==
    ASSUME SafeInv
    PROVE  /\ TypeInv /\ row \in [Intents -> RowType] /\ wk \in [Workers -> WorkerType]
           /\ accepted \in [Intents -> Nat] /\ denied \in [Intents -> Nat]
           /\ \A i \in Intents : Taken(i) = accepted[i] + denied[i]
  BY DEF SafeInv, TypeInv, TypeOK, Taken

\* Recovery of expired leases: the called ones fall into doubt together, the
\* others were open and stay so.
LEMMA RecoveryIsDoubt ==
    ASSUME SafeInv, row' = Recovered, UNCHANGED <<accepted, denied>>
    PROVE  PromiseStep
  <1> DEFINE S == {i \in Intents : row[i].st = "dispatching" /\ row[i].called /\ ~(row[i].exp > now)}
  <1>1. ASSUME NEW i \in S
        PROVE  /\ StatusOf(row[i]) = "sending" /\ StatusOf(row'[i]) = "doubt"
               /\ row'[i].kind = row[i].kind
    <2>1. row'[i].st = "uncertain" /\ row'[i].kind = row[i].kind
          BY Known DEF Recovered, Freed, RowType
    <2> QED BY <2>1, StatusIs
  <1>2. ASSUME NEW i \in Intents \ S
        PROVE  StatusOf(row'[i]) = StatusOf(row[i]) /\ row'[i].kind = row[i].kind
    <2>1. CASE row'[i] = row[i]
          BY <2>1
    <2>2. CASE row[i].st = "dispatching" /\ ~row[i].called /\ ~(row[i].exp > now)
      <3>1. row'[i].st = "not_dispatched" /\ row'[i].kind = row[i].kind
            BY <2>2, Known DEF Recovered, Freed, RowType
      <3> QED BY <2>2, <3>1, StatusIs DEF Pending
    <2> QED BY <2>1, <2>2 DEF Recovered
  <1>3. S \in SUBSET {i \in Intents : StatusMap[i] = "sending"}
        BY <1>1 DEF StatusMap
  <1>4. StatusMap' = [i \in Intents |-> IF i \in S THEN "doubt" ELSE StatusMap[i]]
        BY <1>1, <1>2 DEF StatusMap
  <1>6. KindMap' = KindMap
        BY <1>1, <1>2 DEF KindMap
  <1> HIDE DEF S
  <1>5. Promise!Doubt
        BY <1>3, <1>4, <1>6 DEF Promise!Doubt, StatusMap, KindMap
  <1> QED BY <1>5 DEF PromiseStep, Promise!Next

\* One unanswered attempt falls into doubt.
LEMMA OneDoubt ==
    ASSUME SafeInv, NEW i \in Intents, NEW new, row' = [row EXCEPT ![i] = new],
           StatusOf(row[i]) = "sending", StatusOf(new) = "doubt", new.kind = row[i].kind,
           UNCHANGED <<accepted, denied>>
    PROVE  PromiseStep
  <1>1. row'[i] = new /\ \A j \in Intents \ {i} : row'[j] = row[j]
        BY Known
  <1>2. {i} \in SUBSET {j \in Intents : StatusMap[j] = "sending"}
        BY DEF StatusMap
  <1>3. StatusMap' = [j \in Intents |-> IF j \in {i} THEN "doubt" ELSE StatusMap[j]]
        BY <1>1 DEF StatusMap
  <1>5. KindMap' = KindMap
        BY <1>1 DEF KindMap
  <1>4. Promise!Doubt
        BY <1>2, <1>3, <1>5 DEF Promise!Doubt, StatusMap, KindMap
  <1> QED BY <1>4 DEF PromiseStep, Promise!Next

\* Any other move of one row is one the promise names.
LEMMA NamedMove ==
    ASSUME SafeInv, NEW i \in Intents, NEW new, row' = [row EXCEPT ![i] = new],
           UNCHANGED <<accepted, denied>>, NEW a, NEW b, StatusOf(row[i]) = a, StatusOf(new) = b,
           new.kind = row[i].kind,
           \/ a = b
           \/ a = "open" /\ b \in {"withdrawn", "refused", "sending"}
           \/ a \in {"sending", "doubt"} /\ b = "sent" /\ (accepted[i] > 0 \/ MayEcho(i))
           \/ a = "sending" /\ b = "refused" /\ accepted[i] = 0
           \/ /\ a = "sending" /\ b = "open" /\ accepted[i] = 0
              /\ row[i].kind \in Messages => Taken(i) = 0
    PROVE  PromiseStep
  <1>1. Promise!Becomes(i, a, b)
        BY OneMove, Known
  <1>2. CASE a = b
    <2>1. \A j \in Intents : StatusOf(row'[j]) = StatusOf(row[j]) /\ row'[j].kind = row[j].kind
          BY <1>2, Known
    <2> QED BY <2>1, Invisible
  <1>3. CASE a # b
    <2>a. Promise!Messages = Messages
          BY DEF Messages, Promise!Messages
    <2>b. /\ Taken(i) = 0 => denied[i] = 0
          /\ MayEcho(i) => row[i].kind \in Messages /\ (accepted[i] > 0 \/ denied[i] > 0)
          BY Counts
    <2>1. \/ Promise!Withdraw(i) \/ Promise!Refuse(i) \/ Promise!Begin(i)
          \/ Promise!Acknowledge(i) \/ Promise!Reopen(i) \/ Promise!Fail(i)
          BY <1>1, <1>3, <2>a, <2>b
          DEF Promise!Withdraw, Promise!Refuse, Promise!Begin,
              Promise!Acknowledge, Promise!Reopen, Promise!Fail
    <2> QED BY <2>1 DEF PromiseStep, Promise!Next
  <1> QED BY <1>2, <1>3

\* An intent that comes into being is submitted.
LEMMA Submitted ==
    ASSUME SafeInv, NEW i \in Intents, NEW new, row' = [row EXCEPT ![i] = new],
           UNCHANGED <<accepted, denied>>, StatusOf(row[i]) = "none", StatusOf(new) = "open",
           new.kind \in AllKinds
    PROVE  PromiseStep
  <1>1. Promise!Moves(i, "none", "open")
        BY OneMove, Known
  <1>2. KindMap' = [KindMap EXCEPT ![i] = new.kind]
        BY Known DEF KindMap
  <1>3. new.kind \in Promise!Sorts
        BY DEF AllKinds, Promise!Sorts
  <1>4. Promise!Submit(i)
        BY <1>1, <1>2, <1>3 DEF Promise!Submit, KindMap
  <1> QED BY <1>4 DEF PromiseStep, Promise!Next

-----------------------------------------------------------------------------
(* The steps *)

\* The dispatcher's steps outside a call: at most a recovery shows.
LEMMA PromiseLoop ==
    ASSUME SafeInv, NEW w \in Workers,
           \/ Start(w) \/ RecoverOnStart(w) \/ RepairStoreFailedDue(w) \/ LeaseDue(w)
           \/ NextLease(w) \/ BatchDone(w) \/ Poll(w) \/ RunReturns(w) \/ RunFails(w)
    PROVE  PromiseStep
  <1> USE DEF Tables, History
  <1>1. CASE UNCHANGED <<row, accepted, denied>>
        BY <1>1, Invisible
  <1>2. CASE Start(w) \/ BatchDone(w) \/ Poll(w) \/ RunReturns(w) \/ RunFails(w)
        BY <1>1, <1>2 DEF Start, BatchDone, Poll, RunReturns, RunFails
  <1>3. CASE RecoverOnStart(w) \/ NextLease(w)
        BY <1>1, <1>3, RecoveryIsDoubt DEF RecoverOnStart, NextLease
  <1>4. CASE RepairStoreFailedDue(w)
    <2>1. PICK S \in SUBSET {i \in Intents : row[i].st = "store_failed"} :
            row' = [i \in Intents |->
                      IF i \in S THEN Confirmed(row[i], row[i].result) ELSE row[i]]
          BY <1>4 DEF RepairStoreFailedDue
    <2>2. ASSUME NEW i \in Intents
          PROVE  StatusOf(row'[i]) = StatusOf(row[i]) /\ row'[i].kind = row[i].kind
      <3>1. CASE i \in S
        <4>1. row'[i].st = "confirmed" /\ row'[i].kind = row[i].kind
              BY <2>1, <3>1, Known DEF Confirmed, RowType
        <4> QED BY <3>1, <4>1, StatusIs
      <3>2. CASE i \notin S
            BY <2>1, <3>2
      <3> QED BY <3>1, <3>2
    <2> QED BY <1>4, <2>2, Invisible DEF RepairStoreFailedDue
  <1>5. CASE LeaseDue(w)
    <2>1. PICK q \in DueBatches : \E tok \in FreshTokens(Len(q)) : Claim(w, q, tok)
          BY <1>5 DEF LeaseDue
    <2>2. PICK tok \in FreshTokens(Len(q)) : Claim(w, q, tok)
          BY <2>1
    <2>3. q \in [1..Len(q) -> Due]
          BY DueBatchesType
    <2>4. ASSUME NEW i \in Intents
          PROVE  StatusOf(row'[i]) = StatusOf(row[i]) /\ row'[i].kind = row[i].kind
      <3>1. CASE \E k \in 1..Len(q) : q[k] = i
        <4>1. row[i] \in RowType /\ row[i].st \in Pending
              BY <2>3, <3>1, Known DEF Due
        <4>2. row'[i].st = "dispatching" /\ ~row'[i].called /\ row'[i].kind = row[i].kind
              BY <2>2, <3>1, <4>1 DEF Claim, Claimed, RowType
        <4> QED BY <4>1, <4>2, StatusIs
      <3>2. CASE ~\E k \in 1..Len(q) : q[k] = i
            BY <2>2, <3>2 DEF Claim
      <3> QED BY <3>1, <3>2
    <2> QED BY <1>5, <2>4, Invisible DEF LeaseDue
  <1> QED BY <1>2, <1>3, <1>4, <1>5

\* A row that is freed before its call marker is still open, or refused.
LEMMA PromiseUncalled ==
    ASSUME SafeInv, NEW w \in Workers, NEW st \in Pending \cup {"rejected"}, NEW next, NEW pc,
           wk[w].pc \in {"prepare", "call", "answer"} \/ Cur(w).id \in Intents,
           \/ row' = row
           \/ /\ Holds(Cur(w).id, Cur(w).tok) /\ row[Cur(w).id].called = FALSE
              /\ row' = [row EXCEPT ![Cur(w).id] = Freed(row[Cur(w).id], st, next)],
           UNCHANGED <<accepted, denied>>
    PROVE  PromiseStep
  <1> DEFINE c == Cur(w).id
             new == Freed(row[c], st, next)
  <1>1. CASE row' = row
        BY <1>1, Invisible
  <1>2. CASE /\ Holds(c, Cur(w).tok) /\ row[c].called = FALSE
             /\ row' = [row EXCEPT ![c] = new]
    <2>1. c \in Intents /\ row[c] \in RowType
          BY EngagedIntent, Known
    <2>2. StatusOf(row[c]) = "open"
          BY <1>2, StatusIs DEF Holds
    <2>3. new.st = st /\ new.kind = row[c].kind
          BY <2>1 DEF Freed, RowType
    <2> HIDE DEF new, c
    <2>4. StatusOf(new) \in {"open", "refused"}
          BY <2>3, StatusIs DEF Pending
    <2> QED BY <1>2, <2>1, <2>2, <2>3, <2>4, NamedMove
  <1> QED BY <1>1, <1>2

\* The verdict of a call that was marked.
LEMMA PromiseVerdict ==
    ASSUME SafeInv, NEW w \in Workers, At(w, "answer"), NEW new, UNCHANGED <<accepted, denied>>,
           \/ row' = row
           \/ /\ Holds(Cur(w).id, Cur(w).tok) /\ row[Cur(w).id].called = TRUE
              /\ row' = [row EXCEPT ![Cur(w).id] = new],
           new.kind = row[Cur(w).id].kind,
           \/ StatusOf(new) = "doubt"
           \/ StatusOf(new) = "sent" /\ wk[w].answer \in {"real", "request", "empty"}
           \/ StatusOf(new) = "refused" /\ wk[w].answer = "refused"
           \/ StatusOf(new) = "open" /\ wk[w].answer = "not_called"
    PROVE  PromiseStep
  <1> DEFINE c == Cur(w).id
  <1>1. CASE row' = row
        BY <1>1, Invisible
  <1>2. CASE /\ Holds(c, Cur(w).tok) /\ row[c].called = TRUE
             /\ row' = [row EXCEPT ![c] = new]
    <2>1. c \in Intents
          BY EngagedIntent, Known DEF At
    <2>2. StatusOf(row[c]) = "sending"
          BY <1>2, StatusIs DEF Holds
    <2>3. /\ wk[w].answer \in {"real", "request", "empty"} => accepted[c] > 0
          /\ wk[w].answer \in {"refused", "not_called"} => accepted[c] = 0
          /\ wk[w].answer = "not_called" /\ row[c].kind \in Messages => Taken(c) = 0
          BY <2>1, Counts DEF SafeInv, CallsInv, AnswersAreTrue
    <2>6. new.kind = row[c].kind /\ row' = [row EXCEPT ![c] = new]
          BY <1>2
    <2> HIDE DEF c
    <2>4. CASE StatusOf(new) = "doubt"
          BY <2>1, <2>2, <2>4, <2>6, OneDoubt
    <2>5. CASE StatusOf(new) # "doubt"
          BY <2>1, <2>2, <2>3, <2>5, <2>6, NamedMove
    <2> QED BY <2>4, <2>5
  <1> QED BY <1>1, <1>2

\* The steps of a process on its current lease.
LEMMA PromiseLease ==
    ASSUME SafeInv, NEW w \in Workers,
           \/ ReleaseUnavailable(w) \/ MarkNotDispatched(w) \/ RejectPreCall(w)
           \/ MarkTransportCalled(w) \/ Call(w) \/ Confirm(w) \/ AcceptWithoutID(w)
           \/ RecordSendError(w) \/ MutationFault(w) \/ ReleaseUntouched(w)
    PROVE  PromiseStep
  <1> DEFINE c == Cur(w).id
             r == row[c]
  <1> USE DEF Tables, History
  <1>a. wk[w].pc \in {"prepare", "call", "answer"} => c \in Intents /\ r \in RowType
        BY EngagedIntent, Known
  <1>b. ASSUME r \in RowType, NEW st, NEW next
        PROVE  Freed(r, st, next).st = st /\ Freed(r, st, next).kind = r.kind
        BY <1>b DEF Freed, RowType
  <1>1. CASE ReleaseUnavailable(w)
        BY <1>1, PromiseUncalled DEF ReleaseUnavailable, At, Finish, Pending
  <1>2. CASE MarkNotDispatched(w)
        BY <1>2, PromiseUncalled DEF MarkNotDispatched, At, Finish, Pending
  <1>3. CASE RejectPreCall(w)
        BY <1>3, PromiseUncalled DEF RejectPreCall, At, Finish
  <1>4. CASE MarkTransportCalled(w)
    <2>1. CASE row' = row
          BY <1>4, <2>1, Invisible DEF MarkTransportCalled
    <2> DEFINE new == [r EXCEPT !.called = TRUE]
    <2>2. CASE Holds(c, Cur(w).tok) /\ ~r.called /\ row' = [row EXCEPT ![c].called = TRUE]
      <3>1. c \in Intents /\ r \in RowType /\ row' = [row EXCEPT ![c] = new]
            BY <1>4, <1>a, <2>2 DEF MarkTransportCalled, At
      <3>2. new.st = "dispatching" /\ new.called /\ new.kind = r.kind
            BY <2>2, <3>1 DEF RowType, Holds
      <3>3. StatusOf(r) = "open"
            BY <2>2, StatusIs DEF Holds
      <3> HIDE DEF new
      <3>4. StatusOf(new) = "sending"
            BY <3>2, StatusIs
      <3> QED BY <1>4, <3>1, <3>2, <3>3, <3>4, NamedMove DEF MarkTransportCalled
    <2> QED BY <1>4, <2>1, <2>2 DEF MarkTransportCalled
  <1>5. CASE Call(w)
    <2>0. /\ \/ UNCHANGED <<accepted, denied>>
             \/ accepted' = [accepted EXCEPT ![c] = @ + 1] /\ denied' = denied
             \/ /\ denied' = [denied EXCEPT ![c] = @ + 1] /\ accepted' = accepted
                /\ r.kind # "text"
          /\ row' = row /\ At(w, "call")
          BY <1>5 DEF Call, Denials
    <2>a. /\ c \in Intents /\ accepted[c] = 0 /\ (row[c].kind \in Messages => denied[c] = 0)
          BY <2>0, <1>a, Counts DEF At, SafeInv, CallsInv, AnswersAreTrue
    <2>b. Engaged(w) /\ InFlight(row[c])
          BY <2>0, <2>a DEF At, Engaged, SafeInv, CallsInv, CallsAreMarked
    <2>1. CASE UNCHANGED <<accepted, denied>>
          BY <2>0, <2>1, Invisible
    <2>4. CASE row[c].st = "confirmed" /\ ~UNCHANGED <<accepted, denied>>
      \* The platform's echo cannot be of a call that it has not had.
      <3>1. accepted[c] > 0 \/ MayEcho(c)
            BY <2>a, <2>4 DEF SafeInv, NoFalseConfirm
      <3> QED BY <2>a, <3>1, Counts
    <2>5. CASE row[c].st # "confirmed" /\ ~UNCHANGED <<accepted, denied>>
      <3>1. StatusOf(row[c]) \in {"sending", "doubt"}
            BY <2>b, <2>5, StatusIs DEF InFlight
      <3>2. Promise!Messages = Messages /\ accepted \in [Intents -> Nat]
            BY Known DEF Messages, Promise!Messages
      <3> HIDE DEF c
      <3>3. StatusMap' = StatusMap /\ KindMap' = KindMap
            BY <2>0 DEF StatusMap, KindMap
      <3>4. Promise!May(c)
            BY <2>a, <3>1, <3>2 DEF Promise!May
      <3>5. CASE accepted' = [accepted EXCEPT ![c] = @ + 1] /\ denied' = denied
        <4>1. accepted' = [accepted EXCEPT ![c] = 1]
              BY <2>a, <3>2, <3>5
        <4>2. Promise!Deliver(c)
              BY <3>3, <3>4, <3>5, <4>1 DEF Promise!Deliver, StatusMap, KindMap
        <4> QED BY <2>a, <4>2 DEF PromiseStep, Promise!Next
      <3>6. CASE /\ denied' = [denied EXCEPT ![c] = @ + 1] /\ accepted' = accepted
                 /\ row[c].kind # "text"
        <4>1. Promise!Deny(c)
              BY <2>a, <3>3, <3>4, <3>6 DEF Promise!Deny, StatusMap, KindMap
        <4> QED BY <2>a, <4>1 DEF PromiseStep, Promise!Next
      <3> QED BY <2>0, <2>5, <3>5, <3>6 DEF c
    <2> QED BY <2>1, <2>4, <2>5
  <1>6. CASE Confirm(w)
    <2>1. /\ At(w, "answer") /\ r \in RowType /\ UNCHANGED <<accepted, denied>>
          /\ wk[w].answer \in {"real", "request", "empty"}
          BY <1>6, <1>a DEF Confirm, At, RemoteIDs
    <2>2. CASE row' = row
          BY <2>1, <2>2, Invisible
    <2>3. ASSUME NEW new \in {Confirmed(Freed(r, "confirmed", Null), wk[w].answer),
                              [Freed(r, "store_failed", Null) EXCEPT !.result = wk[w].answer]},
                 Holds(c, Cur(w).tok), r.called = TRUE, row' = [row EXCEPT ![c] = new]
          PROVE  PromiseStep
      <3>1. new.st \in {"confirmed", "store_failed"} /\ new.kind = r.kind
            BY <2>1 DEF Confirmed, Freed, RowType
      <3>2. StatusOf(new) = "sent"
            BY <3>1, StatusIs
      <3> QED BY <2>1, <2>3, <3>1, <3>2, PromiseVerdict
    <2>4. r.called \in BOOLEAN
          BY <2>1 DEF RowType
    <2> QED BY <1>6, <2>2, <2>3, <2>4 DEF Confirm
  <1>7. CASE AcceptWithoutID(w)
    <2>1. At(w, "answer") /\ wk[w].answer = "empty" /\ r \in RowType /\ UNCHANGED <<accepted, denied>>
          BY <1>7, <1>a DEF AcceptWithoutID, At
    <2>2. PICK st \in {"uncertain", "confirmed"} : Finish(w, TRUE, Freed(r, st, Null), "next")
          BY <1>7 DEF AcceptWithoutID
    <2> DEFINE new == Freed(r, st, Null)
    <2>3. new.st \in {"uncertain", "confirmed"} /\ new.kind = r.kind
          BY <1>b, <2>1
    <2>4. \/ row' = row
          \/ Holds(c, Cur(w).tok) /\ row[c].called = TRUE /\ row' = [row EXCEPT ![c] = new]
          BY <2>2 DEF Finish
    <2> HIDE DEF new
    <2>5. StatusOf(new) \in {"doubt", "sent"}
          BY <2>3, StatusIs
    <2> QED BY <2>1, <2>3, <2>4, <2>5, PromiseVerdict
  <1>8. CASE RecordSendError(w)
    <2>1. At(w, "answer") /\ r \in RowType /\ UNCHANGED <<accepted, denied>>
          BY <1>8, <1>a DEF RecordSendError, At
    <2>2. PICK st \in {"uncertain", "rejected", "not_dispatched"} :
            \E next \in {Null, now + RetryDelay} :
              /\ Finish(w, TRUE, Freed(r, st, next), "next")
              /\ st = "rejected" => wk[w].answer = "refused"
              /\ st = "not_dispatched" => wk[w].answer = "not_called"
          BY <1>8 DEF RecordSendError
    <2>3. PICK next \in {Null, now + RetryDelay} : Finish(w, TRUE, Freed(r, st, next), "next")
          BY <2>2
    <2> DEFINE new == Freed(r, st, next)
    <2>4. new.st = st /\ new.kind = r.kind
          BY <1>b, <2>1
    <2>5. \/ row' = row
          \/ Holds(c, Cur(w).tok) /\ row[c].called = TRUE /\ row' = [row EXCEPT ![c] = new]
          BY <2>3 DEF Finish
    <2> HIDE DEF new
    <2>6. \/ StatusOf(new) = "doubt"
          \/ StatusOf(new) = "refused" /\ wk[w].answer = "refused"
          \/ StatusOf(new) = "open" /\ wk[w].answer = "not_called"
          BY <2>2, <2>4, StatusIs DEF Pending
    <2> QED BY <2>1, <2>4, <2>5, <2>6, PromiseVerdict
  <1>9. CASE MutationFault(w)
        BY <1>9, Invisible DEF MutationFault
  <1>10. CASE ReleaseUntouched(w)
    <2>1. wk[w].batch # <<>> /\ WorkersOK
          BY <1>10 DEF ReleaseUntouched, SafeInv, TypeInv, TypeOK, WorkersOK
    <2>2. c \in Intents /\ r.called \in BOOLEAN
          BY <2>1, CurType, Known DEF RowType
    <2> QED BY <1>10, <2>2, PromiseUncalled DEF ReleaseUntouched, Pending
  <1> QED BY <1>1, <1>2, <1>3, <1>4, <1>5, <1>6, <1>7, <1>8, <1>9, <1>10

\* Reconciliation with an accepted result ends a doubt or changes no status.
LEMMA PromiseReconcile ==
    ASSUME SafeInv, NEW i \in Intents, NEW id, Reconcile(i, id),
           accepted[i] > 0 \/ MayEcho(i), UNCHANGED <<accepted, denied>>
    PROVE  PromiseStep
  <1> DEFINE new == Confirmed(row[i], id)
  <1>1. CASE row' = row
        BY <1>1, Invisible
  <1>2. CASE /\ row[i].st \in {"uncertain", "store_failed", "confirmed"}
             /\ row' = [row EXCEPT ![i] = new]
    <2>1. new.st = "confirmed" /\ new.kind = row[i].kind
          BY Known DEF Confirmed, RowType
    <2> HIDE DEF new
    <2>2. StatusOf(new) = "sent" /\ StatusOf(row[i]) \in {"doubt", "sent"}
          BY <1>2, <2>1, StatusIs
    <2> QED BY <1>2, <2>1, <2>2, NamedMove
  <1> QED BY <1>1, <1>2 DEF Reconcile

\* The users, the inbound path, the clock and the process manager.
LEMMA PromiseRest ==
    ASSUME SafeInv,
           \/ \E w \in Workers : Crash(w) \/ Shutdown(w)
           \/ \E w \in Workers, i \in Intents : SendAgainReads(w, i) \/ SendAgainEnqueues(w, i)
           \/ \E i \in Intents : UserStep(i) \/ EchoStep(i)
           \/ Tick \/ UNCHANGED vars
    PROVE  PromiseStep
  <1> USE DEF Tables, History
  <1>1. CASE UNCHANGED <<row, accepted, denied>>
        BY <1>1, Invisible
  <1>2. ASSUME NEW w \in Workers, Crash(w) \/ Shutdown(w) PROVE PromiseStep
        BY <1>1, <1>2 DEF Crash, Shutdown
  <1>3. ASSUME NEW w \in Workers, NEW i \in Intents, SendAgainReads(w, i) PROVE PromiseStep
        BY <1>1, <1>3 DEF SendAgainReads
  <1>4. ASSUME NEW i \in Intents, Enqueue(i) \/ \E w \in Workers : SendAgainEnqueues(w, i)
        PROVE  PromiseStep
    <2>0. \E kind \in AllKinds : \E sched, prev : row' = [row EXCEPT ![i] = NewRow(kind, sched, prev)]
      <3>1. CASE Enqueue(i)
        <4>1. PICK kind \in Kinds : \E sched \in now..(now + MaxDelay) :
                row' = [row EXCEPT ![i] = NewRow(kind, sched, NoIntent)]
              BY <3>1 DEF Enqueue
        <4>2. PICK sched \in now..(now + MaxDelay) :
                row' = [row EXCEPT ![i] = NewRow(kind, sched, NoIntent)]
              BY <4>1
        <4> QED BY <4>2, OutboxAssumption
      <3>2. ASSUME NEW w \in Workers, SendAgainEnqueues(w, i)
            PROVE  /\ row[wk[w].asked].kind \in AllKinds
                   /\ row' = [row EXCEPT ![i] = NewRow(row[wk[w].asked].kind, now, wk[w].asked)]
        <4>1. wk[w].asked \in Intents
              BY <3>2, Known DEF SendAgainEnqueues, WorkerType
        <4> QED BY <3>2, <4>1, Known DEF SendAgainEnqueues, RowType
      <3> QED BY <1>4, <3>1, <3>2
    <2>1. PICK kind \in AllKinds : \E sched, prev : row' = [row EXCEPT ![i] = NewRow(kind, sched, prev)]
          BY <2>0
    <2>4. PICK sched, prev : row' = [row EXCEPT ![i] = NewRow(kind, sched, prev)]
          BY <2>1
    <2> DEFINE new == NewRow(kind, sched, prev)
    <2>5. new.st = "queued" /\ new.kind \in AllKinds
          BY DEF NewRow, Absent
    <2> HIDE DEF new
    <2>3. row[i].st = "absent" /\ UNCHANGED <<accepted, denied>>
          BY <1>4 DEF Enqueue, SendAgainEnqueues
    <2>2. StatusOf(row[i]) = "none" /\ StatusOf(new) = "open"
          BY <2>3, <2>5, StatusIs DEF Pending
    <2> QED BY <2>2, <2>3, <2>4, <2>5, Submitted DEF new
  <1>5. ASSUME NEW i \in Intents, Cancel(i) PROVE PromiseStep
    <2> DEFINE new == [row[i] EXCEPT !.st = "canceled", !.next = Null]
    <2>1. row' = [row EXCEPT ![i] = new] /\ row[i].st \in Pending /\ UNCHANGED <<accepted, denied>>
          BY <1>5, Known DEF Cancel
    <2>2. new.st = "canceled" /\ new.kind = row[i].kind
          BY Known DEF RowType
    <2> HIDE DEF new
    <2>3. StatusOf(row[i]) = "open" /\ StatusOf(new) = "withdrawn"
          BY <2>1, <2>2, StatusIs
    <2> QED BY <2>1, <2>2, <2>3, NamedMove
  <1>6. ASSUME NEW i \in Intents, RetryNotDispatched(i) PROVE PromiseStep
    <2> DEFINE new == [row[i] EXCEPT !.next = now]
    <2>1. /\ row' = [row EXCEPT ![i] = new] /\ row[i].st = "not_dispatched"
          /\ UNCHANGED <<accepted, denied>>
          BY <1>6, Known DEF RetryNotDispatched
    <2>2. new.st = "not_dispatched" /\ new.kind = row[i].kind
          BY <2>1, Known DEF RowType
    <2> HIDE DEF new
    <2>3. StatusOf(row[i]) = "open" /\ StatusOf(new) = "open"
          BY <2>1, <2>2, StatusIs DEF Pending
    <2> QED BY <2>1, <2>2, <2>3, NamedMove
  <1>7. ASSUME NEW i \in Intents, RepairStoreFailed(i) PROVE PromiseStep
    <2>1. accepted[i] > 0 \/ MayEcho(i)
          BY <1>7 DEF RepairStoreFailed, SafeInv, NoFalseConfirm
    <2> QED BY <1>7, <2>1, PromiseReconcile DEF RepairStoreFailed
  <1>8. ASSUME NEW i \in Intents, PinDuplicate(i) \/ EchoArrives(i) \/ ProjectEcho(i)
        PROVE  PromiseStep
        BY <1>1, <1>8 DEF PinDuplicate, EchoArrives, ProjectEcho
  <1>9. ASSUME NEW i \in Intents, ObserveTransportEcho(i) PROVE PromiseStep
    <2>1. MayEcho(i)
          BY <1>9 DEF ObserveTransportEcho, SafeInv, CallsInv, EchoesAreTrue
    <2> QED BY <1>1, <1>9, <2>1, PromiseReconcile DEF ObserveTransportEcho
  <1>10. CASE Tick \/ UNCHANGED vars
        BY <1>1, <1>10 DEF Tick, vars
  <1> QED BY <1>2, <1>3, <1>4, <1>5, <1>6, <1>7, <1>8, <1>9, <1>10 DEF UserStep, EchoStep

-----------------------------------------------------------------------------

\* KeepsPromise for every instance: whatever the processes, users, echoes,
\* crashes and storage faults do to rows and leases, what shows of it is a
\* behaviour of AtMostOnceSend.
THEOREM Implements == Spec => KeepsPromise
  <1>1. Init => Promise!Init
    <2>1. ASSUME Init, NEW i \in Intents PROVE StatusOf(row[i]) = "none" /\ row[i].kind = "text"
      <3>1. row[i].st = "absent" /\ row[i].kind = "text"
            BY <2>1 DEF Init, Absent
      <3> QED BY <3>1, StatusIs
    <2> QED BY <2>1 DEF Init, Promise!Init
  <1>2. SafeInv /\ [Next]_vars => [Promise!Next]_<<StatusMap, KindMap, accepted, denied>>
    <2>1. SUFFICES ASSUME SafeInv, [Next]_vars PROVE PromiseStep
          BY DEF PromiseStep
    <2> QED BY <2>1, PromiseLoop, PromiseLease, PromiseRest DEF Next, DispatcherStep
  <1>3. [Promise!Next]_<<StatusMap, KindMap, accepted, denied>> => [Promise!Next]_Promise!promised
        BY DEF StatusMap, KindMap, Promise!promised
  <1> QED BY <1>1, <1>2, <1>3, Safe, PTL DEF Spec, KeepsPromise, Promise!Spec

-----------------------------------------------------------------------------
(* The intent and its message *)

PairInv == TypeInv /\ PairStaysOne

\* PairStaysOne of one intent.
PairOK(i) ==
    /\ msg[i] = "request" \/ (row[i].st = "confirmed" /\ row[i].result = msg[i])
    /\ row[i].st = "confirmed" /\ row[i].result = "real" /\ row[i].kind \in Messages
         => msg[i] = "real" /\ i \notin dup

\* PairStaysOne is PairOK of every intent.
LEMMA PairByRows ==
    PairStaysOne <=> \A i \in Intents : PairOK(i)
  BY DEF PairStaysOne, PairStaysReplayable, ConfirmedHasOneBubble, PairOK

\* A step that leaves an intent's row and message alone keeps its pair.
LEMMA PairSame ==
    ASSUME PairInv, NEW i \in Intents, row'[i] = row[i], msg'[i] = msg[i],
           i \in dup' => i \in dup
    PROVE  PairOK(i)'
  BY PairByRows DEF PairInv, PairOK

\* So does one before the confirmation, or the end of an intent without a message.
LEMMA PairOpen ==
    ASSUME PairInv, NEW i \in Intents, row[i].st # "confirmed", msg'[i] = msg[i],
           row'[i].st # "confirmed" \/ row'[i].kind \notin Messages
    PROVE  PairOK(i)'
  BY PairByRows DEF PairInv, PairOK

\* The confirmation, or the real id that follows it, takes the message along.
LEMMA PairConfirmed ==
    ASSUME PairInv, NEW i \in Intents, NEW id,
           row[i].st # "confirmed" \/ Moves(i, id),
           row'[i].st = "confirmed", row'[i].result = id, row'[i].kind = row[i].kind,
           msg'[i] = IF Moves(i, id) THEN "real" ELSE msg[i],
           i \in dup' => i \in dup /\ ~Moves(i, id)
    PROVE  PairOK(i)'
  BY PairByRows DEF PairInv, PairOK, Moves

\* What repointLocalMessage does to one intent.
LEMMA RepointOne ==
    ASSUME TypeOK, NEW c \in Intents, NEW id, Repoint(c, id), NEW i \in Intents
    PROVE  /\ msg'[i] = IF i = c /\ Moves(c, id) THEN "real" ELSE msg[i]
           /\ i \in dup' => i \in dup /\ ~(i = c /\ Moves(c, id))
  BY DEF Repoint, TypeOK

\* ReconcileConfirm keeps every pair.
LEMMA PairReconcile ==
    ASSUME PairInv, NEW c \in Intents, NEW id, Reconcile(c, id), NEW i \in Intents
    PROVE  PairOK(i)'
  <1>a. TypeOK /\ row \in [Intents -> RowType]
        BY DEF PairInv, TypeInv, TypeOK
  <1>1. CASE UNCHANGED <<row, msg, dup>>
        BY <1>1, PairSame
  <1>2. CASE /\ row[c].st # "confirmed" \/ Moves(c, id)
             /\ row' = [row EXCEPT ![c] = Confirmed(row[c], id)] /\ Repoint(c, id)
    <2>1. CASE i # c
          BY <1>a, <1>2, <2>1, RepointOne, PairSame
    <2>2. CASE i = c
      <3>1. row'[i].st = "confirmed" /\ row'[i].result = id /\ row'[i].kind = row[i].kind
            BY <1>a, <1>2, <2>2 DEF Confirmed, RowType
      <3> QED BY <1>a, <1>2, <2>2, <3>1, RepointOne, PairConfirmed
    <2> QED BY <2>1, <2>2
  <1> QED BY <1>1, <1>2 DEF Reconcile

\* An update of the row that a process holds leaves every other pair alone, and
\* its own unless it confirms a message.
LEMMA PairUpdate ==
    ASSUME PairInv, NEW c \in Intents, NEW new, UNCHANGED <<msg, dup>>,
           \/ row' = row
           \/ /\ row[c].st # "confirmed" /\ row' = [row EXCEPT ![c] = new]
              /\ new.st # "confirmed" \/ new.kind \notin Messages,
           NEW i \in Intents
    PROVE  PairOK(i)'
  <1>1. CASE row'[i] = row[i]
        BY <1>1, PairSame
  <1>2. CASE i = c /\ row[c].st # "confirmed" /\ row'[i] = new
             /\ (new.st # "confirmed" \/ new.kind \notin Messages)
        BY <1>2, PairOpen
  <1> QED BY <1>1, <1>2 DEF PairInv, TypeInv, TypeOK

\* Freed keeps the kind of a row.
LEMMA FreedIs ==
    ASSUME NEW r \in RowType, NEW st, NEW next
    PROVE  Freed(r, st, next).st = st /\ Freed(r, st, next).kind = r.kind
  BY DEF Freed, RowType

\* A process works on an intent of the outbox, whether or not it is in a call.
LEMMA CurIntent ==
    ASSUME TypeInv, NEW w \in Workers, wk[w].batch # <<>>
    PROVE  Cur(w).id \in Intents /\ row[Cur(w).id] \in RowType
  <1>1. WorkersOK
        BY DEF TypeInv, TypeOK, WorkersOK
  <1> QED BY <1>1, CurType DEF TypeInv, TypeOK

\* The dispatcher's steps outside a call.
LEMMA PairLoop ==
    ASSUME PairInv, NEW w \in Workers, NEW i \in Intents,
           \/ Start(w) \/ RecoverOnStart(w) \/ RepairStoreFailedDue(w) \/ LeaseDue(w)
           \/ NextLease(w) \/ BatchDone(w) \/ Poll(w) \/ RunReturns(w) \/ RunFails(w)
    PROVE  PairOK(i)'
  <1> USE DEF Tables, History
  <1>a. TypeOK /\ row[i] \in RowType
        BY DEF PairInv, TypeInv, TypeOK
  <1>1. CASE UNCHANGED Tables
        BY <1>1, PairSame
  <1>2. CASE Start(w) \/ BatchDone(w) \/ Poll(w) \/ RunReturns(w) \/ RunFails(w)
        BY <1>1, <1>2 DEF Start, BatchDone, Poll, RunReturns, RunFails
  <1>3. CASE (RecoverOnStart(w) \/ NextLease(w)) /\ row' # row
    <2>1. row' = Recovered /\ UNCHANGED <<msg, dup>>
          BY <1>3 DEF RecoverOnStart, NextLease
    <2>2. CASE row'[i] = row[i]
          BY <2>1, <2>2, PairSame
    <2>3. CASE row[i].st = "dispatching" /\ row'[i].st \in {"uncertain", "not_dispatched"}
          BY <2>1, <2>3, PairOpen
    <2> QED BY <1>a, <2>1, <2>2, <2>3, FreedIs DEF Recovered
  <1>4. CASE RepairStoreFailedDue(w)
    <2>1. PICK S \in SUBSET {j \in Intents : row[j].st = "store_failed"} :
            /\ row' = [j \in Intents |->
                         IF j \in S THEN Confirmed(row[j], row[j].result) ELSE row[j]]
            /\ msg' = [j \in Intents |->
                         IF j \in {k \in S : Moves(k, row[k].result)} THEN "real" ELSE msg[j]]
            /\ dup' = dup \ {k \in S : Moves(k, row[k].result)}
          BY <1>4 DEF RepairStoreFailedDue
    <2>2. CASE i \in S
      <3>1. /\ row[i].st = "store_failed" /\ row'[i].st = "confirmed"
            /\ row'[i].result = row[i].result /\ row'[i].kind = row[i].kind
            BY <1>a, <2>1, <2>2 DEF Confirmed, RowType
      <3> QED BY <2>1, <2>2, <3>1, PairConfirmed
    <2>3. CASE i \notin S
          BY <2>1, <2>3, PairSame
    <2> QED BY <2>2, <2>3
  <1>5. CASE LeaseDue(w)
    <2>1. PICK q \in DueBatches : \E tok \in FreshTokens(Len(q)) : Claim(w, q, tok)
          BY <1>5 DEF LeaseDue
    <2>2. PICK tok \in FreshTokens(Len(q)) : Claim(w, q, tok)
          BY <2>1
    <2>3. q \in [1..Len(q) -> Due]
          BY DueBatchesType
    <2>4. CASE \E k \in 1..Len(q) : q[k] = i
      <3>1. row[i].st \in Pending
            BY <2>3, <2>4 DEF Due
      <3>2. row'[i].st = "dispatching"
            BY <1>a, <2>2, <2>4 DEF Claim, Claimed, RowType
      <3> QED BY <1>5, <3>1, <3>2, PairOpen DEF LeaseDue, Pending
    <2>5. CASE ~\E k \in 1..Len(q) : q[k] = i
          BY <1>5, <2>2, <2>5, PairSame DEF Claim, LeaseDue
    <2> QED BY <2>4, <2>5
  <1>6. CASE NextLease(w) /\ row' = row
        BY <1>1, <1>6 DEF NextLease
  <1>7. CASE RecoverOnStart(w) /\ row' = row
        BY <1>1, <1>7 DEF RecoverOnStart
  <1> QED BY <1>2, <1>3, <1>4, <1>5, <1>6, <1>7

\* The steps of a process on its current lease: only Confirm touches a message.
LEMMA PairLease ==
    ASSUME PairInv, NEW w \in Workers, NEW i \in Intents,
           \/ ReleaseUnavailable(w) \/ MarkNotDispatched(w) \/ RejectPreCall(w)
           \/ MarkTransportCalled(w) \/ Call(w) \/ Confirm(w) \/ AcceptWithoutID(w)
           \/ RecordSendError(w) \/ MutationFault(w) \/ ReleaseUntouched(w)
    PROVE  PairOK(i)'
  <1> DEFINE c == Cur(w).id
             r == row[c]
  <1> USE DEF Tables, History
  <1>a. wk[w].pc \in {"prepare", "call", "answer"} => c \in Intents /\ r \in RowType
        BY EngagedIntent DEF PairInv, TypeInv, TypeOK
  <1>b. ASSUME c \in Intents, r \in RowType, r.st = "dispatching", UNCHANGED <<msg, dup>>,
               NEW st, NEW next, row' = [row EXCEPT ![c] = Freed(r, st, next)],
               st # "confirmed" \/ r.kind \notin Messages
        PROVE  PairOK(i)'
    <2> DEFINE new == Freed(r, st, next)
    <2>1. new.st = st /\ new.kind = r.kind
          BY <1>b, FreedIs
    <2> HIDE DEF new, c
    <2> QED BY <1>b, <2>1, PairUpdate DEF new
  <1>1. CASE ReleaseUnavailable(w) \/ MarkNotDispatched(w) \/ RejectPreCall(w)
    <2>1. /\ c \in Intents /\ r \in RowType /\ UNCHANGED <<msg, dup>>
          /\ \E st \in {"queued", "not_dispatched", "rejected"}, next \in {Null, now + RetryDelay},
                pc \in {"release", "next"} : Finish(w, FALSE, Freed(r, st, next), pc)
          BY <1>1, <1>a DEF ReleaseUnavailable, MarkNotDispatched, RejectPreCall, At
    <2>2. PICK st \in {"queued", "not_dispatched", "rejected"} :
            \E next \in {Null, now + RetryDelay}, pc \in {"release", "next"} :
              Finish(w, FALSE, Freed(r, st, next), pc)
          BY <2>1
    <2>3. PICK next \in {Null, now + RetryDelay} :
            \E pc \in {"release", "next"} : Finish(w, FALSE, Freed(r, st, next), pc)
          BY <2>2
    <2>4. CASE row' = row
          BY <2>1, <2>4, PairSame
    <2>5. CASE r.st = "dispatching" /\ row' = [row EXCEPT ![c] = Freed(r, st, next)]
          BY <1>b, <2>1, <2>5
    <2> QED BY <2>3, <2>4, <2>5 DEF Finish, Holds
  <1>2. CASE MarkTransportCalled(w)
    <2> DEFINE new == [r EXCEPT !.called = TRUE]
    <2>1. CASE row' = row
          BY <1>2, <2>1, PairSame DEF MarkTransportCalled
    <2>2. CASE r.st = "dispatching" /\ row' = [row EXCEPT ![c].called = TRUE]
      <3>1. c \in Intents /\ r \in RowType /\ row' = [row EXCEPT ![c] = new]
            BY <1>2, <1>a, <2>2 DEF MarkTransportCalled, At
      <3>2. new.st = "dispatching"
            BY <2>2, <3>1 DEF RowType
      <3> HIDE DEF new
      <3> QED BY <1>2, <2>2, <3>1, <3>2, PairUpdate DEF MarkTransportCalled
    <2> QED BY <1>2, <2>1, <2>2 DEF MarkTransportCalled, Holds
  <1>3. CASE Call(w) \/ MutationFault(w)
        BY <1>3, PairSame DEF Call, MutationFault
  <1>4. CASE Confirm(w)
    <2>1. c \in Intents /\ r \in RowType /\ TypeOK
          BY <1>4, <1>a DEF Confirm, At, PairInv, TypeInv
    <2>2. CASE UNCHANGED <<row, msg, dup>>
          BY <2>2, PairSame
    <2>3. CASE /\ r.st = "dispatching" /\ UNCHANGED <<msg, dup>>
               /\ row' = [row EXCEPT ![c] =
                            [Freed(r, "store_failed", Null) EXCEPT !.result = wk[w].answer]]
      <3> DEFINE new == [Freed(r, "store_failed", Null) EXCEPT !.result = wk[w].answer]
      <3>1. new.st = "store_failed"
            BY <2>1 DEF Freed, RowType
      <3> HIDE DEF new
      <3> QED BY <2>1, <2>3, <3>1, PairUpdate DEF new
    <2>4. CASE /\ r.st = "dispatching" /\ Repoint(c, wk[w].answer)
               /\ row' = [row EXCEPT ![c] = Confirmed(Freed(r, "confirmed", Null), wk[w].answer)]
      <3> DEFINE new == Confirmed(Freed(r, "confirmed", Null), wk[w].answer)
      <3>1. new.st = "confirmed" /\ new.result = wk[w].answer /\ new.kind = r.kind
            BY <2>1 DEF Confirmed, Freed, RowType
      <3>2. row'[i] = IF i = c THEN new ELSE row[i]
            BY <2>1, <2>4 DEF TypeOK
      <3> HIDE DEF new
      <3>3. CASE i = c
        <4>1. /\ row[i].st # "confirmed" /\ row'[i].st = "confirmed"
              /\ row'[i].result = wk[w].answer /\ row'[i].kind = row[i].kind
              BY <2>4, <3>1, <3>2, <3>3
        <4>2. /\ msg'[i] = IF Moves(i, wk[w].answer) THEN "real" ELSE msg[i]
              /\ i \in dup' => i \in dup /\ ~Moves(i, wk[w].answer)
              BY <2>1, <2>4, <3>3, RepointOne
        <4> QED BY <4>1, <4>2, PairConfirmed
      <3>4. CASE i # c
            BY <2>1, <2>4, <3>2, <3>4, RepointOne, PairSame
      <3> QED BY <3>3, <3>4
    <2> QED BY <1>4, <2>2, <2>3, <2>4 DEF Confirm, Holds
  <1>5. CASE AcceptWithoutID(w)
    <2>1. c \in Intents /\ r \in RowType /\ UNCHANGED <<msg, dup>>
          BY <1>5, <1>a DEF AcceptWithoutID, At
    <2>2. PICK st \in {"uncertain", "confirmed"} :
            /\ Finish(w, TRUE, Freed(r, st, Null), "next")
            /\ st # "confirmed" \/ r.kind \notin Messages
          BY <1>5 DEF AcceptWithoutID
    <2>3. CASE row' = row
          BY <2>1, <2>3, PairSame
    <2>4. CASE r.st = "dispatching" /\ row' = [row EXCEPT ![c] = Freed(r, st, Null)]
          BY <1>b, <2>1, <2>2, <2>4
    <2> QED BY <2>2, <2>3, <2>4 DEF Finish, Holds
  <1>6. CASE RecordSendError(w)
    <2>1. c \in Intents /\ r \in RowType /\ UNCHANGED <<msg, dup>>
          BY <1>6, <1>a DEF RecordSendError, At
    <2>2. PICK st \in {"uncertain", "rejected", "not_dispatched"} :
            \E next \in {Null, now + RetryDelay} : Finish(w, TRUE, Freed(r, st, next), "next")
          BY <1>6 DEF RecordSendError
    <2>3. PICK next \in {Null, now + RetryDelay} : Finish(w, TRUE, Freed(r, st, next), "next")
          BY <2>2
    <2>4. CASE row' = row
          BY <2>1, <2>4, PairSame
    <2>5. CASE r.st = "dispatching" /\ row' = [row EXCEPT ![c] = Freed(r, st, next)]
          BY <1>b, <2>1, <2>5
    <2> QED BY <2>3, <2>4, <2>5 DEF Finish, Holds
  <1>7. CASE ReleaseUntouched(w)
    <2>1. c \in Intents /\ r \in RowType /\ UNCHANGED <<msg, dup>>
          BY <1>7, CurIntent DEF ReleaseUntouched, PairInv
    <2>2. CASE row' = row
          BY <2>1, <2>2, PairSame
    <2>3. CASE r.st = "dispatching" /\ row' = [row EXCEPT ![c] = Freed(r, "queued", Null)]
      <3> DEFINE new == Freed(r, "queued", Null)
      <3>1. new.st = "queued"
            BY <2>1, FreedIs
      <3> HIDE DEF new
      <3> QED BY <2>1, <2>3, <3>1, PairUpdate DEF new
    <2> QED BY <1>7, <2>2, <2>3 DEF ReleaseUntouched, Holds
  <1> QED BY <1>1, <1>2, <1>3, <1>4, <1>5, <1>6, <1>7

\* The users, the inbound path, the clock and the process manager.  An echo
\* projected after the message took the real id makes no second row.
LEMMA PairRest ==
    ASSUME PairInv, NEW i \in Intents,
           \/ \E w \in Workers : Crash(w) \/ Shutdown(w)
           \/ \E w \in Workers, j \in Intents : SendAgainReads(w, j) \/ SendAgainEnqueues(w, j)
           \/ \E j \in Intents : UserStep(j) \/ EchoStep(j)
           \/ Tick \/ UNCHANGED vars
    PROVE  PairOK(i)'
  <1> USE DEF Tables, History
  <1>a. TypeOK /\ row \in [Intents -> RowType]
        BY DEF PairInv, TypeInv, TypeOK
  <1>1. CASE UNCHANGED <<row, msg, dup>>
        BY <1>1, PairSame
  <1>2. ASSUME NEW w \in Workers, Crash(w) \/ Shutdown(w) PROVE PairOK(i)'
        BY <1>1, <1>2 DEF Crash, Shutdown
  <1>3. ASSUME NEW w \in Workers, NEW j \in Intents, SendAgainReads(w, j) PROVE PairOK(i)'
        BY <1>1, <1>3 DEF SendAgainReads
  <1>4. ASSUME NEW j \in Intents, Enqueue(j) \/ \E w \in Workers : SendAgainEnqueues(w, j)
        PROVE  PairOK(i)'
    <2>1. PICK new : /\ row' = [row EXCEPT ![j] = new] /\ new.st = "queued"
                     /\ row[j].st = "absent" /\ UNCHANGED <<msg, dup>>
          BY <1>4 DEF SendAgainEnqueues, Enqueue, NewRow, Absent
    <2> QED BY <2>1, PairUpdate
  <1>5. ASSUME NEW j \in Intents, Cancel(j) PROVE PairOK(i)'
    <2> DEFINE new == [row[j] EXCEPT !.st = "canceled", !.next = Null]
    <2>1. row' = [row EXCEPT ![j] = new] /\ row[j].st \in Pending /\ UNCHANGED <<msg, dup>>
          BY <1>5, <1>a DEF Cancel
    <2>2. new.st = "canceled"
          BY <1>a DEF RowType
    <2> HIDE DEF new
    <2> QED BY <2>1, <2>2, PairUpdate DEF Pending
  <1>6. ASSUME NEW j \in Intents, RetryNotDispatched(j) PROVE PairOK(i)'
    <2> DEFINE new == [row[j] EXCEPT !.next = now]
    <2>1. /\ row' = [row EXCEPT ![j] = new] /\ row[j].st = "not_dispatched"
          /\ UNCHANGED <<msg, dup>>
          BY <1>6, <1>a DEF RetryNotDispatched
    <2>2. new.st = "not_dispatched"
          BY <2>1, <1>a DEF RowType
    <2> HIDE DEF new
    <2> QED BY <2>1, <2>2, PairUpdate
  <1>7. ASSUME NEW j \in Intents, RepairStoreFailed(j) PROVE PairOK(i)'
        BY <1>7, PairReconcile DEF RepairStoreFailed
  <1>8. ASSUME NEW j \in Intents, PinDuplicate(j) \/ EchoArrives(j) PROVE PairOK(i)'
        BY <1>1, <1>8 DEF PinDuplicate, EchoArrives
  <1>9. ASSUME NEW j \in Intents, ObserveTransportEcho(j) PROVE PairOK(i)'
        BY <1>1, <1>9, PairReconcile DEF ObserveTransportEcho
  <1>10. ASSUME NEW j \in Intents, ProjectEcho(j) PROVE PairOK(i)'
    <2>1. UNCHANGED <<row, msg>> /\ (i \in dup' => i \in dup \/ msg[i] # "real")
          BY <1>10 DEF ProjectEcho
    <2> QED BY <2>1, PairByRows DEF PairInv, PairOK
  <1>11. CASE Tick \/ UNCHANGED vars
        BY <1>1, <1>11 DEF Tick, vars
  <1> QED BY <1>2, <1>3, <1>4, <1>5, <1>6, <1>7, <1>8, <1>9, <1>10, <1>11 DEF UserStep, EchoStep

\* PairStaysOne for every instance: no interleaving of verdicts, lost leases,
\* reconciliations, echoes and repairs leaves an intent's message under an id
\* that its row does not have, or beside a second copy of itself once confirmed.
THEOREM PairStays == Spec => []PairStaysOne
  <1>1. Init => PairStaysOne
        BY DEF Init, Absent, PairStaysOne, PairStaysReplayable, ConfirmedHasOneBubble
  <1>2. PairInv /\ [Next]_vars => PairStaysOne'
    <2> SUFFICES ASSUME PairInv, [Next]_vars PROVE PairStaysOne'
          OBVIOUS
    <2>1. \A i \in Intents : PairOK(i)'
          BY PairLoop, PairLease, PairRest DEF Next, DispatcherStep
    <2> QED BY <2>1 DEF PairStaysOne, PairStaysReplayable, ConfirmedHasOneBubble, PairOK
  <1>3. TypeInv /\ PairStaysOne <=> PairInv
        BY DEF PairInv
  <1> QED BY <1>1, <1>2, <1>3, TypeCorrect, PTL DEF Spec
=============================================================================
