---------------------------- MODULE OutboxProofs ----------------------------
(* What Outbox does for any number of intents and processes, proved.       *)
EXTENDS OutboxRefinement, FiniteSetTheorems, TLAPS

\* A process at work on a lease has one: the head of its batch.
BatchShape == \A w \in Workers :
    wk[w].pc \in {"prepare", "call", "answer"} => wk[w].batch # <<>>

TypeInv == TypeOK /\ BatchShape

-----------------------------------------------------------------------------
(* Helpers *)

\* The head and the tail of a batch that is not empty.
LEMMA BatchParts ==
    ASSUME NEW b \in Seq(Lease), b # <<>>
    PROVE  Head(b) \in Lease /\ Tail(b) \in Seq(Lease)
  OBVIOUS

\* Freed leaves a row of the right type, whatever state it moves to.
LEMMA FreedType ==
    ASSUME NEW r \in RowType, NEW st \in States, NEW next \in Nat
    PROVE  Freed(r, st, next) \in RowType
  BY DEF Freed, RowType, Null

\* So does an accepted result.
LEMMA ConfirmedType ==
    ASSUME NEW r \in RowType, NEW id \in RemoteIDs \cup {"none"}
    PROVE  Confirmed(r, id) \in RowType
  BY DEF Confirmed, RowType, Null, States, Settled

\* So does a claim.
LEMMA ClaimedType ==
    ASSUME NEW r \in RowType, NEW t \in Nat, now + LeaseTime \in Nat
    PROVE  Claimed(r, t) \in RowType
  BY DEF Claimed, RowType, Null, States

\* So does the recovery of expired leases.
LEMMA RecoveredType ==
    ASSUME TypeOK PROVE Recovered \in [Intents -> RowType]
  <1>1. ASSUME NEW i \in Intents
        PROVE  /\ Freed(row[i], "uncertain", Null) \in RowType
               /\ Freed(row[i], "not_dispatched", now) \in RowType
        BY FreedType DEF TypeOK, States, Settled, Pending, Null
  <1> QED BY <1>1 DEF Recovered, TypeOK

\* A batch that LeaseDue selects is a sequence of distinct due intents.
LEMMA DueBatchesType ==
    ASSUME NEW q \in DueBatches
    PROVE  /\ Len(q) \in Nat
           /\ q \in [1..Len(q) -> Due]
  <1> DEFINE size == IF Cardinality(Due) < BatchLimit THEN Cardinality(Due) ELSE BatchLimit
  <1>1. IsFiniteSet(Due)
        BY OutboxAssumption, FS_Subset DEF Due, OutboxAssumption
  <1>2. size \in Nat
        BY <1>1, FS_CardinalityType, OutboxAssumption DEF OutboxAssumption
  <1>3. q \in [1..size -> Due]
        BY DEF DueBatches
  <1> HIDE DEF size
  <1>4. Len(q) = size
        BY <1>2, <1>3
  <1> QED BY <1>2, <1>3, <1>4

-----------------------------------------------------------------------------
(* Moves of one process *)

Idle == Phases \ {"prepare", "call", "answer"}

WorkersOK == wk \in [Workers -> WorkerType] /\ BatchShape

\* A process that moves to a phase outside a call stays well formed.
LEMMA GotoType ==
    ASSUME WorkersOK, NEW w \in Workers, NEW pc \in Phases, Goto(w, pc),
           pc \in Idle \/ wk[w].batch # <<>>
    PROVE  WorkersOK'
  BY DEF WorkersOK, BatchShape, Goto, Idle, WorkerType

\* So does one that takes up a batch or drops it.
LEMMA BatchType ==
    ASSUME WorkersOK, NEW w \in Workers, NEW pc \in Idle, NEW b \in Seq(Lease),
           wk' = [wk EXCEPT ![w].pc = pc, ![w].batch = b]
    PROVE  WorkersOK'
  BY DEF WorkersOK, BatchShape, Idle, WorkerType

\* So does one that is done with the head of its batch.
LEMMA AdvanceType ==
    ASSUME WorkersOK, NEW w \in Workers, NEW pc \in Idle, wk[w].batch # <<>>,
           Advance(w, pc)
    PROVE  WorkersOK'
  <1>1. wk[w].batch \in Seq(Lease)
        BY DEF WorkersOK, WorkerType
  <1>2. Tail(wk[w].batch) \in Seq(Lease)
        BY <1>1, BatchParts
  <1> QED BY <1>2 DEF WorkersOK, BatchShape, Advance, Idle, WorkerType

\* The head of a batch is a lease on an intent.
LEMMA CurType ==
    ASSUME WorkersOK, NEW w \in Workers, wk[w].batch # <<>>
    PROVE  Cur(w) \in Lease /\ Cur(w).id \in Intents
  <1>1. wk[w].batch \in Seq(Lease)
        BY DEF WorkersOK, WorkerType
  <1> QED BY <1>1, BatchParts DEF Cur, Lease

\* A finishing update writes its row, or reports the lease lost, and advances.
LEMMA FinishType ==
    ASSUME TypeInv, NEW w \in Workers, NEW called \in BOOLEAN, NEW new \in RowType,
           NEW pc \in Idle, wk[w].batch # <<>>, Finish(w, called, new, pc)
    PROVE  row' \in [Intents -> RowType] /\ WorkersOK'
  <1>1. WorkersOK
        BY DEF TypeInv, TypeOK, WorkersOK
  <1>2. row' \in [Intents -> RowType]
        BY <1>1, CurType DEF TypeInv, TypeOK, Finish
  <1>3. \E p \in Idle : Advance(w, p)
        BY DEF Finish, Idle, Phases
  <1> QED BY <1>1, <1>2, <1>3, AdvanceType

\* repointLocalMessage moves the message or leaves both tables alone.
LEMMA RepointType ==
    ASSUME TypeOK, NEW i \in Intents, NEW id \in RemoteIDs, Repoint(i, id)
    PROVE  msg' \in [Intents -> RemoteIDs] /\ dup' \subseteq Intents
  BY DEF TypeOK, Repoint, RemoteIDs

\* ReconcileConfirm keeps the three tables it writes well formed.
LEMMA ReconcileType ==
    ASSUME TypeOK, NEW i \in Intents, NEW id \in RemoteIDs \cup {"none"},
           Reconcile(i, id)
    PROVE  /\ row' \in [Intents -> RowType]
           /\ msg' \in [Intents -> RemoteIDs]
           /\ dup' \subseteq Intents
  <1>1. CASE UNCHANGED <<row, msg, dup>>
        BY <1>1 DEF TypeOK
  <1>2. CASE /\ row' = [row EXCEPT ![i] = Confirmed(row[i], id)]
             /\ Repoint(i, id)
    <2>1. row' \in [Intents -> RowType]
          BY <1>2, ConfirmedType DEF TypeOK
    <2>2. msg' \in [Intents -> RemoteIDs] /\ dup' \subseteq Intents
          BY <1>2 DEF TypeOK, Repoint, RemoteIDs
    <2> QED BY <2>1, <2>2
  <1> QED BY <1>1, <1>2 DEF Reconcile

-----------------------------------------------------------------------------
(* The type invariant *)

\* The dispatcher's steps outside a call.
LEMMA TypeLoop ==
    ASSUME TypeInv, NEW w \in Workers,
           \/ Start(w) \/ RecoverOnStart(w) \/ RepairStoreFailedDue(w) \/ LeaseDue(w)
           \/ NextLease(w) \/ BatchDone(w) \/ Poll(w) \/ RunReturns(w) \/ RunFails(w)
    PROVE  TypeInv'
  <1> USE DEF TypeInv, Tables, History
  <1>0. WorkersOK
        BY DEF WorkersOK, TypeOK
  <1>1. CASE Start(w)
        BY <1>0, <1>1, GotoType DEF Start, TypeOK, WorkersOK, Idle, Phases
  <1>2. CASE RecoverOnStart(w)
        BY <1>0, <1>2, GotoType, RecoveredType
        DEF RecoverOnStart, TypeOK, WorkersOK, Idle, Phases
  <1>3. CASE RepairStoreFailedDue(w)
    <2>1. PICK S \in SUBSET Intents :
            /\ row' = [i \in Intents |->
                         IF i \in S THEN Confirmed(row[i], row[i].result) ELSE row[i]]
            /\ msg' = [i \in Intents |->
                         IF i \in {j \in S : Moves(j, row[j].result)} THEN "real" ELSE msg[i]]
            /\ dup' = dup \ {j \in S : Moves(j, row[j].result)}
          BY <1>3 DEF RepairStoreFailedDue
    <2>2. ASSUME NEW i \in Intents PROVE row[i].result \in RemoteIDs \cup {"none"}
          BY DEF TypeOK, RowType
    <2>3. row' \in [Intents -> RowType]
          BY <2>1, <2>2, ConfirmedType DEF TypeOK
    <2>4. msg' \in [Intents -> RemoteIDs] /\ dup' \subseteq Intents
          BY <2>1 DEF TypeOK, RemoteIDs
    <2> QED BY <1>0, <1>3, <2>3, <2>4, GotoType
        DEF RepairStoreFailedDue, TypeOK, WorkersOK, Idle, Phases
  <1>4. CASE LeaseDue(w)
    <2>1. PICK q \in DueBatches : \E tok \in FreshTokens(Len(q)) : Claim(w, q, tok)
          BY <1>4 DEF LeaseDue
    <2>a. PICK tok \in FreshTokens(Len(q)) : Claim(w, q, tok)
          BY <2>1
    <2>2. Len(q) \in Nat /\ q \in [1..Len(q) -> Intents]
          BY DueBatchesType DEF Due
    <2>3. tok \in [1..Len(q) -> Nat]
          BY OutboxAssumption DEF FreshTokens, OutboxAssumption
    <2>4. now + LeaseTime \in Nat
          BY OutboxAssumption DEF OutboxAssumption, TypeOK
    <2>5. row' \in [Intents -> RowType]
      <3>1. ASSUME NEW i \in Intents, NEW t \in Nat
            PROVE  Claimed(row[i], t) \in RowType
            BY <2>4, ClaimedType DEF TypeOK
      <3>2. ASSUME NEW i \in Intents, \E k \in 1..Len(q) : q[k] = i
            PROVE  tok[CHOOSE k \in 1..Len(q) : q[k] = i] \in Nat
            BY <2>2, <2>3, <3>2
      <3> QED BY <2>a, <3>1, <3>2 DEF TypeOK, Claim
    <2>6. [k \in 1..Len(q) |-> [id |-> q[k], tok |-> tok[k], exp |-> now + LeaseTime]]
            \in Seq(Lease)
          BY <2>2, <2>3, <2>4 DEF Lease
    <2>7. (IF Len(q) = 0 THEN "wait" ELSE "next") \in Idle
          BY DEF Idle, Phases
    <2>8. WorkersOK'
          BY <1>0, <2>a, <2>6, <2>7, BatchType DEF Claim
    <2> QED BY <1>4, <2>5, <2>8 DEF LeaseDue, TypeOK, WorkersOK
  <1>5. CASE NextLease(w)
    <2>1. row' \in [Intents -> RowType]
          BY <1>5, RecoveredType DEF NextLease, TypeOK
    <2>2. CASE \E pc \in {"release", "prepare"} : Goto(w, pc)
          BY <1>0, <1>5, <2>1, <2>2, GotoType DEF NextLease, TypeOK, WorkersOK, Phases
    <2>3. CASE wk' = [wk EXCEPT ![w].pc = "wait", ![w].batch = <<>>]
      <3>1. <<>> \in Seq(Lease)
            OBVIOUS
      <3>2. WorkersOK'
            BY <1>0, <2>3, <3>1, BatchType DEF Idle, Phases
      <3> QED BY <1>5, <2>1, <3>2 DEF NextLease, TypeOK, WorkersOK
    <2> QED BY <1>5, <2>2, <2>3 DEF NextLease
  <1>6. CASE BatchDone(w)
        BY <1>0, <1>6, GotoType DEF BatchDone, TypeOK, WorkersOK, Idle, Phases
  <1>7. CASE Poll(w)
        BY <1>0, <1>7, GotoType DEF Poll, TypeOK, WorkersOK, Idle, Phases
  <1>8. CASE RunReturns(w)
    <2>1. <<>> \in Seq(Lease)
          OBVIOUS
    <2>2. Down \in WorkerType
          BY <2>1 DEF Down, WorkerType, Phases
    <2>3. wk' \in [Workers -> WorkerType] /\ BatchShape'
          BY <1>8, <2>2 DEF RunReturns, TypeOK, WorkerType, BatchShape, Phases, Down
    <2> QED BY <1>8, <2>3 DEF RunReturns, Interrupted, TypeOK
  <1>9. CASE RunFails(w)
    <2>1. <<>> \in Seq(Lease)
          OBVIOUS
    <2>2. WorkersOK'
          BY <1>0, <1>9, <2>1, BatchType DEF RunFails, Idle, Phases
    <2> QED BY <1>9, <2>2 DEF RunFails, TypeOK, WorkersOK
  <1> QED BY <1>1, <1>2, <1>3, <1>4, <1>5, <1>6, <1>7, <1>8, <1>9

\* Its steps on a lease: before the call marker, the call, and the answer.
LEMMA TypeLease ==
    ASSUME TypeInv, NEW w \in Workers,
           \/ ReleaseUnavailable(w) \/ MarkNotDispatched(w) \/ RejectPreCall(w)
           \/ MarkTransportCalled(w) \/ Call(w) \/ Confirm(w) \/ AcceptWithoutID(w)
           \/ RecordSendError(w) \/ MutationFault(w) \/ ReleaseUntouched(w)
    PROVE  TypeInv'
  <1> USE DEF TypeInv, Tables, History
  <1>a. WorkersOK
        BY DEF WorkersOK, TypeOK
  <1>b. wk[w].batch # <<>>
        BY DEF BatchShape, At, ReleaseUnavailable, MarkNotDispatched, RejectPreCall,
               MarkTransportCalled, Call, Confirm, AcceptWithoutID, RecordSendError,
               MutationFault, ReleaseUntouched
  <1>c. Cur(w).id \in Intents /\ row[Cur(w).id] \in RowType
        BY <1>a, <1>b, CurType DEF TypeOK
  <1>d. ASSUME NEW st \in States, NEW next \in Nat
        PROVE  Freed(row[Cur(w).id], st, next) \in RowType
        BY <1>c, FreedType
  <1>e. /\ {"next", "release"} \subseteq Idle
        /\ {"queued", "not_dispatched", "rejected", "uncertain", "confirmed",
            "store_failed"} \subseteq States
        /\ Null \in Nat /\ now + RetryDelay \in Nat /\ TRUE \in BOOLEAN /\ FALSE \in BOOLEAN
        BY OutboxAssumption
        DEF Idle, Phases, States, Settled, Pending, Null, OutboxAssumption, TypeOK
  <1>1. CASE ReleaseUnavailable(w)
    <2>1. row' \in [Intents -> RowType] /\ WorkersOK'
          BY <1>1, <1>b, <1>d, <1>e, FinishType DEF ReleaseUnavailable
    <2> QED BY <1>1, <2>1 DEF ReleaseUnavailable, TypeOK, WorkersOK
  <1>2. CASE MarkNotDispatched(w)
    <2>1. row' \in [Intents -> RowType] /\ WorkersOK'
          BY <1>2, <1>b, <1>d, <1>e, FinishType DEF MarkNotDispatched
    <2> QED BY <1>2, <2>1 DEF MarkNotDispatched, TypeOK, WorkersOK
  <1>3. CASE RejectPreCall(w)
    <2>1. row' \in [Intents -> RowType] /\ WorkersOK'
          BY <1>3, <1>b, <1>d, <1>e, FinishType DEF RejectPreCall
    <2> QED BY <1>3, <2>1 DEF RejectPreCall, TypeOK, WorkersOK
  <1>4. CASE MarkTransportCalled(w)
    <2>1. CASE row' = [row EXCEPT ![Cur(w).id].called = TRUE] /\ Goto(w, "call")
      <3>1. WorkersOK'
            BY <1>a, <1>b, <2>1, GotoType DEF Phases
      <3>2. row' \in [Intents -> RowType]
            BY <1>c, <2>1 DEF TypeOK, RowType
      <3> QED BY <1>4, <3>1, <3>2 DEF MarkTransportCalled, TypeOK, WorkersOK
    <2>2. CASE row' = row /\ Advance(w, "release")
      <3>1. WorkersOK'
            BY <1>a, <1>b, <1>e, <2>2, AdvanceType
      <3> QED BY <1>4, <2>2, <3>1 DEF MarkTransportCalled, TypeOK, WorkersOK
    <2> QED BY <1>4, <2>1, <2>2 DEF MarkTransportCalled
  <1>5. CASE Call(w)
    <2>0. /\ accepted' \in {accepted, [accepted EXCEPT ![Cur(w).id] = @ + 1]}
          /\ denied' \in {denied, [denied EXCEPT ![Cur(w).id] = @ + 1]}
          BY <1>5 DEF Call
    <2>1. accepted' \in [Intents -> Nat] /\ denied' \in [Intents -> Nat]
          BY <2>0 DEF TypeOK
    <2>2. PICK a \in Answers : wk' = [wk EXCEPT ![w].pc = "answer", ![w].answer = a]
          BY <1>5 DEF Call, Answers
    <2>3. WorkersOK'
          BY <1>a, <1>b, <2>2 DEF WorkersOK, WorkerType, BatchShape, Phases
    <2> QED BY <1>5, <2>1, <2>3 DEF Call, TypeOK, WorkersOK
  <1>6. CASE Confirm(w)
    <2> DEFINE r == row[Cur(w).id]
    <2>1. wk[w].answer \in RemoteIDs
          BY <1>6 DEF Confirm
    <2>2. \E pc \in {"next", "release"} : Advance(w, pc)
          BY <1>6 DEF Confirm
    <2>3. WorkersOK'
          BY <1>a, <1>b, <1>e, <2>2, AdvanceType
    <2>4. /\ Confirmed(Freed(r, "confirmed", Null), wk[w].answer) \in RowType
          /\ [Freed(r, "store_failed", Null) EXCEPT !.result = wk[w].answer] \in RowType
          BY <1>d, <1>e, <2>1, ConfirmedType DEF RowType
    <2>5. row' \in [Intents -> RowType]
          BY <1>6, <1>c, <2>4 DEF Confirm, TypeOK
    <2>6. msg' \in [Intents -> RemoteIDs] /\ dup' \subseteq Intents
          BY <1>6, <1>c, <2>1, RepointType DEF Confirm, TypeOK
    <2> QED BY <1>6, <2>3, <2>5, <2>6 DEF Confirm, TypeOK, WorkersOK
  <1>7. CASE AcceptWithoutID(w)
    <2>1. (IF row[Cur(w).id].kind \in Messages THEN "uncertain" ELSE "confirmed") \in States
          BY <1>e
    <2>2. row' \in [Intents -> RowType] /\ WorkersOK'
          BY <1>7, <1>b, <1>d, <1>e, <2>1, FinishType DEF AcceptWithoutID
    <2> QED BY <1>7, <2>2 DEF AcceptWithoutID, TypeOK, WorkersOK
  <1>8. CASE RecordSendError(w)
    <2>1. PICK st \in {"uncertain", "rejected", "not_dispatched"}, next \in {Null, now + RetryDelay} :
            Finish(w, TRUE, Freed(row[Cur(w).id], st, next), "next")
          BY <1>8 DEF RecordSendError
    <2>2. row' \in [Intents -> RowType] /\ WorkersOK'
          BY <1>b, <1>d, <1>e, <2>1, FinishType
    <2> QED BY <1>8, <2>2 DEF RecordSendError, TypeOK, WorkersOK
  <1>9. CASE MutationFault(w)
    <2>1. WorkersOK'
          BY <1>9, <1>a, <1>b, <1>e, AdvanceType DEF MutationFault
    <2> QED BY <1>9, <2>1 DEF MutationFault, TypeOK, WorkersOK
  <1>10. CASE ReleaseUntouched(w)
    <2>1. WorkersOK'
          BY <1>10, <1>a, <1>b, <1>e, AdvanceType DEF ReleaseUntouched
    <2>2. row' \in [Intents -> RowType]
          BY <1>10, <1>c, <1>d, <1>e DEF ReleaseUntouched, TypeOK
    <2> QED BY <1>10, <2>1, <2>2 DEF ReleaseUntouched, TypeOK, WorkersOK
  <1> QED BY <1>1, <1>2, <1>3, <1>4, <1>5, <1>6, <1>7, <1>8, <1>9, <1>10

\* Everything that is not the dispatcher.
LEMMA TypeRest ==
    ASSUME TypeInv,
           \/ \E w \in Workers : Crash(w) \/ Shutdown(w)
           \/ \E w \in Workers, i \in Intents : SendAgainReads(w, i) \/ SendAgainEnqueues(w, i)
           \/ \E i \in Intents : UserStep(i) \/ EchoStep(i)
           \/ Tick
    PROVE  TypeInv'
  <1> USE DEF TypeInv, Tables, History
  <1>a. ASSUME NEW kind \in AllKinds, NEW sched \in Nat, NEW prev \in Intents \cup {NoIntent}
        PROVE  NewRow(kind, sched, prev) \in RowType
        BY DEF NewRow, Absent, RowType, Null, States, Pending
  <1>1. ASSUME NEW w \in Workers, Crash(w) \/ Shutdown(w) PROVE TypeInv'
    <2>1. <<>> \in Seq(Lease)
          OBVIOUS
    <2>2. Down \in WorkerType
          BY <2>1 DEF Down, WorkerType, Phases
    <2>3. CASE Crash(w)
      <3>1. wk' \in [Workers -> WorkerType] /\ BatchShape'
            BY <2>2, <2>3 DEF Crash, TypeOK, BatchShape, Down
      <3> QED BY <2>3, <3>1 DEF Crash, TypeOK, Interrupted
    <2>4. CASE Shutdown(w)
      <3>1. wk' \in [Workers -> WorkerType] /\ BatchShape'
            BY <2>4 DEF Shutdown, TypeOK, BatchShape, WorkerType
      <3> QED BY <2>4, <3>1 DEF Shutdown, TypeOK
    <2> QED BY <1>1, <2>3, <2>4
  <1>2. ASSUME NEW w \in Workers, NEW i \in Intents, SendAgainReads(w, i) PROVE TypeInv'
    <2>1. wk' \in [Workers -> WorkerType] /\ BatchShape'
          BY <1>2 DEF SendAgainReads, TypeOK, BatchShape, WorkerType
    <2> QED BY <1>2, <2>1 DEF SendAgainReads, TypeOK
  <1>3. ASSUME NEW w \in Workers, NEW i \in Intents, SendAgainEnqueues(w, i) PROVE TypeInv'
    <2>1. wk' \in [Workers -> WorkerType] /\ BatchShape'
          BY <1>3 DEF SendAgainEnqueues, TypeOK, BatchShape, WorkerType
    <2>2. wk[w].asked \in Intents /\ row[wk[w].asked].kind \in AllKinds /\ now \in Nat
          BY <1>3 DEF SendAgainEnqueues, TypeOK, WorkerType, RowType
    <2>3. row' \in [Intents -> RowType]
          BY <1>3, <1>a, <2>2 DEF SendAgainEnqueues, TypeOK
    <2> QED BY <1>3, <2>1, <2>3 DEF SendAgainEnqueues, TypeOK
  <1>4. ASSUME NEW i \in Intents, Enqueue(i) PROVE TypeInv'
    <2>1. PICK kind \in Kinds, sched \in now..(now + MaxDelay) :
            row' = [row EXCEPT ![i] = NewRow(kind, sched, NoIntent)]
          BY <1>4 DEF Enqueue
    <2>2. kind \in AllKinds /\ sched \in Nat
          BY OutboxAssumption DEF OutboxAssumption, TypeOK
    <2>3. row' \in [Intents -> RowType]
          BY <1>a, <2>1, <2>2 DEF TypeOK
    <2> QED BY <1>4, <2>3 DEF Enqueue, TypeOK, BatchShape
  <1>5. ASSUME NEW i \in Intents, Cancel(i) PROVE TypeInv'
    <2>1. ASSUME NEW r \in RowType
          PROVE  [r EXCEPT !.st = "canceled", !.next = Null] \in RowType
          BY DEF RowType, States, Settled, Null
    <2>2. row' = [row EXCEPT ![i] = [row[i] EXCEPT !.st = "canceled", !.next = Null]]
          BY <1>5 DEF Cancel, TypeOK
    <2>3. row' \in [Intents -> RowType]
          BY <2>1, <2>2 DEF TypeOK
    <2> QED BY <1>5, <2>3 DEF Cancel, TypeOK, BatchShape
  <1>6. ASSUME NEW i \in Intents, RetryNotDispatched(i) PROVE TypeInv'
    <2>1. row' \in [Intents -> RowType]
          BY <1>6 DEF RetryNotDispatched, TypeOK, RowType
    <2> QED BY <1>6, <2>1 DEF RetryNotDispatched, TypeOK, BatchShape
  <1>7. ASSUME NEW i \in Intents, RepairStoreFailed(i) PROVE TypeInv'
    <2>1. row[i].result \in RemoteIDs \cup {"none"}
          BY DEF TypeOK, RowType
    <2>2. row' \in [Intents -> RowType] /\ msg' \in [Intents -> RemoteIDs] /\ dup' \subseteq Intents
          BY <1>7, <2>1, ReconcileType DEF RepairStoreFailed
    <2> QED BY <1>7, <2>2 DEF RepairStoreFailed, TypeOK, BatchShape
  <1>8. ASSUME NEW i \in Intents, PinDuplicate(i) PROVE TypeInv'
        BY <1>8 DEF PinDuplicate, TypeOK, BatchShape
  <1>9. ASSUME NEW i \in Intents, EchoArrives(i) PROVE TypeInv'
        BY <1>9 DEF EchoArrives, TypeOK, BatchShape
  <1>10. ASSUME NEW i \in Intents, ObserveTransportEcho(i) PROVE TypeInv'
    <2>1. "real" \in RemoteIDs \cup {"none"}
          BY DEF RemoteIDs
    <2>2. row' \in [Intents -> RowType] /\ msg' \in [Intents -> RemoteIDs] /\ dup' \subseteq Intents
          BY <1>10, <2>1, ReconcileType DEF ObserveTransportEcho, TypeOK
    <2> QED BY <1>10, <2>2 DEF ObserveTransportEcho, TypeOK, BatchShape
  <1>11. ASSUME NEW i \in Intents, ProjectEcho(i) PROVE TypeInv'
        BY <1>11 DEF ProjectEcho, TypeOK, BatchShape
  <1>12. ASSUME Tick PROVE TypeInv'
        BY <1>12 DEF Tick, TypeOK, BatchShape
  <1> QED BY <1>1, <1>2, <1>3, <1>4, <1>5, <1>6, <1>7, <1>8, <1>9, <1>10, <1>11, <1>12
      DEF UserStep, EchoStep

\* The empty tables and the processes that are down have the right types.
LEMMA InitType == Init => TypeInv
  <1>1. SUFFICES ASSUME Init PROVE TypeInv
        OBVIOUS
  <1>2. <<>> \in Seq(Lease)
        OBVIOUS
  <1>3. Down \in WorkerType /\ Absent \in RowType
        BY <1>2 DEF Down, WorkerType, Phases, Absent, RowType, AllKinds, Null
  <1> QED BY <1>1, <1>3 DEF Init, TypeInv, TypeOK, BatchShape, Down, RemoteIDs

\* Every table and every process keeps its type, and a process inside a call
\* always knows which lease it is calling for.
THEOREM TypeCorrect == Spec => []TypeInv
  <1>1. Init => TypeInv
        BY InitType
  <1>2. TypeInv /\ [Next]_vars => TypeInv'
    <2>1. SUFFICES ASSUME TypeInv, [Next]_vars PROVE TypeInv'
          OBVIOUS
    <2>2. CASE UNCHANGED vars
          BY <2>1, <2>2 DEF vars, TypeInv, TypeOK, BatchShape
    <2>3. CASE Next
          BY <2>1, <2>3, TypeLoop, TypeLease, TypeRest DEF Next, DispatcherStep
    <2> QED BY <2>1, <2>2, <2>3
  <1> QED BY <1>1, <1>2, PTL DEF Spec

\* TypeOK for every instance.
THEOREM TypesHold == Spec => []TypeOK
  <1>1. TypeInv => TypeOK
        BY DEF TypeInv
  <1> QED BY <1>1, TypeCorrect, PTL

-----------------------------------------------------------------------------
(* At most one delivery *)

\* An intent that an adapter denied: never a text, and media only in a row that
\* keeps an acceptance, or is refused.
DeniedRow(r) ==
    /\ r.st # "absent" /\ r.kind # "text"
    /\ r.kind = "media" => Kept(r) \/ r.st = "rejected"
DenialsKept == \A i \in Intents : denied[i] > 0 => DeniedRow(row[i])

\* "At most once" is not inductive: it needs to know what calls are open, that
\* each is behind a marked row, that no two are for one intent, and where an
\* intent is that its adapter denied.
SafeInv ==
    /\ TypeInv /\ CallsInv /\ DenialsKept
    /\ AtMostOnceAccepted /\ AcceptedNeverForgotten /\ NoFalseConfirm

\* No process enters a call or changes the one it is in.
NoNewCalls == \A v \in Workers : Engaged(v)' =>
    /\ Engaged(v) /\ Cur(v)' = Cur(v)
    /\ wk'[v].pc = wk[v].pc /\ wk'[v].answer = wk[v].answer

\* What a step may do to one row while the transport is idle.
RowSafe(i) ==
    /\ accepted[i] > 0 => Kept(row'[i])
    /\ denied[i] > 0 => DeniedRow(row'[i])
    /\ row'[i].kind = row[i].kind \/ Taken(i) = 0
    /\ row'[i].st \in {"confirmed", "store_failed"} => accepted[i] > 0 \/ MayEcho(i)
    /\ \A v \in Workers : Engaged(v)' /\ Cur(v).id = i => InFlight(row'[i])

\* The counts of an intent, and what a denial says of its kind.
LEMMA Counts ==
    ASSUME SafeInv, NEW i \in Intents
    PROVE  /\ accepted[i] \in Nat /\ denied[i] \in Nat /\ row[i] \in RowType
           /\ row[i].kind \in AllKinds
           /\ Taken(i) = 0 <=> accepted[i] = 0 /\ denied[i] = 0
           /\ Taken(i) > 0 <=> accepted[i] > 0 \/ denied[i] > 0
           /\ MayEcho(i) <=> row[i].kind \in Messages /\ (accepted[i] > 0 \/ denied[i] > 0)
           /\ accepted[i] > 0 => Kept(row[i])
           /\ denied[i] > 0 => DeniedRow(row[i])
  BY DEF SafeInv, TypeInv, TypeOK, RowType, Taken, MayEcho, AcceptedNeverForgotten,
         DenialsKept

\* A step without a transport event keeps the invariant if it is safe for
\* every row and starts no call.
LEMMA Frame ==
    ASSUME SafeInv, TypeInv', NoNewCalls, UNCHANGED <<accepted, denied>>,
           \A i \in Intents : echo'[i] # "none" => MayEcho(i),
           \A i \in Intents : RowSafe(i)
    PROVE  SafeInv'
  <1>b. ASSUME NEW i \in Intents
        PROVE  /\ Taken(i)' = Taken(i) /\ row'[i].kind \in AllKinds
               /\ Taken(i) = 0 <=> accepted[i] = 0 /\ denied[i] = 0
               /\ row'[i].kind = row[i].kind => MayEcho(i)' = MayEcho(i)
               /\ accepted[i] > 0 \/ MayEcho(i) => row'[i].kind = row[i].kind
    <2>1. Taken(i)' = Taken(i) /\ row'[i].kind \in AllKinds
          BY DEF Taken, TypeInv, TypeOK, RowType
    <2>2. row'[i].kind = row[i].kind \/ Taken(i) = 0
          BY DEF RowSafe
    <2> QED BY <2>1, <2>2, Counts DEF MayEcho
  <1> USE DEF SafeInv, CallsInv
  <1>a. ASSUME NEW v \in Workers, Engaged(v)'
        PROVE  Engaged(v) /\ Cur(v)' = Cur(v) /\ Cur(v).id \in Intents
    <2>1. wk \in [Workers -> WorkerType] /\ BatchShape
          BY DEF TypeInv, TypeOK
    <2>2. Engaged(v) /\ Cur(v)' = Cur(v)
          BY <1>a DEF NoNewCalls
    <2>3. wk[v].batch # <<>>
          BY <2>1, <2>2 DEF BatchShape, Engaged
    <2> QED BY <2>1, <2>2, <2>3, CurType DEF WorkersOK
  <1>1. CallsAreMarked'
        BY <1>a DEF CallsAreMarked, RowSafe
  <1>2. CallsAreAlone'
        BY <1>a DEF CallsAreAlone
  <1>3. AnswersAreTrue'
    <2> SUFFICES ASSUME NEW v \in Workers, Engaged(v)'
                 PROVE  /\ At(v, "call")' \/ (At(v, "answer")' /\ wk'[v].answer \in {"refused", "not_called"})
                              => accepted[Cur(v).id] = 0
                        /\ (At(v, "call")' \/ (At(v, "answer")' /\ wk'[v].answer = "not_called"))
                              /\ row'[Cur(v).id].kind \in Messages => Taken(Cur(v).id) = 0
                        /\ At(v, "answer")' /\ wk'[v].answer \in {"real", "request", "empty"}
                              => accepted[Cur(v).id] > 0
        BY <1>a, <1>b DEF AnswersAreTrue, Engaged, At
    <2>1. /\ Cur(v).id \in Intents /\ wk'[v].pc = wk[v].pc /\ wk'[v].answer = wk[v].answer
          /\ row'[Cur(v).id].kind = row[Cur(v).id].kind \/ Taken(Cur(v).id) = 0
          BY <1>a DEF NoNewCalls, RowSafe
    <2> QED BY <2>1 DEF AnswersAreTrue, At
  <1>4. EchoesAreTrue'
        BY <1>b DEF EchoesAreTrue
  <1>5. DenialsKept' /\ NoFalseConfirm'
        BY <1>b DEF DenialsKept, NoFalseConfirm, RowSafe
  <1>6. AtMostOnceAccepted'
    <2> SUFFICES ASSUME NEW i \in Intents
                 PROVE  accepted[i] <= 1 /\ (row'[i].kind \in Messages => Taken(i) <= 1)
        BY <1>b DEF AtMostOnceAccepted
    <2> QED BY DEF AtMostOnceAccepted, RowSafe
  <1>7. AcceptedNeverForgotten'
        BY <1>b DEF AcceptedNeverForgotten, RowSafe, DeniedRow, Messages
  <1> QED BY <1>1, <1>2, <1>3, <1>4, <1>5, <1>6, <1>7

\* A row that a step leaves alone is safe.
LEMMA SameRowSafe ==
    ASSUME SafeInv, NoNewCalls, NEW i \in Intents, row'[i] = row[i]
    PROVE  RowSafe(i)
  BY Counts DEF SafeInv, CallsInv, RowSafe, NoNewCalls, NoFalseConfirm, CallsAreMarked

\* So is one that was open, as long as it is not declared sent.
LEMMA OpenRowSafe ==
    ASSUME SafeInv, NoNewCalls, NEW i \in Intents,
           ~Kept(row[i]), row[i].st # "rejected",
           row'[i].st \notin {"absent", "confirmed", "store_failed"},
           row'[i].kind = row[i].kind \/ row[i].st = "absent"
    PROVE  RowSafe(i)
  <1>1. ~(accepted[i] > 0)
        BY Counts
  <1>2. ASSUME NEW v \in Workers, Engaged(v)', Cur(v).id = i PROVE FALSE
        BY <1>2 DEF SafeInv, CallsInv, NoNewCalls, CallsAreMarked, InFlight, Kept
  <1>3. denied[i] > 0 => row[i].kind \notin {"text", "media"} /\ row[i].st # "absent"
        BY Counts DEF DeniedRow
  <1>4. denied[i] > 0 => DeniedRow(row'[i])
        BY <1>3 DEF DeniedRow
  <1>5. row'[i].kind = row[i].kind \/ Taken(i) = 0
        BY <1>1, <1>3, Counts
  <1> QED BY <1>1, <1>2, <1>4, <1>5 DEF RowSafe

\* And one that keeps what it kept.
LEMMA KeptRowSafe ==
    ASSUME SafeInv, NoNewCalls, NEW i \in Intents, Kept(row'[i]), InFlight(row'[i]),
           row'[i].kind = row[i].kind,
           row'[i].st \in {"confirmed", "store_failed"} => accepted[i] > 0 \/ MayEcho(i)
    PROVE  RowSafe(i)
  <1>1. denied[i] > 0 => DeniedRow(row'[i])
        BY Counts DEF DeniedRow, Kept
  <1> QED BY <1>1 DEF RowSafe

\* And one that recovery finds expired.
LEMMA RecoveredRowSafe ==
    ASSUME SafeInv, NoNewCalls, NEW i \in Intents, row'[i] = Recovered[i]
    PROVE  RowSafe(i)
  <1>1. CASE row'[i] = row[i]
        BY <1>1, SameRowSafe
  <1>2. CASE row[i].st = "dispatching" /\ row[i].called
    <2>1. row'[i] = row[i] \/ (row'[i].st = "uncertain" /\ row'[i].kind = row[i].kind)
      <3>1. row[i] \in RowType
            BY DEF SafeInv, TypeInv, TypeOK
      <3> QED BY <1>2, <3>1 DEF Recovered, Freed, RowType
    <2>2. CASE row'[i].st = "uncertain" /\ row'[i].kind = row[i].kind
          BY <1>2, <2>2, KeptRowSafe DEF Kept, InFlight
    <2> QED BY <1>1, <2>1, <2>2
  <1>3. CASE row[i].st = "dispatching" /\ ~row[i].called
    <2>1. row'[i] = row[i] \/ (row'[i].st = "not_dispatched" /\ row'[i].kind = row[i].kind)
      <3>1. row[i] \in RowType
            BY DEF SafeInv, TypeInv, TypeOK
      <3> QED BY <1>3, <3>1 DEF Recovered, Freed, RowType
    <2> QED BY <1>1, <1>3, <2>1, OpenRowSafe DEF Kept
  <1>4. CASE row[i].st # "dispatching"
        BY <1>1, <1>4 DEF Recovered
  <1> QED BY <1>1, <1>2, <1>3, <1>4

\* The echo table only loses frames.
LEMMA InterruptedTrue ==
    ASSUME SafeInv, NEW i \in Intents, echo' = Interrupted, echo'[i] # "none"
    PROVE  MayEcho(i)
  BY DEF SafeInv, CallsInv, EchoesAreTrue, Interrupted

\* A process that moves to a phase outside calls starts none.
LEMMA QuietMove ==
    ASSUME NEW w \in Workers, \A v \in Workers \ {w} : wk'[v] = wk[v],
           wk'[w].pc \notin {"call", "answer"}
    PROVE  NoNewCalls
  BY DEF NoNewCalls, Engaged, Cur

\* A step that moves no process starts no call.
LEMMA StillQuiet ==
    ASSUME UNCHANGED wk PROVE NoNewCalls
  BY DEF NoNewCalls, Engaged, Cur

\* Nor does one that moves a process to a phase outside calls ...
LEMMA GotoQuiet ==
    ASSUME TypeInv, NEW w \in Workers, NEW pc, pc \notin {"call", "answer"}, Goto(w, pc)
    PROVE  NoNewCalls
  BY QuietMove DEF Goto, TypeInv, TypeOK, WorkerType

\* ... or done with the head of its batch.
LEMMA AdvanceQuiet ==
    ASSUME TypeInv, NEW w \in Workers, NEW pc, pc \notin {"call", "answer"}, Advance(w, pc)
    PROVE  NoNewCalls
  BY QuietMove DEF Advance, TypeInv, TypeOK, WorkerType

\* ... or that drops its batch.
LEMMA DropQuiet ==
    ASSUME TypeInv, NEW w \in Workers, NEW pc, pc \notin {"call", "answer"}, NEW b,
           wk' = [wk EXCEPT ![w].pc = pc, ![w].batch = b]
    PROVE  NoNewCalls
  BY QuietMove DEF TypeInv, TypeOK, WorkerType

\* The dispatcher's steps outside a call.
LEMMA SafeLoop ==
    ASSUME SafeInv, TypeInv', NEW w \in Workers,
           \/ Start(w) \/ RecoverOnStart(w) \/ RepairStoreFailedDue(w) \/ LeaseDue(w)
           \/ NextLease(w) \/ BatchDone(w) \/ Poll(w) \/ RunReturns(w) \/ RunFails(w)
    PROVE  SafeInv'
  <1> USE DEF Tables, History
  <1>a. TypeInv /\ wk \in [Workers -> WorkerType]
        BY DEF SafeInv, TypeInv, TypeOK
  <1>b. ASSUME NoNewCalls, UNCHANGED <<row, accepted, denied>>, echo' \in {echo, Interrupted}
        PROVE  SafeInv'
    <2>1. \A i \in Intents : RowSafe(i)
          BY <1>b, SameRowSafe
    <2>2. \A i \in Intents : echo'[i] # "none" => MayEcho(i)
          BY <1>b, InterruptedTrue DEF SafeInv, CallsInv, EchoesAreTrue
    <2> QED BY <1>b, <2>1, <2>2, Frame
  <1>c. ASSUME NoNewCalls, UNCHANGED <<accepted, denied, echo>>, \A i \in Intents : RowSafe(i)
        PROVE  SafeInv'
    <2>1. \A i \in Intents : echo'[i] # "none" => MayEcho(i)
          BY <1>c DEF SafeInv, CallsInv, EchoesAreTrue
    <2> QED BY <1>c, <2>1, Frame
  <1>1. CASE Start(w) \/ BatchDone(w) \/ Poll(w)
    <2>1. NoNewCalls
          BY <1>1, <1>a, GotoQuiet DEF Start, BatchDone, Poll
    <2> QED BY <1>1, <1>b, <2>1 DEF Start, BatchDone, Poll
  <1>2. CASE RecoverOnStart(w)
    <2>1. NoNewCalls
          BY <1>2, <1>a, GotoQuiet DEF RecoverOnStart
    <2>2. \A i \in Intents : RowSafe(i)
          BY <1>2, <2>1, RecoveredRowSafe DEF RecoverOnStart
    <2> QED BY <1>2, <1>c, <2>1, <2>2 DEF RecoverOnStart
  <1>3. CASE RepairStoreFailedDue(w)
    <2>1. NoNewCalls
          BY <1>3, <1>a, GotoQuiet DEF RepairStoreFailedDue
    <2>2. PICK S \in SUBSET {i \in Intents : row[i].st = "store_failed"} :
            row' = [i \in Intents |->
                      IF i \in S THEN Confirmed(row[i], row[i].result) ELSE row[i]]
          BY <1>3 DEF RepairStoreFailedDue
    <2>3. ASSUME NEW i \in S PROVE RowSafe(i)
      <3>1. row[i] \in RowType /\ row[i].st = "store_failed"
            BY <1>a DEF TypeInv, TypeOK
      <3>2. row'[i].st = "confirmed" /\ row'[i].kind = row[i].kind
            BY <2>2, <3>1 DEF Confirmed, RowType
      <3>3. accepted[i] > 0 \/ MayEcho(i)
            BY <3>1 DEF SafeInv, NoFalseConfirm
      <3> QED BY <2>1, <3>2, <3>3, KeptRowSafe DEF Kept, InFlight
    <2>4. \A i \in Intents : RowSafe(i)
          BY <2>1, <2>2, <2>3, SameRowSafe
    <2> QED BY <1>3, <1>c, <2>1, <2>4 DEF RepairStoreFailedDue
  <1>4. CASE LeaseDue(w)
    <2>1. PICK q \in DueBatches : \E tok \in FreshTokens(Len(q)) : Claim(w, q, tok)
          BY <1>4 DEF LeaseDue
    <2>2. PICK tok \in FreshTokens(Len(q)) : Claim(w, q, tok)
          BY <2>1
    <2>3. Len(q) \in Nat /\ q \in [1..Len(q) -> Due]
          BY DueBatchesType
    <2>4. NoNewCalls
          BY <1>a, <2>2, QuietMove DEF Claim, WorkerType
    <2>5. ASSUME NEW i \in Intents PROVE RowSafe(i)
      <3>1. CASE \E k \in 1..Len(q) : q[k] = i
        <4>1. row[i] \in RowType /\ row[i].st \in Pending
              BY <1>a, <2>3, <3>1 DEF TypeInv, TypeOK, Due
        <4>2. row'[i].st = "dispatching" /\ row'[i].kind = row[i].kind
              BY <2>2, <3>1, <4>1 DEF Claim, Claimed, RowType
        <4> QED BY <2>4, <4>1, <4>2, OpenRowSafe DEF Kept, Pending
      <3>2. CASE ~\E k \in 1..Len(q) : q[k] = i
            BY <2>2, <2>4, <3>2, SameRowSafe DEF Claim
      <3> QED BY <3>1, <3>2
    <2> QED BY <1>4, <1>c, <2>4, <2>5 DEF LeaseDue
  <1>5. CASE NextLease(w)
    <2>0. Goto(w, "release") \/ Goto(w, "prepare")
            \/ wk' = [wk EXCEPT ![w].pc = "wait", ![w].batch = <<>>]
          BY <1>5 DEF NextLease
    <2>1. NoNewCalls
          BY <1>a, <2>0, GotoQuiet, DropQuiet
    <2>2. \A i \in Intents : RowSafe(i)
          BY <1>5, <2>1, RecoveredRowSafe, SameRowSafe DEF NextLease
    <2> QED BY <1>5, <1>c, <2>1, <2>2 DEF NextLease
  <1>6. CASE RunReturns(w)
    <2>1. NoNewCalls
          BY <1>6, <1>a, QuietMove DEF RunReturns, Down, WorkerType
    <2> QED BY <1>6, <1>b, <2>1 DEF RunReturns
  <1>7. CASE RunFails(w)
    <2>1. NoNewCalls
          BY <1>7, <1>a, QuietMove DEF RunFails, WorkerType
    <2> QED BY <1>7, <1>b, <2>1 DEF RunFails
  <1> QED BY <1>1, <1>2, <1>3, <1>4, <1>5, <1>6, <1>7

-----------------------------------------------------------------------------
(* The steps on a lease *)

\* A process in a call is with an intent of the outbox.
LEMMA EngagedIntent ==
    ASSUME TypeInv, NEW w \in Workers, wk[w].pc \in {"prepare", "call", "answer"}
    PROVE  wk[w].batch # <<>> /\ Cur(w).id \in Intents /\ row[Cur(w).id] \in RowType
  <1>1. wk[w].batch # <<>> /\ WorkersOK
        BY DEF TypeInv, TypeOK, BatchShape, WorkersOK
  <1> QED BY <1>1, CurType DEF TypeInv, TypeOK

\* An update of a row before its call marker is safe if it declares nothing sent.
LEMMA FinishUncalled ==
    ASSUME SafeInv, TypeInv', NEW w \in Workers, NEW new, NEW pc,
           new.st \notin {"absent", "confirmed", "store_failed"},
           new.kind = row[Cur(w).id].kind, pc \notin {"call", "answer"},
           Finish(w, FALSE, new, pc), UNCHANGED <<accepted, denied, echo>>
    PROVE  SafeInv'
  <1>1. NoNewCalls
        BY AdvanceQuiet DEF Finish, SafeInv
  <1>2. ASSUME NEW i \in Intents PROVE RowSafe(i)
    <2>1. row \in [Intents -> RowType]
          BY DEF SafeInv, TypeInv, TypeOK
    <2>2. CASE row'[i] = row[i]
          BY <1>1, <2>2, SameRowSafe
    <2>3. CASE row'[i] # row[i]
      <3>1. row[i].st = "dispatching" /\ ~row[i].called /\ row'[i] = new /\ i = Cur(w).id
            BY <2>1, <2>3 DEF Finish, Holds
      <3> QED BY <1>1, <3>1, OpenRowSafe DEF Kept
    <2> QED BY <2>2, <2>3
  <1>3. \A i \in Intents : echo'[i] # "none" => MayEcho(i)
        BY DEF SafeInv, CallsInv, EchoesAreTrue
  <1> QED BY <1>1, <1>2, <1>3, Frame

\* So is one that only frees it.
LEMMA FreedUncalled ==
    ASSUME SafeInv, TypeInv', NEW w \in Workers, wk[w].pc = "prepare",
           NEW st \in {"queued", "not_dispatched", "rejected"}, NEW next, NEW pc,
           pc \notin {"call", "answer"},
           Finish(w, FALSE, Freed(row[Cur(w).id], st, next), pc),
           UNCHANGED <<accepted, denied, echo>>
    PROVE  SafeInv'
  <1> DEFINE new == Freed(row[Cur(w).id], st, next)
  <1>1. row[Cur(w).id] \in RowType
        BY EngagedIntent DEF SafeInv
  <1>2. new.st = st /\ new.kind = row[Cur(w).id].kind
        BY <1>1 DEF Freed, RowType
  <1> HIDE DEF new
  <1>3. Finish(w, FALSE, new, pc)
        BY DEF new
  <1> QED BY <1>2, <1>3, FinishUncalled

\* A step of a process outside calls that touches no row is safe.
LEMMA AdvanceSafe ==
    ASSUME SafeInv, TypeInv', NEW w \in Workers, NEW pc, pc \notin {"call", "answer"},
           Advance(w, pc), UNCHANGED <<row, accepted, denied, echo>>
    PROVE  SafeInv'
  <1>1. NoNewCalls
        BY AdvanceQuiet DEF SafeInv
  <1>2. \A i \in Intents : RowSafe(i)
        BY <1>1, SameRowSafe
  <1>3. \A i \in Intents : echo'[i] # "none" => MayEcho(i)
        BY DEF SafeInv, CallsInv, EchoesAreTrue
  <1> QED BY <1>1, <1>2, <1>3, Frame

\* A verdict that keeps what was denied, or refuses it, is fit for a denial.
LEMMA DenialFits ==
    ASSUME SafeInv, NEW c \in Intents, NEW new, new.kind = row[c].kind,
           Kept(new) \/ new.st = "rejected", denied[c] > 0
    PROVE  DeniedRow(new)
  BY Counts DEF DeniedRow, Kept

\* A process records the verdict of its call: safe if the row keeps an
\* acceptance, is fit for a denial and is shown as sent only after either.
LEMMA VerdictSafe ==
    ASSUME SafeInv, TypeInv', NEW w \in Workers, At(w, "answer"), NEW new,
           row' = [row EXCEPT ![Cur(w).id] = new], Advance(w, "next"),
           UNCHANGED <<accepted, denied, echo>>,
           accepted[Cur(w).id] > 0 => Kept(new), new.kind = row[Cur(w).id].kind,
           denied[Cur(w).id] > 0 => DeniedRow(new),
           new.st \in {"confirmed", "store_failed"} => accepted[Cur(w).id] > 0
    PROVE  SafeInv'
  <1> DEFINE c == Cur(w).id
  <1>a. c \in Intents /\ Engaged(w)
        BY EngagedIntent DEF SafeInv, At, Engaged
  <1>b. NoNewCalls
        BY AdvanceQuiet DEF SafeInv
  <1>c. wk'[w].pc = "next"
        BY DEF SafeInv, Advance, TypeInv, TypeOK, WorkerType
  <1>1. NoNewCalls /\ ~Engaged(w)'
        BY <1>b, <1>c DEF Engaged
  <1>2. ASSUME NEW i \in Intents PROVE RowSafe(i)
    <2>1. row \in [Intents -> RowType]
          BY DEF SafeInv, TypeInv, TypeOK
    <2>2. CASE i # c
          BY <1>1, <2>1, <2>2, SameRowSafe
    <2>3. CASE i = c
      <3>1. row'[i] = new
            BY <1>a, <2>1, <2>3
      <3>2. ASSUME NEW v \in Workers, Engaged(v)', Cur(v).id = i PROVE FALSE
        <4>1. v # w /\ Engaged(v)
              BY <1>1, <3>2 DEF NoNewCalls
        <4> QED BY <1>a, <2>3, <3>2, <4>1 DEF SafeInv, CallsInv, CallsAreAlone
      <3> QED BY <2>3, <3>1, <3>2 DEF RowSafe
    <2> QED BY <2>2, <2>3
  <1>3. \A i \in Intents : echo'[i] # "none" => MayEcho(i)
        BY DEF SafeInv, CallsInv, EchoesAreTrue
  <1> QED BY <1>1, <1>2, <1>3, Frame

\* The call marker is committed: the call that starts is the only one, and
\* nothing has been accepted for its intent.
LEMMA SafeMark ==
    ASSUME SafeInv, TypeInv', NEW w \in Workers, MarkTransportCalled(w)
    PROVE  SafeInv'
  <1> DEFINE c == Cur(w).id
  <1> USE DEF Tables, History
  <1>a. At(w, "prepare") /\ c \in Intents /\ row[c] \in RowType
        BY EngagedIntent DEF SafeInv, At, MarkTransportCalled
  <1>1. CASE row' = row /\ Advance(w, "release")
        BY <1>1, AdvanceSafe DEF MarkTransportCalled
  <1>2. CASE /\ Holds(c, Cur(w).tok) /\ ~row[c].called
             /\ row' = [row EXCEPT ![c].called = TRUE] /\ Goto(w, "call")
    <2>1. /\ row[c].st = "dispatching" /\ ~row[c].called
          /\ row'[c].st = "dispatching" /\ row'[c].called /\ row'[c].kind = row[c].kind
          /\ \A i \in Intents \ {c} : row'[i] = row[i]
      <3>1. row \in [Intents -> RowType]
            BY DEF SafeInv, TypeInv, TypeOK
      <3> QED BY <1>2, <1>a, <3>1 DEF Holds, RowType
    <2>2. /\ wk'[w].pc = "call" /\ wk'[w].batch = wk[w].batch
          /\ \A v \in Workers \ {w} : wk'[v] = wk[v]
          BY <1>2 DEF Goto, SafeInv, TypeInv, TypeOK, WorkerType
    <2>3. accepted[c] = 0 /\ (row[c].kind \in Messages => Taken(c) = 0)
          BY <1>a, <2>1, Counts DEF Kept, DeniedRow, Messages
    <2>4. \A v \in Workers : Engaged(v) => Cur(v).id # c
          BY <2>1 DEF SafeInv, CallsInv, CallsAreMarked, InFlight
    <2>5. UNCHANGED <<accepted, denied, echo>>
          BY DEF MarkTransportCalled
    <2>6. ASSUME NEW v \in Workers, Engaged(v)'
          PROVE  /\ Cur(v)' = Cur(v) /\ Cur(v).id \in Intents
                 /\ v # w => Engaged(v) /\ Cur(v).id # c /\ wk'[v] = wk[v]
      <3>1. CASE v = w
            BY <1>a, <2>2, <3>1 DEF Cur
      <3>2. CASE v # w
        <4>1. Engaged(v) /\ wk'[v] = wk[v]
              BY <2>2, <2>6, <3>2 DEF Engaged
        <4> QED BY <2>4, <4>1, EngagedIntent DEF Cur, Engaged, SafeInv
      <3> QED BY <3>1, <3>2
    <2>a. ASSUME NEW i \in Intents
          PROVE  /\ Taken(i)' = Taken(i) /\ row'[i].kind = row[i].kind
                 /\ MayEcho(i)' = MayEcho(i)
          BY <2>1, <2>5 DEF Taken, MayEcho
    <2>7. CallsAreMarked'
          BY <2>1, <2>6 DEF CallsAreMarked, InFlight, SafeInv, CallsInv
    <2>8. CallsAreAlone'
          BY <2>6 DEF CallsAreAlone, SafeInv, CallsInv
    <2>9. AnswersAreTrue'
          BY <2>2, <2>3, <2>5, <2>6, <2>a DEF AnswersAreTrue, At, Engaged, SafeInv, CallsInv
    <2>10. EchoesAreTrue' /\ AtMostOnceAccepted'
          BY <2>5, <2>a DEF EchoesAreTrue, AtMostOnceAccepted, SafeInv, CallsInv
    <2>11. NoFalseConfirm' /\ AcceptedNeverForgotten'
          BY <2>1, <2>5, <2>a DEF AcceptedNeverForgotten, NoFalseConfirm, SafeInv, Kept
    <2>12. DenialsKept'
          BY <2>1, <2>5 DEF DenialsKept, DeniedRow, Kept, SafeInv
    <2> QED BY <2>7, <2>8, <2>9, <2>10, <2>11, <2>12 DEF SafeInv, CallsInv
  <1> QED BY <1>1, <1>2 DEF MarkTransportCalled

\* The transport answers: it may accept a message, once.
LEMMA SafeCall ==
    ASSUME SafeInv, TypeInv', NEW w \in Workers, Call(w)
    PROVE  SafeInv'
  <1> DEFINE c == Cur(w).id
  <1> USE DEF Tables, History
  <1>a. /\ At(w, "call") /\ c \in Intents /\ Engaged(w)
        /\ accepted \in [Intents -> Nat] /\ denied \in [Intents -> Nat]
        BY EngagedIntent DEF SafeInv, At, Call, Engaged, TypeInv, TypeOK
  <1>b. accepted[c] = 0 /\ (row[c].kind \in Messages => denied[c] = 0)
        BY <1>a, Counts DEF SafeInv, CallsInv, AnswersAreTrue
  <1>c. UNCHANGED <<row, echo>>
        BY DEF Call
  <1>1. PICK a \in Answers :
          /\ wk' = [wk EXCEPT ![w].pc = "answer", ![w].answer = a]
          /\ \/ /\ accepted' = [accepted EXCEPT ![c] = @ + 1] /\ denied' = denied
                /\ a \notin {"refused", "not_called"}
             \/ accepted' = accepted /\ denied' = denied /\ a \in {"refused", "not_called", "unknown"}
             \/ /\ accepted' = accepted /\ denied' = [denied EXCEPT ![c] = @ + 1]
                /\ a \in Denials(c)
        BY DEF Call, Acceptances
  <1>2. /\ wk'[w].pc = "answer" /\ wk'[w].answer = a /\ wk'[w].batch = wk[w].batch
        /\ \A v \in Workers \ {w} : wk'[v] = wk[v]
        BY <1>1 DEF SafeInv, TypeInv, TypeOK, WorkerType
  <1>d. a \in Denials(c) =>
          /\ row[c].kind # "text" /\ a \in {"refused", "not_called"}
          /\ row[c].kind = "media" => a = "refused"
        BY DEF Denials
  <1>3. /\ accepted' \in [Intents -> Nat] /\ denied' \in [Intents -> Nat]
        /\ \A i \in Intents \ {c} : accepted'[i] = accepted[i] /\ denied'[i] = denied[i]
        /\ accepted'[c] <= 1
        /\ row[c].kind \in Messages => accepted'[c] + denied'[c] <= 1
        /\ denied'[c] > denied[c] => row[c].kind # "text"
        /\ a \in {"refused", "not_called"} => accepted'[c] = 0
        /\ a = "not_called" /\ row[c].kind \in Messages => denied'[c] = 0
        /\ a \in {"real", "request", "empty"} => accepted'[c] > 0
    <2>1. CASE accepted' = [accepted EXCEPT ![c] = @ + 1] /\ denied' = denied
                /\ a \notin {"refused", "not_called"}
          BY <1>a, <1>b, <2>1
    <2>2. CASE accepted' = accepted /\ denied' = denied /\ a \in {"refused", "not_called", "unknown"}
          BY <1>a, <1>b, <2>2
    <2>3. CASE accepted' = accepted /\ denied' = [denied EXCEPT ![c] = @ + 1] /\ a \in Denials(c)
          BY <1>a, <1>b, <1>d, <2>3 DEF Messages
    <2> QED BY <1>1, <2>1, <2>2, <2>3
  <1>e. ASSUME NEW i \in Intents
        PROVE  /\ Taken(i)' = accepted'[i] + denied'[i] /\ Taken(i) = accepted[i] + denied[i]
               /\ accepted[i] > 0 => accepted'[i] > 0
               /\ MayEcho(i) => MayEcho(i)'
               /\ i # c => Taken(i)' = Taken(i)
    <2>1. accepted'[c] >= accepted[c] /\ denied'[c] >= denied[c]
          BY <1>1, <1>a
    <2> QED BY <1>3, <1>a, <1>c, <2>1 DEF Taken, MayEcho
  <1>4. ASSUME NEW v \in Workers, Engaged(v)'
        PROVE  /\ Engaged(v) /\ Cur(v)' = Cur(v) /\ Cur(v).id \in Intents
               /\ v # w => Cur(v).id # c /\ wk'[v] = wk[v]
    <2>1. Engaged(v) /\ Cur(v)' = Cur(v) /\ (v # w => wk'[v] = wk[v])
          BY <1>2, <1>4, <1>a DEF Engaged, Cur
    <2>2. Cur(v).id \in Intents
          BY <2>1, EngagedIntent DEF Engaged, SafeInv
    <2> QED BY <1>a, <2>1, <2>2 DEF SafeInv, CallsInv, CallsAreAlone
  <1>5. CallsAreMarked' /\ CallsAreAlone'
        BY <1>4, <1>c DEF CallsAreMarked, CallsAreAlone, SafeInv, CallsInv
  <1>6. AnswersAreTrue'
    <2> SUFFICES ASSUME NEW v \in Workers, Engaged(v)'
                 PROVE  /\ At(v, "call")' \/ (At(v, "answer")' /\ wk'[v].answer \in {"refused", "not_called"})
                              => accepted'[Cur(v).id] = 0
                        /\ (At(v, "call")' \/ (At(v, "answer")' /\ wk'[v].answer = "not_called"))
                              /\ row[Cur(v).id].kind \in Messages => Taken(Cur(v).id)' = 0
                        /\ At(v, "answer")' /\ wk'[v].answer \in {"real", "request", "empty"}
                              => accepted'[Cur(v).id] > 0
        BY <1>4, <1>c DEF AnswersAreTrue, Engaged, At
    <2>1. CASE v = w
      <3>1. Cur(v)' = Cur(v) /\ Cur(v).id = c
            BY <1>4, <2>1
      <3>2. Taken(Cur(v).id)' = accepted'[c] + denied'[c]
            BY <1>e, <1>a, <3>1
      <3> HIDE DEF c
      <3> QED BY <1>2, <1>3, <2>1, <3>1, <3>2 DEF At
    <2>2. CASE v # w
      <3>1. /\ Cur(v).id \in Intents \ {c} /\ wk'[v] = wk[v]
            /\ accepted'[Cur(v).id] = accepted[Cur(v).id] /\ Taken(Cur(v).id)' = Taken(Cur(v).id)
            BY <1>3, <1>4, <1>e, <2>2
      <3> QED BY <3>1 DEF AnswersAreTrue, At, SafeInv, CallsInv
    <2> QED BY <2>1, <2>2
  <1>7. EchoesAreTrue' /\ NoFalseConfirm'
        BY <1>e, <1>c DEF EchoesAreTrue, NoFalseConfirm, SafeInv, CallsInv
  <1>8. AtMostOnceAccepted'
    <2> SUFFICES ASSUME NEW i \in Intents
                 PROVE  accepted'[i] <= 1 /\ (row[i].kind \in Messages => Taken(i)' <= 1)
        BY <1>c DEF AtMostOnceAccepted
    <2>1. CASE i = c
          BY <1>3, <1>e, <2>1
    <2>2. CASE i # c
          BY <1>3, <1>e, <2>2 DEF AtMostOnceAccepted, SafeInv
    <2> QED BY <2>1, <2>2
  <1>f. Kept(row[c]) /\ row[c].st # "absent"
    <2>1. InFlight(row[c])
          BY <1>a DEF SafeInv, CallsInv, CallsAreMarked
    <2> QED BY <2>1 DEF InFlight, Kept
  <1>10. DenialsKept'
    <2> SUFFICES ASSUME NEW i \in Intents, denied'[i] > 0 PROVE DeniedRow(row[i])
        BY <1>c DEF DenialsKept
    <2>1. CASE i # c \/ denied[i] > 0
          BY <1>3, <2>1 DEF DenialsKept, SafeInv
    <2>2. CASE i = c /\ ~(denied[i] > 0)
          BY <1>3, <1>f, <2>2, Counts DEF DeniedRow
    <2> QED BY <2>1, <2>2
  <1>9. AcceptedNeverForgotten'
    <2> SUFFICES ASSUME NEW i \in Intents
                 PROVE  /\ accepted'[i] > 0 => Kept(row[i])
                        /\ denied'[i] > 0 =>
                              \/ row[i].kind \notin Messages
                              \/ row[i].kind = "media" /\ (Kept(row[i]) \/ row[i].st = "rejected")
        BY <1>c DEF AcceptedNeverForgotten
    <2>1. accepted'[i] > 0 => Kept(row[i])
          BY <1>3, <1>f, Counts
    <2>2. denied'[i] > 0 => DeniedRow(row[i])
          BY <1>10, <1>c DEF DenialsKept
    <2> QED BY <2>1, <2>2 DEF DeniedRow, Messages
  <1> QED BY <1>5, <1>6, <1>7, <1>8, <1>9, <1>10 DEF SafeInv, CallsInv

\* The steps of a process on its current lease.
LEMMA SafeLease ==
    ASSUME SafeInv, TypeInv', NEW w \in Workers,
           \/ ReleaseUnavailable(w) \/ MarkNotDispatched(w) \/ RejectPreCall(w)
           \/ MarkTransportCalled(w) \/ Call(w) \/ Confirm(w) \/ AcceptWithoutID(w)
           \/ RecordSendError(w) \/ MutationFault(w) \/ ReleaseUntouched(w)
    PROVE  SafeInv'
  <1> DEFINE c == Cur(w).id
             r == row[c]
  <1> USE DEF Tables, History
  <1>a. wk[w].pc \in {"prepare", "call", "answer"} => c \in Intents /\ r \in RowType
        BY EngagedIntent DEF SafeInv
  <1>b. ASSUME r \in RowType, NEW st, NEW next
        PROVE  Freed(r, st, next).st = st /\ Freed(r, st, next).kind = r.kind
        BY <1>b DEF Freed, RowType
  <1>1. CASE ReleaseUnavailable(w)
    <2>1. PICK pc \in {"release", "next"} :
            Finish(w, FALSE, Freed(row[Cur(w).id], "queued", Null), pc)
          BY <1>1 DEF ReleaseUnavailable
    <2>2. wk[w].pc = "prepare" /\ UNCHANGED <<accepted, denied, echo>>
          BY <1>1 DEF ReleaseUnavailable, At
    <2>3. "queued" \in {"queued", "not_dispatched", "rejected"} /\ pc \notin {"call", "answer"}
          BY <2>1
    <2> QED BY ONLY SafeInv, TypeInv', w \in Workers, <2>1, <2>2, <2>3, FreedUncalled
  <1>2. CASE MarkNotDispatched(w)
    <2>1. PICK pc \in {"release", "next"} :
            Finish(w, FALSE, Freed(row[Cur(w).id], "not_dispatched", now + RetryDelay), pc)
          BY <1>2 DEF MarkNotDispatched
    <2>2. wk[w].pc = "prepare" /\ UNCHANGED <<accepted, denied, echo>>
          BY <1>2 DEF MarkNotDispatched, At
    <2>3. "not_dispatched" \in {"queued", "not_dispatched", "rejected"} /\ pc \notin {"call", "answer"}
          BY <2>1
    <2> QED BY ONLY SafeInv, TypeInv', w \in Workers, <2>1, <2>2, <2>3, FreedUncalled
  <1>3. CASE RejectPreCall(w)
    <2>1. PICK pc \in {"release", "next"} :
            Finish(w, FALSE, Freed(row[Cur(w).id], "rejected", Null), pc)
          BY <1>3 DEF RejectPreCall
    <2>2. wk[w].pc = "prepare" /\ UNCHANGED <<accepted, denied, echo>>
          BY <1>3 DEF RejectPreCall, At
    <2>3. "rejected" \in {"queued", "not_dispatched", "rejected"} /\ pc \notin {"call", "answer"}
          BY <2>1
    <2> QED BY ONLY SafeInv, TypeInv', w \in Workers, <2>1, <2>2, <2>3, FreedUncalled
  <1>4. CASE MarkTransportCalled(w)
        BY <1>4, SafeMark
  <1>5. CASE Call(w)
        BY <1>5, SafeCall
  <1>6. CASE Confirm(w)
    <2>1. /\ At(w, "answer") /\ wk[w].answer \in RemoteIDs /\ c \in Intents
          /\ r \in RowType /\ UNCHANGED <<accepted, denied, echo>>
          BY <1>6, <1>a DEF Confirm, At
    <2>2. accepted[c] > 0
          BY <2>1 DEF SafeInv, CallsInv, AnswersAreTrue, RemoteIDs
    <2>3. CASE row' = row /\ Advance(w, "release")
          BY <2>1, <2>3, AdvanceSafe
    <2>4. CASE \E new \in {Confirmed(Freed(r, "confirmed", Null), wk[w].answer),
                           [Freed(r, "store_failed", Null) EXCEPT !.result = wk[w].answer]} :
                  row' = [row EXCEPT ![c] = new] /\ Advance(w, "next")
      <3>1. PICK new \in {Confirmed(Freed(r, "confirmed", Null), wk[w].answer),
                          [Freed(r, "store_failed", Null) EXCEPT !.result = wk[w].answer]} :
                  row' = [row EXCEPT ![c] = new] /\ Advance(w, "next")
            BY <2>4
      <3>2. new.st \in {"confirmed", "store_failed"} /\ new.kind = r.kind
            BY <2>1 DEF Confirmed, Freed, RowType
      <3>3. Kept(new) /\ (denied[c] > 0 => DeniedRow(new))
            BY <2>1, <3>2, DenialFits DEF Kept
      <3> QED BY <2>1, <2>2, <3>1, <3>2, <3>3, VerdictSafe
    <2> QED BY <1>6, <2>3, <2>4 DEF Confirm
  <1>7. CASE AcceptWithoutID(w)
    <2>1. /\ At(w, "answer") /\ c \in Intents /\ r \in RowType /\ UNCHANGED <<accepted, denied, echo>>
          BY <1>7, <1>a DEF AcceptWithoutID, At
    <2>2. accepted[c] > 0
          BY <1>7, <2>1 DEF AcceptWithoutID, SafeInv, CallsInv, AnswersAreTrue
    <2>3. PICK st \in {"uncertain", "confirmed"} :
            Finish(w, TRUE, Freed(r, st, Null), "next")
          BY <1>7 DEF AcceptWithoutID
    <2>4. CASE row' = row /\ Advance(w, "release")
          BY <2>1, <2>4, AdvanceSafe
    <2>5. CASE row' = [row EXCEPT ![c] = Freed(r, st, Null)] /\ Advance(w, "next")
      <3> DEFINE new == Freed(r, st, Null)
      <3>1. new.st = st /\ new.kind = r.kind /\ Kept(new)
            BY <1>b, <2>1 DEF Kept
      <3> HIDE DEF new
      <3>2. denied[c] > 0 => DeniedRow(new)
            BY <2>1, <3>1, DenialFits
      <3> QED BY <2>1, <2>2, <2>5, <3>1, <3>2, VerdictSafe DEF new
    <2> QED BY <2>3, <2>4, <2>5 DEF Finish
  <1>8. CASE RecordSendError(w)
    <2>1. /\ At(w, "answer") /\ c \in Intents /\ r \in RowType /\ UNCHANGED <<accepted, denied, echo>>
          BY <1>8, <1>a DEF RecordSendError, At
    <2>2. PICK st \in {"uncertain", "rejected", "not_dispatched"} :
            \E next \in {Null, now + RetryDelay} :
              /\ Finish(w, TRUE, Freed(r, st, next), "next")
              /\ st # "uncertain" => wk[w].answer \in {"refused", "not_called"}
              /\ st = "not_dispatched" => wk[w].answer = "not_called"
          BY <1>8 DEF RecordSendError
    <2>3. PICK next \in {Null, now + RetryDelay} : Finish(w, TRUE, Freed(r, st, next), "next")
          BY <2>2
    <2>4. /\ st # "uncertain" => ~(accepted[c] > 0)
          /\ st = "not_dispatched" /\ r.kind \in Messages => ~(denied[c] > 0)
          BY <2>1, <2>2, Counts DEF SafeInv, CallsInv, AnswersAreTrue
    <2>5. CASE row' = row /\ Advance(w, "release")
          BY <2>1, <2>5, AdvanceSafe
    <2>6. CASE row' = [row EXCEPT ![c] = Freed(r, st, next)] /\ Advance(w, "next")
      <3> DEFINE new == Freed(r, st, next)
      <3>1. new.st = st /\ new.kind = r.kind
            BY <1>b, <2>1
      <3> HIDE DEF new
      <3>2. denied[c] > 0 => DeniedRow(new)
        <4>1. CASE st = "not_dispatched"
              BY <2>1, <2>4, <3>1, <4>1 DEF DeniedRow, Messages
        <4>2. CASE st # "not_dispatched"
              BY <2>1, <3>1, <4>2, DenialFits DEF Kept
        <4> QED BY <4>1, <4>2
      <3>3. /\ accepted[c] > 0 => Kept(new)
            /\ new.st \notin {"confirmed", "store_failed"}
            BY <2>4, <3>1 DEF Kept
      <3> QED BY <2>1, <2>6, <3>1, <3>2, <3>3, VerdictSafe DEF new
    <2> QED BY <2>3, <2>5, <2>6 DEF Finish
  <1>9. CASE MutationFault(w)
        BY <1>9, AdvanceSafe DEF MutationFault
  <1>10. CASE ReleaseUntouched(w)
    <2>1. CASE row' = row
          BY <1>10, <2>1, AdvanceSafe DEF ReleaseUntouched
    <2> DEFINE new == Freed(r, "queued", Null)
    <2>2. CASE /\ Holds(c, Cur(w).tok) /\ row[c].called = FALSE
               /\ row' = [row EXCEPT ![c] = Freed(r, "queued", Null)]
      <3>1. Finish(w, FALSE, new, "release")
            BY <1>10, <2>2 DEF ReleaseUntouched, Finish
      <3>2. wk[w].batch # <<>> /\ c \in Intents /\ r \in RowType
        <4>1. WorkersOK /\ wk[w].batch # <<>>
              BY <1>10 DEF ReleaseUntouched, SafeInv, TypeInv, TypeOK, WorkersOK
        <4> QED BY <4>1, CurType DEF SafeInv, TypeInv, TypeOK
      <3>3. new.st \notin {"absent", "confirmed", "store_failed"} /\ new.kind = r.kind
            BY <1>b, <3>2
      <3>4. UNCHANGED <<accepted, denied, echo>>
            BY <1>10 DEF ReleaseUntouched
      <3> HIDE DEF new
      <3> QED BY <3>1, <3>3, <3>4, FinishUncalled
    <2>3. c \in Intents /\ r.called \in BOOLEAN
      <3>1. WorkersOK /\ wk[w].batch # <<>>
            BY <1>10 DEF ReleaseUntouched, SafeInv, TypeInv, TypeOK, WorkersOK
      <3> QED BY <3>1, CurType DEF SafeInv, TypeInv, TypeOK, RowType
    <2> QED BY <1>10, <2>1, <2>2, <2>3 DEF ReleaseUntouched
  <1> QED BY <1>1, <1>2, <1>3, <1>4, <1>5, <1>6, <1>7, <1>8, <1>9, <1>10

-----------------------------------------------------------------------------
(* The other actors *)

\* A process that is told to stop, or serves a request, stays in its call.
LEMMA AsideQuiet ==
    ASSUME TypeInv, NEW w \in Workers, \A v \in Workers \ {w} : wk'[v] = wk[v],
           wk'[w].pc = wk[w].pc, wk'[w].batch = wk[w].batch, wk'[w].answer = wk[w].answer
    PROVE  NoNewCalls
  BY DEF NoNewCalls, Engaged, Cur

\* An update of an open row from outside is safe.
LEMMA SafeOpen ==
    ASSUME SafeInv, TypeInv', NoNewCalls, NEW i \in Intents, NEW new,
           row' = [row EXCEPT ![i] = new], UNCHANGED <<accepted, denied, echo>>,
           row[i].st \in {"absent", "queued", "not_dispatched"},
           new.st \notin {"absent", "confirmed", "store_failed"},
           new.kind = row[i].kind \/ row[i].st = "absent"
    PROVE  SafeInv'
  <1>1. row \in [Intents -> RowType]
        BY DEF SafeInv, TypeInv, TypeOK
  <1>2. ASSUME NEW j \in Intents PROVE RowSafe(j)
    <2>1. CASE j # i
          BY <1>1, <2>1, SameRowSafe
    <2>2. CASE j = i
      <3>1. row'[j] = new /\ ~Kept(row[j]) /\ row[j].st # "rejected"
            BY <1>1, <2>2 DEF Kept
      <3> QED BY <2>2, <3>1, OpenRowSafe
    <2> QED BY <2>1, <2>2
  <1>3. \A j \in Intents : echo'[j] # "none" => MayEcho(j)
        BY DEF SafeInv, CallsInv, EchoesAreTrue
  <1> QED BY <1>2, <1>3, Frame

\* Reconciliation with an accepted result is safe.
LEMMA ReconcileSafe ==
    ASSUME SafeInv, UNCHANGED wk, NEW i \in Intents, NEW id, Reconcile(i, id),
           accepted[i] > 0 \/ MayEcho(i)
    PROVE  \A j \in Intents : RowSafe(j)
  <1>1. row \in [Intents -> RowType] /\ NoNewCalls
        BY StillQuiet DEF SafeInv, TypeInv, TypeOK
  <1>2. CASE row' = row
        BY <1>1, <1>2, SameRowSafe
  <1>3. CASE row' = [row EXCEPT ![i] = Confirmed(row[i], id)]
    <2>1. row'[i].st = "confirmed" /\ row'[i].kind = row[i].kind
          BY <1>1, <1>3 DEF Confirmed, RowType
    <2>2. RowSafe(i)
          BY <1>1, <2>1, KeptRowSafe DEF Kept, InFlight
    <2>3. \A j \in Intents \ {i} : row'[j] = row[j]
          BY <1>1, <1>3
    <2> QED BY <1>1, <2>2, <2>3, SameRowSafe
  <1> QED BY <1>2, <1>3 DEF Reconcile

\* Every step of the users, the inbound path, the clock and the process manager.
LEMMA SafeRest ==
    ASSUME SafeInv, TypeInv',
           \/ \E w \in Workers : Crash(w) \/ Shutdown(w)
           \/ \E w \in Workers, i \in Intents : SendAgainReads(w, i) \/ SendAgainEnqueues(w, i)
           \/ \E i \in Intents : UserStep(i) \/ EchoStep(i)
           \/ Tick \/ UNCHANGED vars
    PROVE  SafeInv'
  <1> USE DEF Tables, History
  <1>a. row \in [Intents -> RowType] /\ wk \in [Workers -> WorkerType] /\ TypeInv
        BY DEF SafeInv, TypeInv, TypeOK
  <1>b. ASSUME NoNewCalls, UNCHANGED <<row, accepted, denied>>,
               \A i \in Intents : echo'[i] # "none" => MayEcho(i)
        PROVE  SafeInv'
    <2>1. \A i \in Intents : RowSafe(i)
          BY <1>b, SameRowSafe
    <2> QED BY <1>b, <2>1, Frame
  <1>c. \A i \in Intents : echo[i] # "none" => MayEcho(i)
        BY DEF SafeInv, CallsInv, EchoesAreTrue
  <1>1. ASSUME NEW w \in Workers, Crash(w) PROVE SafeInv'
    <2>1. wk'[w].pc = "down" /\ \A v \in Workers \ {w} : wk'[v] = wk[v]
          BY <1>1, <1>a DEF Crash, Down
    <2>2. NoNewCalls
          BY <2>1, QuietMove
    <2>3. \A i \in Intents : echo'[i] # "none" => MayEcho(i)
          BY <1>1, InterruptedTrue DEF Crash
    <2> QED BY <1>1, <1>b, <2>2, <2>3 DEF Crash
  <1>2. ASSUME NEW w \in Workers, Shutdown(w) PROVE SafeInv'
    <2>1. NoNewCalls
          BY <1>2, <1>a, AsideQuiet DEF Shutdown, WorkerType
    <2> QED BY <1>2, <1>b, <1>c, <2>1 DEF Shutdown
  <1>3. ASSUME NEW w \in Workers, NEW i \in Intents, SendAgainReads(w, i) PROVE SafeInv'
    <2>1. NoNewCalls
          BY <1>3, <1>a, AsideQuiet DEF SendAgainReads, WorkerType
    <2> QED BY <1>3, <1>b, <1>c, <2>1 DEF SendAgainReads
  <1>4. ASSUME NEW w \in Workers, NEW i \in Intents, SendAgainEnqueues(w, i) PROVE SafeInv'
    <2> DEFINE new == NewRow(row[wk[w].asked].kind, now, wk[w].asked)
    <2>1. NoNewCalls
          BY <1>4, <1>a, AsideQuiet DEF SendAgainEnqueues, WorkerType
    <2>2. new.st = "queued"
          BY DEF NewRow, Absent
    <2>3. row' = [row EXCEPT ![i] = new] /\ row[i].st = "absent" /\ UNCHANGED <<accepted, denied, echo>>
          BY <1>4 DEF SendAgainEnqueues
    <2> HIDE DEF new
    <2> QED BY <2>1, <2>2, <2>3, SafeOpen
  <1>5. ASSUME NEW i \in Intents, Enqueue(i) PROVE SafeInv'
    <2>1. PICK kind \in Kinds, sched \in now..(now + MaxDelay) :
            row' = [row EXCEPT ![i] = NewRow(kind, sched, NoIntent)]
          BY <1>5 DEF Enqueue
    <2>2. NewRow(kind, sched, NoIntent).st = "queued"
          BY DEF NewRow, Absent
    <2>3. row[i].st = "absent" /\ UNCHANGED <<accepted, denied, echo>> /\ NoNewCalls
          BY <1>5, StillQuiet DEF Enqueue
    <2> QED BY <2>1, <2>2, <2>3, SafeOpen
  <1>6. ASSUME NEW i \in Intents, Cancel(i) \/ RetryNotDispatched(i) PROVE SafeInv'
    <2>1. /\ row[i].st \in {"queued", "not_dispatched"} /\ row[i] \in RowType
          /\ UNCHANGED <<accepted, denied, echo>> /\ NoNewCalls
          BY <1>6, <1>a, StillQuiet DEF Cancel, RetryNotDispatched, Pending
    <2>2. PICK new : /\ row' = [row EXCEPT ![i] = new] /\ new.kind = row[i].kind
                     /\ new.st \in {"canceled", "not_dispatched"}
      <3>1. CASE Cancel(i)
        <4>1. row' = [row EXCEPT ![i] = [row[i] EXCEPT !.st = "canceled", !.next = Null]]
              BY <3>1 DEF Cancel
        <4>2. /\ [row[i] EXCEPT !.st = "canceled", !.next = Null].st = "canceled"
              /\ [row[i] EXCEPT !.st = "canceled", !.next = Null].kind = row[i].kind
              BY <2>1 DEF RowType
        <4> QED BY <4>1, <4>2
      <3>2. CASE RetryNotDispatched(i)
        <4>1. row' = [row EXCEPT ![i] = [row[i] EXCEPT !.next = now]]
              BY <3>2 DEF RetryNotDispatched
        <4>2. /\ [row[i] EXCEPT !.next = now].st = "not_dispatched"
              /\ [row[i] EXCEPT !.next = now].kind = row[i].kind
              BY <2>1, <3>2 DEF RowType, RetryNotDispatched
        <4> QED BY <4>1, <4>2
      <3> QED BY <1>6, <3>1, <3>2
    <2> QED BY <2>1, <2>2, SafeOpen
  <1>7. ASSUME NEW i \in Intents, RepairStoreFailed(i) PROVE SafeInv'
    <2>1. (accepted[i] > 0 \/ MayEcho(i)) /\ NoNewCalls
          BY <1>7, StillQuiet DEF RepairStoreFailed, SafeInv, NoFalseConfirm
    <2>2. \A j \in Intents : RowSafe(j)
          BY <1>7, <2>1, ReconcileSafe DEF RepairStoreFailed
    <2> QED BY <1>7, <1>c, <2>1, <2>2, Frame DEF RepairStoreFailed
  <1>8. ASSUME NEW i \in Intents, PinDuplicate(i) PROVE SafeInv'
        BY <1>8, <1>b, <1>c, StillQuiet DEF PinDuplicate
  <1>9. ASSUME NEW i \in Intents, EchoArrives(i) \/ ProjectEcho(i) PROVE SafeInv'
    <2>1. \A j \in Intents : echo'[j] # "none" => MayEcho(j)
          BY <1>9, <1>c, <1>a DEF EchoArrives, ProjectEcho, TypeInv, TypeOK
    <2> QED BY <1>9, <1>b, <2>1, StillQuiet DEF EchoArrives, ProjectEcho
  <1>10. ASSUME NEW i \in Intents, ObserveTransportEcho(i) PROVE SafeInv'
    <2>1. MayEcho(i) /\ NoNewCalls
          BY <1>10, <1>c, StillQuiet DEF ObserveTransportEcho
    <2>2. \A j \in Intents : echo'[j] # "none" => MayEcho(j)
          BY <1>10, <1>c, <2>1, <1>a DEF ObserveTransportEcho, TypeInv, TypeOK
    <2>3. \A j \in Intents : RowSafe(j)
          BY <1>10, <2>1, ReconcileSafe, SameRowSafe DEF ObserveTransportEcho
    <2> QED BY <1>10, <2>1, <2>2, <2>3, Frame DEF ObserveTransportEcho
  <1>11. CASE Tick
        BY <1>11, <1>b, <1>c, StillQuiet DEF Tick
  <1>12. CASE UNCHANGED vars
        BY <1>12, <1>b, <1>c, StillQuiet DEF vars
  <1> QED BY <1>1, <1>2, <1>3, <1>4, <1>5, <1>6, <1>7, <1>8, <1>9, <1>10, <1>11, <1>12
          DEF UserStep, EchoStep

-----------------------------------------------------------------------------

\* The safety invariant of the outbox, for any number of intents, processes,
\* crashes, storage faults and lost leases, with adapters that may deny what was
\* taken (Denials): acceptances, call markers and verdicts agree (Confirm,
\* recordSendError, RecoverExpiredLeases).
THEOREM Safe == Spec => []SafeInv
  <1>1. Init => SafeInv
    <2> SUFFICES ASSUME Init PROVE SafeInv
        OBVIOUS
    <2>1. TypeInv
          BY InitType
    <2>2. \A i \in Intents :
            /\ row[i].st = "absent" /\ echo[i] = "none"
            /\ accepted[i] = 0 /\ denied[i] = 0 /\ Taken(i) = 0
          BY DEF Init, Absent, Taken
    <2>3. \A w \in Workers : wk[w].pc = "down"
          BY DEF Init, Down
    <2>4. CallsInv
          BY <2>2, <2>3 DEF CallsInv, CallsAreMarked, CallsAreAlone, AnswersAreTrue,
                            EchoesAreTrue, Engaged, At
    <2> QED BY <2>1, <2>2, <2>4
            DEF SafeInv, DenialsKept, AtMostOnceAccepted, AcceptedNeverForgotten, NoFalseConfirm
  <1>2. SafeInv /\ TypeInv' /\ [Next]_vars => SafeInv'
        BY SafeLoop, SafeLease, SafeRest DEF Next, DispatcherStep
  <1> QED BY <1>1, <1>2, TypeCorrect, PTL DEF Spec

\* AtMostOnceAccepted for every instance: no message is sent twice, nor any other
\* intent unless its adapter denied the first time.
THEOREM SentAtMostOnce == Spec => []AtMostOnceAccepted
  <1>1. SafeInv => AtMostOnceAccepted
        BY DEF SafeInv
  <1> QED BY <1>1, Safe, PTL

\* AcceptedNeverForgotten for every instance: what the transport took and no
\* adapter denied is never retried, refused or withdrawn, and media that were
\* denied are refused but not retried.
THEOREM NeverForgotten == Spec => []AcceptedNeverForgotten
  <1>1. SafeInv => AcceptedNeverForgotten
        BY DEF SafeInv
  <1> QED BY <1>1, Safe, PTL

\* NoFalseConfirm for every instance: what is shown as sent was taken.
THEOREM ShownAsSentWasTaken == Spec => []NoFalseConfirm
  <1>1. SafeInv => NoFalseConfirm
        BY DEF SafeInv
  <1> QED BY <1>1, Safe, PTL

\* CallsInv for every instance: one marked call per intent, "not called" true of a
\* message, and no acceptance or echo out of nothing.
THEOREM CallsAccountedFor == Spec => []CallsInv
  <1>1. SafeInv => CallsInv
        BY DEF SafeInv
  <1> QED BY <1>1, Safe, PTL

\* NoCallForCanceled for every instance: a call never races a cancel.
THEOREM CancelNeverRacesCall == Spec => []NoCallForCanceled
  <1>1. SafeInv => NoCallForCanceled
        BY Counts DEF SafeInv, NoCallForCanceled, CallsInv, CallsAreMarked, Engaged, InFlight,
                      Kept, DeniedRow, Messages
  <1> QED BY <1>1, Safe, PTL

=============================================================================
