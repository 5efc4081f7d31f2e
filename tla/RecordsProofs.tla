---------------------------- MODULE RecordsProofs ----------------------------
(* The keeping of records, proved: the carry of unsent intents, the offline *)
(* migration, the backfills of a Google thread, and a channel of Slack.     *)
EXTENDS Transform, GoogleSync, SlackRiver, FiniteSetTheorems, SequenceTheorems,
        WellFoundedInduction, TLAPS

-----------------------------------------------------------------------------
(* The carry of a store that was moved aside.                               *)

CarryRows  == {Nil, "other", "mine"}
CarryTypes ==
    [claims : [Intents -> Claim], rows : [Intents -> CarryRows], todo : SUBSET Intents,
     told : SUBSET Intents, passes : 0..MaxPasses, stage : {"idle", "carrying", "done", "failed"}]

\* While a pass goes on, what it has not come to is accounted for by its list.
PassOK ==
    carry.stage = "carrying" =>
        /\ InState(ForReview) \subseteq carry.told
        /\ \A i \in InState(Carryable) : i \in carry.todo \/ carry.rows[i] = "mine" \/ i \in carry.told
TodoOK == carry.todo \subseteq InState(Carryable)
CarryInv == carry \in CarryTypes /\ TodoOK /\ PassOK /\ AllOrReported

\* The carry accounts for every intent, however often it is cut short and repeated.
THEOREM CarryHolds == TransformSpec => []CarryInv
    <1>1. ASSUME TransformInit PROVE CarryInv
      <2>1. PICK claims \in [Intents -> Claim], rows \in [Intents -> {Nil, "other"}] :
              carry = [claims |-> claims, rows |-> rows, todo |-> {}, told |-> {}, passes |-> 0,
                       stage |-> "idle"]
        BY <1>1 DEF TransformInit, CarryInit
      <2>2. rows \in [Intents -> CarryRows] /\ \A i \in Intents : rows[i] # "mine"
        BY TransformAssumption DEF TransformAssumption, CarryRows
      <2>3. 0 \in 0..MaxPasses BY TransformAssumption DEF TransformAssumption
      <2>4. carry \in CarryTypes BY <2>1, <2>2, <2>3 DEF CarryTypes
      <2>5. QED BY <2>1, <2>2, <2>4 DEF CarryInv, TodoOK, PassOK, AllOrReported
    <1>2. ASSUME CarryInv, [TransformNext]_transformVars PROVE CarryInv'
      <2>1. carry \in CarryTypes BY <1>2 DEF CarryInv
      <2>2. CASE UNCHANGED carry
        BY <1>2, <2>2 DEF CarryInv, TodoOK, PassOK, AllOrReported, InState
      <2>3. CASE BeginCarry
        <3>1. carry.passes + 1 \in 0..MaxPasses
          <4>1. carry.passes \in 0..MaxPasses /\ carry.passes < MaxPasses
            BY <2>1, <2>3 DEF CarryTypes, BeginCarry
          <4>2. QED BY <4>1, TransformAssumption DEF TransformAssumption
        <3>2. carry' = [carry EXCEPT !.stage = "carrying", !.passes = carry.passes + 1,
                                     !.told = InState(ForReview), !.todo = InState(Carryable)]
          BY <2>3 DEF BeginCarry
        <3>3. InState(ForReview) \subseteq Intents /\ InState(Carryable) \subseteq Intents
          BY DEF InState
        <3>4. carry' \in CarryTypes BY <2>1, <3>1, <3>2, <3>3 DEF CarryTypes
        <3>5. /\ carry'.claims = carry.claims /\ carry'.rows = carry.rows
              /\ carry'.stage = "carrying" /\ carry'.told = InState(ForReview)
              /\ carry'.todo = InState(Carryable)
          BY <2>1, <3>2 DEF CarryTypes
        <3>6. QED BY <1>2, <3>4, <3>5 DEF CarryInv, TodoOK, PassOK, AllOrReported, InState
      <2>4. CASE CarryIntent
        <3>1. PICK i \in carry.todo :
                \/ /\ CanCarry(i)
                   /\ carry' = [carry EXCEPT !.todo = carry.todo \ {i},
                                             !.rows[i] = IF carry.rows[i] = Nil THEN "mine" ELSE carry.rows[i]]
                \/ /\ ~CanCarry(i)
                   /\ carry' = [carry EXCEPT !.todo = carry.todo \ {i}, !.told = carry.told \cup {i}]
          BY <2>4 DEF CarryIntent
        <3>2. /\ carry.stage = "carrying" /\ i \in Intents
              /\ carry.claims[i].state \in Carryable
          BY <1>2, <2>1, <2>4, <3>1 DEF CarryIntent, CarryInv, TodoOK, InState, CarryTypes
        <3>3. CASE CanCarry(i)
          <4>1. carry.rows[i] \in {Nil, "mine"}
            BY <2>1, <3>2, <3>3 DEF CanCarry, IsMine, CarryTypes, CarryRows
          <4>2. carry' = [carry EXCEPT !.todo = carry.todo \ {i}, !.rows = [carry.rows EXCEPT ![i] = "mine"]]
            BY <2>1, <3>1, <3>3, <4>1 DEF CarryTypes
          <4>3. [carry.rows EXCEPT ![i] = "mine"] \in [Intents -> CarryRows]
            BY <2>1 DEF CarryTypes, CarryRows
          <4>4. carry' \in CarryTypes BY <2>1, <4>2, <4>3 DEF CarryTypes
          <4>5. /\ carry'.claims = carry.claims /\ carry'.told = carry.told
                /\ carry'.stage = "carrying" /\ carry'.todo = carry.todo \ {i}
                /\ carry'.rows = [carry.rows EXCEPT ![i] = "mine"]
            BY <2>1, <3>2, <4>2 DEF CarryTypes
          <4>6. \A j \in Intents : carry'.rows[j] = IF j = i THEN "mine" ELSE carry.rows[j]
            BY <2>1, <4>5 DEF CarryTypes
          <4>7. QED BY <1>2, <3>2, <4>4, <4>5, <4>6
                  DEF CarryInv, TodoOK, PassOK, AllOrReported, InState
        <3>4. CASE ~CanCarry(i)
          <4>1. carry' = [carry EXCEPT !.todo = carry.todo \ {i}, !.told = carry.told \cup {i}]
            BY <3>1, <3>4
          <4>2. carry' \in CarryTypes BY <2>1, <3>2, <4>1 DEF CarryTypes
          <4>3. /\ carry'.claims = carry.claims /\ carry'.told = carry.told \cup {i}
                /\ carry'.stage = "carrying" /\ carry'.todo = carry.todo \ {i}
                /\ carry'.rows = carry.rows
            BY <2>1, <3>2, <4>1 DEF CarryTypes
          <4>4. QED BY <1>2, <3>2, <4>2, <4>3
                  DEF CarryInv, TodoOK, PassOK, AllOrReported, InState
        <3>5. QED BY <3>3, <3>4
      <2>5. CASE CarryStops
        <3>1. carry' = [carry EXCEPT !.stage = IF carry.todo = {} THEN "done" ELSE "failed",
                                     !.todo = {}]
          BY <2>5 DEF CarryStops
        <3>2. carry' \in CarryTypes BY <2>1, <3>1 DEF CarryTypes
        <3>3. /\ carry'.claims = carry.claims /\ carry'.told = carry.told
              /\ carry'.rows = carry.rows /\ carry'.todo = {}
              /\ carry'.stage = IF carry.todo = {} THEN "done" ELSE "failed"
          BY <2>1, <3>1 DEF CarryTypes
        <3>4. carry.stage = "carrying" BY <2>5 DEF CarryStops
        <3>5. QED BY <1>2, <3>2, <3>3, <3>4
                DEF CarryInv, TodoOK, PassOK, AllOrReported, InState
      <2>6. CASE MigrateNext
        BY <2>2, <2>6 DEF MigrateNext, Same, OldDaemonWrites, Capture, Copy, Load, PlanRows,
                          WriteHistory, WriteReactions, WriteScheduled, WriteCursors, Complete,
                          Validate
      <2>7. CASE UNCHANGED transformVars BY <2>2, <2>7 DEF transformVars
      <2>8. QED BY <1>2, <2>3, <2>4, <2>5, <2>6, <2>7 DEF TransformNext, CarryNext
    <1>3. QED BY <1>1, <1>2, PTL DEF TransformSpec

\* A pass of the carry that ended accounts for every intent, and none that may have been
\* sent is in the new store (carry.go:100 and 112-120).
THEOREM IntentsAccounted == TransformSpec => []AllOrReported
    <1>1. CarryInv => AllOrReported BY DEF CarryInv
    <1>2. QED BY <1>1, CarryHolds, PTL

-----------------------------------------------------------------------------
(* The offline migration.                                                   *)

\* The rows that a copy of the files holds, and what is carried of them.
Named(copy) == {r \in copy.db \cup copy.wal : legacy[r].named}
FilePairs == [{"db", "wal"} -> SUBSET LegacyRows]

\* From which stage on: the staged copy of the database is what was captured, that of
\* its log too, the rows retained are those of the copy, and what each writer wrote.
CopiedDb   == {"copyWal", "load", "plan", "history", "reactions", "scheduled", "cursors", "closeDb",
               "closeWal", "validate", "passed"}
CopiedWal  == CopiedDb \ {"copyWal"}
Loaded     == CopiedWal \ {"load"}
Imported   == {"reactions", "scheduled", "cursors", "closeDb", "closeWal", "validate", "passed"}
Queued     == Imported \ {"reactions", "scheduled"}
Placed     == Queued \ {"cursors"}

SourceTypes ==
    /\ legacy \in [LegacyRows -> LegacyRow] /\ stage \in Stages
CopyOK ==
    /\ stage \in CopiedDb => snapshot.db = evidence.before.db
    /\ stage \in CopiedWal => snapshot.wal = evidence.before.wal
KeptOK == stage \in Loaded => kept = Retained(Named(snapshot))
HistoryOK ==
    stage \in Imported =>
        /\ fresh.messages = Lasting
        /\ \A r \in kept : /\ legacy[r].transcript => legacy[r].remote \in fresh.extras
                           /\ legacy[r].media => legacy[r].remote \in fresh.attached
QueueOK ==
    stage \in Queued => /\ fresh.queued = OfStatus("pending")
                        /\ fresh.blobs = {t \in fresh.queued : Timer(t).file = "full"}
CursorOK == stage \in Placed => (fresh.cursor # Nil => fresh.cursor \in fresh.messages)
GateOK == stage = "passed" => ~Collides /\ SourceUnchanged
IsFresh(f) == f = [messages |-> f.messages, extras |-> f.extras, attached |-> f.attached,
                   reacted |-> f.reacted, optimistic |-> f.optimistic, queued |-> f.queued,
                   blobs |-> f.blobs, cursor |-> f.cursor]
Shapes == /\ snapshot \in FilePairs /\ files \in FilePairs
          /\ evidence \in [before : FilePairs, after : FilePairs]
          /\ IsFresh(fresh)
MigrationInv ==
    /\ SourceTypes /\ Shapes
    /\ CopyOK /\ KeptOK /\ HistoryOK /\ QueueOK /\ CursorOK /\ GateOK

\* Rows of which no two share a message all last.
LEMMA AllLast ==
    ASSUME SourceTypes, kept \subseteq LegacyRows, ~Collides PROVE Lasting = kept
    <1>1. ASSUME NEW r \in kept PROVE SameMessage(r) = {r} BY DEF Collides
    <1>2. ASSUME NEW r \in kept PROVE ~After(r, r)
      <2>1. legacy[r].at \in Nat /\ r \in Nat
        <3>1. r \in LegacyRows /\ legacy[r] \in LegacyRow BY DEF SourceTypes
        <3>2. legacy[r].at \in 0..3 BY <3>1 DEF LegacyRow
        <3>3. QED BY <3>1, <3>2, TransformAssumption DEF TransformAssumption
      <2>2. QED BY <2>1 DEF After
    <1>3. QED BY <1>1, <1>2 DEF Lasting

\* What passed the gates is whole.
LEMMA GatesSuffice == ASSUME MigrationInv PROVE PassedIsWhole
    <1> SUFFICES ASSUME stage = "passed" PROVE PassedIsWhole
      BY DEF PassedIsWhole
    <1> DEFINE held == {r \in evidence.after.db \cup evidence.after.wal : legacy[r].named}
    <1>1. evidence.after = evidence.before /\ ~Collides
      BY DEF MigrationInv, GateOK, SourceUnchanged
    <1>2. snapshot.db = evidence.after.db /\ snapshot.wal = evidence.after.wal
      BY <1>1 DEF MigrationInv, CopyOK, CopiedDb, CopiedWal
    <1>3. held = Named(snapshot) BY <1>2 DEF Named
    <1>4. kept = Retained(held) BY <1>3 DEF MigrationInv, KeptOK, Loaded, CopiedWal, CopiedDb
    <1>5. kept \subseteq LegacyRows
      BY <1>3, <1>4 DEF Retained, Named, MigrationInv, Shapes, FilePairs
    <1>6. fresh.messages = kept /\ \A r \in kept :
             /\ legacy[r].transcript => legacy[r].remote \in fresh.extras
             /\ legacy[r].media => legacy[r].remote \in fresh.attached
      BY <1>1, <1>5, AllLast DEF MigrationInv, HistoryOK, Imported
    <1>7. /\ fresh.queued = OfStatus("pending")
          /\ fresh.blobs = {t \in fresh.queued : Timer(t).file = "full"}
      BY DEF MigrationInv, QueueOK, Queued, Imported
    <1>8. fresh.cursor # Nil => fresh.cursor \in fresh.messages
      BY DEF MigrationInv, CursorOK, Placed, Queued, Imported
    <1> HIDE DEF held
    <1>9. QED BY <1>4, <1>6, <1>7, <1>8 DEF PassedIsWhole, held

\* The old daemon and the evidence: nothing that was copied is looked at again.
LEMMA SourceKeeps ==
    ASSUME MigrationInv, OldDaemonWrites \/ Capture \/ Complete PROVE MigrationInv'
    <1>1. SourceTypes /\ Shapes BY DEF MigrationInv
    <1>2. UNCHANGED <<legacy, timers, snapshot, kept, fresh>>
      BY DEF OldDaemonWrites, Capture, Complete, Same
    <1>3. CASE OldDaemonWrites
      <2>1. files' \in FilePairs
        <3>1. CASE files' = [files EXCEPT !.wal = @ \cup {LateRow}]
          BY <1>1, <3>1, TransformAssumption DEF Shapes, FilePairs, TransformAssumption
        <3>2. CASE files' = [db |-> files.db \cup files.wal, wal |-> {}]
          BY <1>1, <3>2 DEF Shapes, FilePairs
        <3>3. QED BY <1>3, <3>1, <3>2 DEF OldDaemonWrites
      <2>2. UNCHANGED <<stage, evidence>> BY <1>3 DEF OldDaemonWrites, Same
      <2>3. SourceTypes' /\ Shapes' BY <1>1, <1>2, <2>1, <2>2 DEF SourceTypes, Shapes
      <2>4. CopyOK' /\ KeptOK' BY <1>2, <2>2 DEF MigrationInv, CopyOK, KeptOK, Retained, Named
      <2>5. HistoryOK' /\ QueueOK' /\ CursorOK'
        BY <1>2, <2>2 DEF MigrationInv, HistoryOK, Lasting, SameMessage, After, QueueOK, OfStatus,
                          Timer, CursorOK
      <2>6. GateOK'
        BY <1>2, <2>2 DEF MigrationInv, GateOK, Collides, SameMessage, SourceUnchanged
      <2>7. QED BY <2>3, <2>4, <2>5, <2>6 DEF MigrationInv
    <1>4. CASE Capture
      <2>1. PICK f \in {"db", "wal"} :
              /\ stage = (IF f = "db" THEN "captureDb" ELSE "captureWal")
              /\ stage' \in {"captureWal", "copyDb"}
              /\ evidence' = [evidence EXCEPT !.before = [evidence.before EXCEPT ![f] = files[f]]]
        BY <1>4 DEF Capture, Go
      <2>2. files' = files BY <1>4 DEF Capture, Same
      <2>3. evidence' \in [before : FilePairs, after : FilePairs]
        BY <1>1, <2>1 DEF Shapes, FilePairs
      <2>4. SourceTypes' /\ Shapes'
        BY <1>1, <1>2, <2>1, <2>2, <2>3 DEF SourceTypes, Shapes, Stages
      <2>5. QED BY <1>2, <2>1, <2>4
              DEF MigrationInv, CopyOK, KeptOK, HistoryOK, QueueOK, CursorOK, GateOK,
                  CopiedDb, CopiedWal, Loaded, Imported, Queued, Placed
    <1>5. CASE Complete
      <2>1. PICK f \in {"db", "wal"} :
              /\ stage = (IF f = "db" THEN "closeDb" ELSE "closeWal")
              /\ stage' \in {"closeWal", "validate"}
              /\ evidence' = [evidence EXCEPT !.after = [evidence.after EXCEPT ![f] = files[f]]]
        BY <1>5 DEF Complete, Go
      <2>2. files' = files BY <1>5 DEF Complete, Same
      <2>3. evidence' \in [before : FilePairs, after : FilePairs] /\ evidence'.before = evidence.before
        BY <1>1, <2>1 DEF Shapes, FilePairs
      <2>4. SourceTypes' /\ Shapes'
        BY <1>1, <1>2, <2>1, <2>2, <2>3 DEF SourceTypes, Shapes, Stages
      <2>5. CopyOK' /\ KeptOK'
        BY <1>2, <2>1, <2>3 DEF MigrationInv, CopyOK, KeptOK, Retained, Named, CopiedDb, CopiedWal,
                               Loaded
      <2>6. HistoryOK'
        BY <1>2, <2>1 DEF MigrationInv, HistoryOK, Lasting, SameMessage, After, Imported
      <2>7. QueueOK' /\ CursorOK'
        BY <1>2, <2>1 DEF MigrationInv, QueueOK, OfStatus, Timer, CursorOK, Imported, Queued, Placed
      <2>8. GateOK' BY <2>1 DEF GateOK
      <2>9. QED BY <2>4, <2>5, <2>6, <2>7, <2>8 DEF MigrationInv
    <1>6. QED BY <1>3, <1>4, <1>5

\* A copy that differs from what was captured is refused.
LEMMA CopyKeeps == ASSUME MigrationInv, Copy PROVE MigrationInv'
    <1>1. SourceTypes /\ Shapes BY DEF MigrationInv
    <1>2. UNCHANGED <<legacy, timers, files, evidence, kept, fresh>> BY DEF Copy, Same
    <1>3. PICK f \in {"db", "wal"} :
            /\ stage = (IF f = "db" THEN "copyDb" ELSE "copyWal")
            /\ snapshot' = [snapshot EXCEPT ![f] = files[f]]
            /\ stage' = IF ~CopyMatches(f) THEN "aborted" ELSE IF f = "db" THEN "copyWal" ELSE "load"
      BY DEF Copy
    <1>4. snapshot' \in FilePairs BY <1>1, <1>3 DEF Shapes, FilePairs
    <1>5. SourceTypes' /\ Shapes' BY <1>1, <1>2, <1>3, <1>4 DEF SourceTypes, Shapes, Stages
    <1>6. CopyOK'
      BY <1>1, <1>2, <1>3 DEF MigrationInv, CopyOK, CopyMatches, Shapes, FilePairs, CopiedDb, CopiedWal
    <1>7. KeptOK' /\ HistoryOK' /\ QueueOK' /\ CursorOK' /\ GateOK'
      BY <1>3 DEF KeptOK, HistoryOK, QueueOK, CursorOK, GateOK, CopiedDb, CopiedWal, Loaded, Imported,
                  Queued, Placed
    <1>8. QED BY <1>5, <1>6, <1>7 DEF MigrationInv

\* Reading and planning.
LEMMA PlanKeeps == ASSUME MigrationInv, Load \/ PlanRows PROVE MigrationInv'
    <1>1. SourceTypes /\ Shapes BY DEF MigrationInv
    <1>2. UNCHANGED <<legacy, timers, files, evidence, snapshot, fresh>> BY DEF Load, PlanRows, Same
    <1>3. /\ stage \in {"load", "plan"} /\ stage' \in {"plan", "history", "aborted"}
          /\ stage = "load" /\ stage' = "plan" => kept' = Retained(Named(snapshot))
          /\ stage = "plan" => kept' = kept
          /\ stage = "load" => stage' \in {"plan", "aborted"}
      BY DEF Load, PlanRows, Same, Named
    <1>4. SourceTypes' /\ Shapes' BY <1>1, <1>2, <1>3 DEF SourceTypes, Shapes, Stages
    <1>5. CopyOK' BY <1>2, <1>3 DEF MigrationInv, CopyOK, CopiedDb, CopiedWal
    <1>6. KeptOK'
      BY <1>2, <1>3 DEF MigrationInv, KeptOK, Retained, Named, CopiedDb, CopiedWal, Loaded
    <1>7. HistoryOK' /\ QueueOK' /\ CursorOK' /\ GateOK'
      BY <1>3 DEF HistoryOK, QueueOK, CursorOK, GateOK, Imported, Queued, Placed
    <1>8. QED BY <1>4, <1>5, <1>6, <1>7 DEF MigrationInv

\* What the writers leave alone.
LEMMA WritersRest ==
    ASSUME MigrationInv, UNCHANGED <<legacy, timers, files, evidence, snapshot, kept>>,
           stage \in Loaded, stage' \in Loaded \cup {"refused", "aborted"}, IsFresh(fresh')
    PROVE  SourceTypes' /\ Shapes' /\ CopyOK' /\ KeptOK'
    <1>1. SourceTypes' BY DEF MigrationInv, SourceTypes, Stages, Loaded, CopiedWal, CopiedDb
    <1>2. Shapes' BY DEF MigrationInv, Shapes
    <1>3. CopyOK' BY DEF MigrationInv, CopyOK, Loaded, CopiedWal, CopiedDb
    <1>4. KeptOK' BY DEF MigrationInv, KeptOK, Retained, Named, Loaded, CopiedWal, CopiedDb
    <1>5. QED BY <1>1, <1>2, <1>3, <1>4

\* The history, the reactions.
LEMMA WritesKeep == ASSUME MigrationInv, WriteHistory \/ WriteReactions PROVE MigrationInv'
    <1>1. IsFresh(fresh) /\ UNCHANGED <<legacy, timers, files, evidence, snapshot, kept>>
      BY DEF MigrationInv, Shapes, WriteHistory, WriteReactions, Same
    <1>2. CASE WriteHistory /\ stage' # "aborted"
      <2>1. /\ stage = "history" /\ stage' = "reactions"
            /\ fresh' = [fresh EXCEPT
                 !.messages = Lasting,
                 !.extras = {legacy[r].remote : r \in Transcribed(kept)},
                 !.attached = {legacy[r].remote : r \in WithMedia(kept)}]
        BY <1>2 DEF WriteHistory
      <2>2. /\ IsFresh(fresh') /\ fresh'.messages = Lasting
            /\ fresh'.extras = {legacy[r].remote : r \in Transcribed(kept)}
            /\ fresh'.attached = {legacy[r].remote : r \in WithMedia(kept)}
        BY <1>1, <2>1 DEF IsFresh
      <2>3. SourceTypes' /\ Shapes' /\ CopyOK' /\ KeptOK'
        BY <1>1, <2>1, <2>2, WritersRest DEF Loaded, CopiedWal, CopiedDb
      <2>4. HistoryOK'
        BY <1>1, <2>2 DEF HistoryOK, Lasting, SameMessage, After, Transcribed, WithMedia
      <2>5. QueueOK' /\ CursorOK' /\ GateOK'
        BY <2>1 DEF QueueOK, CursorOK, GateOK, Placed, Queued, Imported
      <2>6. QED BY <2>3, <2>4, <2>5 DEF MigrationInv
    <1>3. CASE WriteHistory /\ stage' = "aborted"
      <2>1. stage = "history" /\ fresh' = fresh BY <1>3 DEF WriteHistory
      <2>2. SourceTypes' /\ Shapes' /\ CopyOK' /\ KeptOK'
        BY <1>1, <1>3, <2>1, WritersRest DEF Loaded, CopiedWal, CopiedDb
      <2>3. HistoryOK' /\ QueueOK' /\ CursorOK' /\ GateOK'
        BY <1>3 DEF HistoryOK, QueueOK, CursorOK, GateOK, Placed, Queued, Imported
      <2>4. QED BY <2>2, <2>3 DEF MigrationInv
    <1>4. CASE WriteReactions
      <2>1. /\ stage = "reactions" /\ stage' = "scheduled"
            /\ \E x : fresh' = [fresh EXCEPT !.reacted = x]
        BY <1>4 DEF WriteReactions, Go
      <2>2. /\ IsFresh(fresh') /\ fresh'.messages = fresh.messages
            /\ fresh'.extras = fresh.extras /\ fresh'.attached = fresh.attached
        BY <1>1, <2>1 DEF IsFresh
      <2>3. SourceTypes' /\ Shapes' /\ CopyOK' /\ KeptOK'
        BY <1>1, <2>1, <2>2, WritersRest DEF Loaded, CopiedWal, CopiedDb
      <2>4. HistoryOK'
        BY <1>1, <2>1, <2>2 DEF MigrationInv, HistoryOK, Lasting, SameMessage, After, Imported
      <2>5. QueueOK' /\ CursorOK' /\ GateOK'
        BY <2>1 DEF QueueOK, CursorOK, GateOK, Placed, Queued, Imported
      <2>6. QED BY <2>3, <2>4, <2>5 DEF MigrationInv
    <1>5. QED BY <1>2, <1>3, <1>4

\* The scheduled messages, of which only those that no one can have sent are intents.
LEMMA SchedulesKeep == ASSUME MigrationInv, WriteScheduled PROVE MigrationInv'
    <1> DEFINE live   == {t \in Timers : Timer(t).status \in {"pending", "sending"}}
               unsent == {t \in live : Timer(t).status = "pending"}
    <1>1. /\ IsFresh(fresh) /\ UNCHANGED <<legacy, timers, files, evidence, snapshot, kept>>
          /\ stage = "scheduled"
      BY DEF MigrationInv, Shapes, WriteScheduled, Same
    <1>2. CASE stage' = "cursors"
      <2>1. fresh' = [fresh EXCEPT !.optimistic = live, !.queued = unsent,
                                   !.blobs = {t \in unsent : Timer(t).file = "full"}]
        BY <1>2 DEF WriteScheduled
      <2>2. unsent = OfStatus("pending") BY DEF OfStatus
      <2> HIDE DEF live, unsent
      <2>3. /\ IsFresh(fresh') /\ fresh'.messages = fresh.messages
            /\ fresh'.extras = fresh.extras /\ fresh'.attached = fresh.attached
            /\ fresh'.queued = unsent /\ fresh'.blobs = {t \in unsent : Timer(t).file = "full"}
        BY <1>1, <2>1 DEF IsFresh
      <2>4. SourceTypes' /\ Shapes' /\ CopyOK' /\ KeptOK'
        BY <1>1, <1>2, <2>3, WritersRest DEF Loaded, CopiedWal, CopiedDb
      <2>5. HistoryOK'
        BY <1>1, <1>2, <2>3 DEF MigrationInv, HistoryOK, Lasting, SameMessage, After, Imported
      <2>6. OfStatus("pending")' = OfStatus("pending") /\ \A t : Timer(t)' = Timer(t)
        BY <1>1 DEF OfStatus, Timer
      <2>7. QueueOK' BY <1>1, <2>2, <2>3, <2>6 DEF QueueOK, Timer
      <2>8. CursorOK' /\ GateOK'
        BY <1>2 DEF CursorOK, GateOK, Placed, Queued, Imported
      <2>9. QED BY <2>4, <2>5, <2>7, <2>8 DEF MigrationInv
    <1>3. CASE stage' # "cursors"
      <2>1. stage' = "aborted" /\ fresh' = fresh BY <1>3 DEF WriteScheduled
      <2>2. SourceTypes' /\ Shapes' /\ CopyOK' /\ KeptOK'
        BY <1>1, <2>1, WritersRest DEF Loaded, CopiedWal, CopiedDb
      <2>3. HistoryOK' /\ QueueOK' /\ CursorOK' /\ GateOK'
        BY <2>1 DEF HistoryOK, QueueOK, CursorOK, GateOK, Placed, Queued, Imported
      <2>4. QED BY <2>2, <2>3 DEF MigrationInv
    <1>4. QED BY <1>2, <1>3

\* The read position is that of a message that was carried, or there is none.
LEMMA CursorsKeep == ASSUME MigrationInv, WriteCursors PROVE MigrationInv'
    <1> DEFINE here == {r \in fresh.messages : Later(r) = IF unread < 0 THEN 0 ELSE unread}
               to   == IF here = {} THEN Nil ELSE CHOOSE r \in here : TRUE
    <1>1. /\ IsFresh(fresh) /\ UNCHANGED <<legacy, timers, files, evidence, snapshot, kept>>
          /\ stage = "cursors" /\ stage' = "closeDb"
          /\ fresh' = [fresh EXCEPT !.cursor = to]
      BY DEF MigrationInv, Shapes, WriteCursors, Same, Go
    <1>2. to = Nil \/ to \in fresh.messages OBVIOUS
    <1> HIDE DEF to
    <1>3. /\ IsFresh(fresh') /\ fresh'.messages = fresh.messages
          /\ fresh'.extras = fresh.extras /\ fresh'.attached = fresh.attached
          /\ fresh'.queued = fresh.queued /\ fresh'.blobs = fresh.blobs /\ fresh'.cursor = to
      BY <1>1 DEF IsFresh
    <1>4. SourceTypes' /\ Shapes' /\ CopyOK' /\ KeptOK'
      BY <1>1, <1>3, WritersRest DEF Loaded, CopiedWal, CopiedDb
    <1>5. HistoryOK'
      BY <1>1, <1>3 DEF MigrationInv, HistoryOK, Lasting, SameMessage, After, Imported
    <1>6. OfStatus("pending")' = OfStatus("pending") /\ \A t : Timer(t)' = Timer(t)
      BY <1>1 DEF OfStatus, Timer
    <1>7. QueueOK' BY <1>1, <1>3, <1>6 DEF MigrationInv, QueueOK, Timer, Queued, Imported
    <1>8. CursorOK' BY <1>2, <1>3 DEF CursorOK
    <1>9. GateOK' BY <1>1 DEF GateOK
    <1>10. QED BY <1>4, <1>5, <1>7, <1>8, <1>9 DEF MigrationInv

\* The gates.
LEMMA ValidateKeeps == ASSUME MigrationInv, Validate PROVE MigrationInv'
    <1>1. /\ IsFresh(fresh) /\ UNCHANGED <<legacy, timers, files, evidence, snapshot, kept, fresh>>
          /\ stage = "validate" /\ stage' = IF Passes THEN "passed" ELSE "refused"
      BY DEF MigrationInv, Shapes, Validate, Same
    <1>2. SourceTypes' /\ Shapes' /\ CopyOK' /\ KeptOK'
      BY <1>1, WritersRest DEF Loaded, CopiedWal, CopiedDb
    <1>3. HistoryOK' BY <1>1 DEF MigrationInv, HistoryOK, Lasting, SameMessage, After, Imported
    <1>4. OfStatus("pending")' = OfStatus("pending") /\ \A t : Timer(t)' = Timer(t)
      BY <1>1 DEF OfStatus, Timer
    <1>5. QueueOK' BY <1>1, <1>4 DEF MigrationInv, QueueOK, Timer, Queued, Imported
    <1>6. CursorOK' BY <1>1 DEF MigrationInv, CursorOK, Placed, Queued, Imported
    <1>7. GateOK' BY <1>1 DEF GateOK, Passes, Collides, SameMessage, SourceUnchanged
    <1>8. QED BY <1>2, <1>3, <1>5, <1>6, <1>7 DEF MigrationInv

\* What a migration knows at each of its stages, whatever the database that it copies
\* holds and whenever the old daemon writes it.
THEOREM MigrationHolds == TransformSpec => []MigrationInv
    <1>1. ASSUME TransformInit PROVE MigrationInv
      <2>1. stage = "captureDb" /\ legacy \in [LegacyRows -> LegacyRow]
        BY <1>1, TransformAssumption DEF TransformInit, MigrateInit, TransformAssumption
      <2>2. IsFresh(fresh) BY <1>1 DEF TransformInit, MigrateInit, Empty, IsFresh
      <2>3. files \in FilePairs
        BY <1>1 DEF TransformInit, MigrateInit, FilePairs
      <2>4. snapshot \in FilePairs /\ evidence \in [before : FilePairs, after : FilePairs]
        BY <1>1, <2>3 DEF TransformInit, MigrateInit, FilePairs
      <2>5. SourceTypes BY <2>1 DEF SourceTypes, Stages
      <2>6. CopyOK /\ KeptOK /\ HistoryOK /\ QueueOK /\ CursorOK /\ GateOK
        BY <2>1 DEF CopyOK, KeptOK, HistoryOK, QueueOK, CursorOK, GateOK, CopiedDb, CopiedWal, Loaded,
                    Imported, Queued, Placed
      <2>7. QED BY <2>2, <2>3, <2>4, <2>5, <2>6 DEF MigrationInv, Shapes
    <1>2. ASSUME MigrationInv, [TransformNext]_transformVars PROVE MigrationInv'
      <2>1. CASE UNCHANGED migrateVars
        <3>1. UNCHANGED <<legacy, timers, files, stage, evidence, snapshot, kept, fresh>>
          BY <2>1 DEF migrateVars
        <3>2. SourceTypes' /\ Shapes' /\ CopyOK' /\ KeptOK'
          BY <1>2, <3>1 DEF MigrationInv, SourceTypes, Shapes, CopyOK, KeptOK, Retained, Named
        <3>3. HistoryOK' /\ CursorOK' /\ GateOK'
          BY <1>2, <3>1 DEF MigrationInv, HistoryOK, Lasting, SameMessage, After, CursorOK, GateOK,
                            Collides, SourceUnchanged
        <3>4. OfStatus("pending")' = OfStatus("pending") /\ \A t : Timer(t)' = Timer(t)
          BY <3>1 DEF OfStatus, Timer
        <3>5. QueueOK' BY <1>2, <3>1, <3>4 DEF MigrationInv, QueueOK, Timer
        <3>6. QED BY <3>2, <3>3, <3>5 DEF MigrationInv
      <2>2. CASE MigrateNext
        BY <1>2, <2>2, SourceKeeps, CopyKeeps, PlanKeeps, WritesKeep, SchedulesKeep, CursorsKeep,
           ValidateKeeps DEF MigrateNext
      <2>3. CASE CarryNext
        BY <2>1, <2>3 DEF CarryNext, BeginCarry, CarryIntent, CarryStops
      <2>4. CASE UNCHANGED transformVars BY <2>1, <2>4 DEF transformVars
      <2>5. QED BY <1>2, <2>2, <2>3, <2>4 DEF TransformNext
    <1>3. QED BY <1>1, <1>2, PTL DEF TransformSpec

\* A migration that passed its gates carried every row that it must and every unsent
\* message: none is torn from its log, shadowed by another or left behind
\* (validateStagedMigration, completeSourceFileEvidence).
THEOREM PassedWhole == TransformSpec => []PassedIsWhole
    <1>1. QED BY MigrationHolds, GatesSuffice, PTL

-----------------------------------------------------------------------------
(* The backfills of a Google thread.                                        *)

Modes     == {"deep", "shallow", "recent"}
WorkSteps == {"idle", "list", "conv", "put", "bound", "fetch", "store", "done"}
Before1st == {"idle", "list", "conv", "put", "bound"}
LastTime  == 2 * PhoneMax + 1
IsWork(r) ==
    /\ r = [mode |-> r.mode, at |-> r.at, cli |-> r.cli, snap |-> r.snap, copy |-> r.copy,
            page |-> r.page, below |-> r.below, pages |-> r.pages, from |-> r.from,
            owed |-> r.owed, missed |-> r.missed, errors |-> r.errors, whole |-> r.whole]
    /\ r.mode \in Modes /\ r.at \in WorkSteps /\ r.page \subseteq Numbers
    /\ r.below \in 1..PhoneMax + 1 /\ r.pages \in Nat /\ r.from \in 0..LastTime
    /\ r.owed \subseteq Numbers /\ r.whole \in BOOLEAN

\* Nothing is owed before the first page; then what is not in s, what is stored or was
\* missed, is below what the pages have reached, and, of a page at hand, on it or below
\* all of it.
WorkFits(r, n, s) ==
    /\ IsWork(r)
    /\ r.owed \subseteq 1..n
    /\ r.at \in Before1st \/ r.pages = 0 => r.owed = {} /\ r.pages = 0 /\ r.below = PhoneMax + 1
    /\ r.at = "fetch" => \A x \in r.owed : x \in s \/ x < r.below
    /\ r.at = "store" =>
          /\ r.page # {} /\ r.pages # 0
          /\ \A x \in r.owed : x \in s \/ x \in r.page \/ \A y \in r.page : x < y
          /\ r.mode = "shallow" \/ (r.mode = "recent" /\ r.from = 0) =>
                r.owed \subseteq s \cup r.page
          /\ r.mode = "recent" /\ r.from # 0 => \A x \in r.owed : 2 * x > r.from
    /\ r.at = "fetch" /\ r.pages # 0 =>
          /\ r.mode # "shallow" /\ (r.mode = "recent" => r.from # 0)
          /\ r.mode = "recent" => \A x \in r.owed : 2 * x > r.from
    /\ r.at = "done" /\ r.whole = TRUE => r.owed \subseteq s
StoreOK ==
    /\ phone \in 0..PhoneMax /\ stored \subseteq Numbers
    /\ \A h \in holders : h[2] \in 0..LastTime
WorkOK == /\ work = [w \in Workers |-> work[w]]
          /\ \A w \in Workers : WorkFits(work[w], phone, stored \cup work[w].missed)
SyncInv == StoreOK /\ WorkOK

\* A nonempty set of numbers has a least.
LEMMA HasLeast ==
    ASSUME NEW T \in SUBSET Nat, T # {} PROVE \E x \in T : \A y \in T : x <= y
    <1>1. PICK x \in T : \A y \in T : ~ (<<y, x>> \in OpToRel(<, Nat))
      BY NatLessThanWellFounded, WFMin
    <1>2. \A y \in T : ~(y < x) BY <1>1 DEF OpToRel
    <1>3. QED BY <1>2

\* A nonempty bounded set has a greatest, which is what Latest finds.
LEMMA LatestFacts ==
    ASSUME NEW N \in Nat, NEW T \in SUBSET (0..N), T # {}
    PROVE  Latest(T) \in T /\ \A y \in T : y <= Latest(T)
    <1> DEFINE D == {N - x : x \in T}
    <1>1. D \in SUBSET Nat /\ D # {} OBVIOUS
    <1>2. PICK d \in D : \A e \in D : d <= e BY <1>1, HasLeast
    <1>3. PICK x \in T : d = N - x BY <1>2
    <1>4. ASSUME NEW y \in T PROVE y <= x
      <2>1. N - y \in D OBVIOUS
      <2>2. N - x <= N - y BY <1>2, <1>3, <2>1
      <2>3. QED BY <2>2
    <1> HIDE DEF D
    <1>5. QED BY <1>3, <1>4 DEF Latest

\* A page is what is latest below a bound: what is not on it is below all of it, and
\* there is none only where nothing is below the bound.
LEMMA PageFacts ==
    ASSUME StoreOK, NEW w \in Workers, IsWork(work[w])
    PROVE  /\ Page(w) \subseteq 1..phone
           /\ \A x \in 1..phone : x < work[w].below => x \in Page(w) \/ \A y \in Page(w) : x < y
           /\ \A y \in Page(w) : y < work[w].below
           /\ Page(w) = {} => phone = 0 \/ work[w].below = 1
    <1> DEFINE b == work[w].below
               Above(x) == {z \in 1..phone : x < z /\ z < b}
    <1>1. b \in 1..PhoneMax + 1 /\ phone \in 0..PhoneMax /\ PhoneMax \in Nat /\ PageSize \in Nat \ {0}
      BY SyncAssumption DEF IsWork, StoreOK, SyncAssumption
    <1>2. Page(w) = {m \in 1..phone : m < b /\ Cardinality(Above(m)) < PageSize} BY DEF Page
    <1> HIDE DEF b
    <1>3. ASSUME NEW x \in 1..phone, NEW y \in 1..phone, y <= x
          PROVE  Cardinality(Above(x)) <= Cardinality(Above(y))
      <2>1. Above(x) \subseteq Above(y) BY <1>1, <1>3
      <2>2. IsFiniteSet(1..phone) BY <1>1, FS_Interval
      <2>3. IsFiniteSet(Above(y))
        <3>1. Above(y) \subseteq 1..phone OBVIOUS
        <3>2. QED BY <2>2, <3>1, FS_Subset
      <2> HIDE DEF Above
      <2>4. QED BY <2>1, <2>3, FS_Subset
    <1>4. ASSUME NEW x \in 1..phone PROVE Cardinality(Above(x)) \in Nat
      <2>1. IsFiniteSet(1..phone) BY <1>1, FS_Interval
      <2>2. Above(x) \subseteq 1..phone OBVIOUS
      <2> HIDE DEF Above
      <2>3. QED BY <2>1, <2>2, FS_Subset, FS_CardinalityType
    <1>5. ASSUME NEW x \in 1..phone, x < b, x \notin Page(w), NEW y \in Page(w) PROVE x < y
      <2>1. y \in 1..phone /\ Cardinality(Above(y)) < PageSize BY <1>2
      <2>2. ~(Cardinality(Above(x)) < PageSize) BY <1>2, <1>5
      <2>3. CASE y <= x
        <3>1. Cardinality(Above(x)) <= Cardinality(Above(y)) BY <1>3, <2>1, <2>3
        <3>2. Cardinality(Above(x)) \in Nat /\ Cardinality(Above(y)) \in Nat BY <1>4, <2>1
        <3> HIDE DEF Above
        <3>3. QED BY <1>1, <2>1, <2>2, <3>1, <3>2
      <2>4. CASE ~(y <= x) BY <2>1, <2>4, <1>1
      <2>5. QED BY <2>3, <2>4
    <1>6. ASSUME Page(w) = {} PROVE phone = 0 \/ b = 1
      <2> DEFINE top == IF phone < b THEN phone ELSE b - 1
      <2>1. CASE top \in 1..phone
        <3>1. top < b BY <1>1
        <3>2. Above(top) = {} BY <1>1
        <3>3. Cardinality(Above(top)) = 0 BY <3>2, FS_EmptySet
        <3> HIDE DEF top, Above
        <3>4. top \in Page(w) BY <1>1, <1>2, <2>1, <3>1, <3>3
        <3>5. QED BY <1>6, <3>4
      <2>2. CASE top \notin 1..phone BY <1>1, <2>2
      <2>3. QED BY <2>1, <2>2
    <1>7. QED BY <1>2, <1>5, <1>6 DEF b

\* The store and the phone only grow, which no worker minds.
LEMMA StillFits ==
    ASSUME NEW r, NEW n, NEW s, NEW m, NEW u, WorkFits(r, n, s), s \subseteq u,
           1..n \subseteq 1..m
    PROVE  WorkFits(r, m, u)
    <1>1. IsWork(r) /\ r.owed \subseteq 1..m BY DEF WorkFits
    <1>2. r.at \in Before1st \/ r.pages = 0 => r.owed = {} /\ r.pages = 0 /\ r.below = PhoneMax + 1
      BY DEF WorkFits
    <1>3. r.at = "fetch" => \A x \in r.owed : x \in u \/ x < r.below
      BY DEF WorkFits
    <1>4. r.at = "store" =>
          /\ r.page # {} /\ r.pages # 0
          /\ \A x \in r.owed : x \in u \/ x \in r.page \/ \A y \in r.page : x < y
          /\ r.mode = "shallow" \/ (r.mode = "recent" /\ r.from = 0) =>
                r.owed \subseteq u \cup r.page
          /\ r.mode = "recent" /\ r.from # 0 => \A x \in r.owed : 2 * x > r.from
      BY DEF WorkFits
    <1>5. r.at = "fetch" /\ r.pages # 0 =>
          /\ r.mode # "shallow" /\ (r.mode = "recent" => r.from # 0)
          /\ r.mode = "recent" => \A x \in r.owed : 2 * x > r.from
      BY DEF WorkFits
    <1>6. r.at = "done" /\ r.whole = TRUE => r.owed \subseteq u
      BY DEF WorkFits
    <1>7. QED BY <1>1, <1>2, <1>3, <1>4, <1>5, <1>6 DEF WorkFits

\* No worker moves.
LEMMA WorkRests ==
    ASSUME SyncInv, StoreOK', work' = work, stored \subseteq stored', phone <= phone'
    PROVE  SyncInv'
    <1>1. 1..phone \subseteq 1..phone' BY DEF SyncInv, StoreOK
    <1>2. ASSUME NEW w \in Workers PROVE WorkFits(work[w], phone', stored' \cup work[w].missed)
      <2>1. stored \cup work[w].missed \subseteq stored' \cup work[w].missed OBVIOUS
      <2>2. WorkFits(work[w], phone, stored \cup work[w].missed) BY DEF SyncInv, WorkOK
      <2>3. QED BY <1>1, <2>1, <2>2, StillFits
    <1>3. QED BY <1>2 DEF SyncInv, WorkOK

\* One worker moves.
LEMMA OneWorks ==
    ASSUME SyncInv, StoreOK', NEW w \in Workers, NEW r, work' = [work EXCEPT ![w] = r],
           stored \subseteq stored', phone' = phone, WorkFits(r, phone, stored' \cup r.missed)
    PROVE  SyncInv'
    <1>1. work = [v \in Workers |-> work[v]] BY DEF SyncInv, WorkOK
    <1>2. work' = [v \in Workers |-> IF v = w THEN r ELSE work[v]] BY <1>1
    <1>3. ASSUME NEW v \in Workers PROVE WorkFits(work[v], phone, stored' \cup work[v].missed)
      <2>1. stored \cup work[v].missed \subseteq stored' \cup work[v].missed OBVIOUS
      <2>2. WorkFits(work[v], phone, stored \cup work[v].missed) BY DEF SyncInv, WorkOK
      <2>3. QED BY <2>1, <2>2, StillFits
    <1>4. ASSUME NEW v \in Workers PROVE WorkFits(work'[v], phone', stored' \cup work'[v].missed)
      <2>1. CASE v = w BY <1>2, <2>1
      <2>2. CASE v # w BY <1>2, <1>3, <2>2
      <2>3. QED BY <2>1, <2>2
    <1>5. work' = [v \in Workers |-> work'[v]] BY <1>2
    <1>6. QED BY <1>4, <1>5 DEF SyncInv, WorkOK

\* What runs until it fetches its first page.
LEMMA Idles ==
    ASSUME NEW r, IsWork(r), r.at \in Before1st \/ (r.at = "fetch" /\ r.pages = 0), r.owed = {},
           r.pages = 0, r.below = PhoneMax + 1, NEW n, NEW s
    PROVE  WorkFits(r, n, s)
    BY DEF WorkFits, Before1st

\* What has given up owes nothing any more.
LEMMA GivenUp ==
    ASSUME NEW r, NEW n, NEW s, WorkFits(r, n, s), NEW q, IsWork(q), q.at = "done",
           q.whole = FALSE, q.owed = r.owed, q.pages = r.pages, q.below = r.below,
           r.at \notin Before1st \/ r.pages = 0
    PROVE  WorkFits(q, n, s)
    BY DEF WorkFits, Before1st

\* A worker ends before it is done.
LEMMA EndsEarly ==
    ASSUME SyncInv, NEW w \in Workers, GiveUp(w) \/ FetchFails(w) PROVE SyncInv'
    <1>1. /\ WorkFits(work[w], phone, stored \cup work[w].missed) /\ IsWork(work[w]) /\ StoreOK
      BY DEF SyncInv, WorkOK, WorkFits
    <1>2. PICK q, e : /\ q = [work[w] EXCEPT !.at = "done", !.whole = FALSE, !.errors = e]
                      /\ work' = [work EXCEPT ![w] = q]
      <2>1. CASE GiveUp(w)
        <3>1. [work[w] EXCEPT !.at = "done", !.whole = FALSE]
                = [work[w] EXCEPT !.at = "done", !.whole = FALSE, !.errors = work[w].errors]
          BY <1>1 DEF IsWork
        <3>2. QED BY <2>1, <3>1 DEF GiveUp, SetWork
      <2>2. CASE FetchFails(w) BY <2>2 DEF FetchFails, SetWork
      <2>3. QED BY <2>1, <2>2
    <1>3. /\ q.mode = work[w].mode /\ q.at = "done" /\ q.page = work[w].page
          /\ q.below = work[w].below /\ q.pages = work[w].pages /\ q.from = work[w].from
          /\ q.owed = work[w].owed /\ q.missed = work[w].missed /\ q.whole = FALSE
      BY <1>1, <1>2 DEF IsWork
    <1>4. IsWork(q)
      <2>1. q = [mode |-> q.mode, at |-> q.at, cli |-> q.cli, snap |-> q.snap, copy |-> q.copy,
            page |-> q.page, below |-> q.below, pages |-> q.pages, from |-> q.from,
            owed |-> q.owed, missed |-> q.missed, errors |-> q.errors, whole |-> q.whole]
        BY <1>1, <1>2 DEF IsWork
      <2>2. QED BY <1>1, <1>3, <2>1 DEF IsWork, WorkSteps
    <1>5. work[w].at \notin Before1st \/ work[w].pages = 0 BY <1>1 DEF WorkFits
    <1>6. WorkFits(q, phone, stored \cup q.missed) BY <1>1, <1>3, <1>4, <1>5, GivenUp
    <1>7. UNCHANGED <<phone, stored, holders>>
      BY DEF GiveUp, FetchFails, WorkOnly, wireVars, storeVars
    <1>8. StoreOK' BY <1>1, <1>7 DEF StoreOK
    <1>9. QED BY <1>2, <1>6, <1>7, <1>8, OneWorks

\* What a worker does before it fetches.
LEMMA Prepares ==
    ASSUME SyncInv, NEW w \in Workers,
           \/ \E mode \in Modes : Start(w, mode)
           \/ ListConversations(w) \/ ReadThread(w) \/ WriteThread(w) \/ Bound(w)
    PROVE  SyncInv'
    <1> DEFINE r == work[w]
    <1>1. /\ WorkFits(r, phone, stored \cup r.missed) /\ IsWork(r) /\ StoreOK
      BY DEF SyncInv, WorkOK, WorkFits
    <1>2. PhoneMax \in Nat BY SyncAssumption DEF SyncAssumption
    <1>3. CASE GiveUp(w) \/ FetchFails(w) BY <1>3, EndsEarly
    <1>4. UNCHANGED <<phone, stored, holders>>
      <2>1. CASE \E mode \in Modes : Start(w, mode) BY <2>1 DEF Start, WorkOnly, wireVars, storeVars
      <2>2. CASE ListConversations(w)
        BY <2>2 DEF ListConversations, GiveUp, FetchFails, WorkOnly, wireVars, storeVars
      <2>3. CASE ReadThread(w) BY <2>3 DEF ReadThread, GiveUp, WorkOnly, wireVars, storeVars
      <2>4. CASE WriteThread(w) BY <2>4 DEF WriteThread, FetchFails, WorkOnly, wireVars, storeVars
      <2>5. CASE Bound(w) BY <2>5 DEF Bound, WorkOnly, wireVars, storeVars
      <2>6. QED BY <2>1, <2>2, <2>3, <2>4, <2>5
    <1>5. StoreOK' BY <1>1, <1>4 DEF StoreOK
    <1>6. ASSUME NEW q, work' = [work EXCEPT ![w] = q], IsWork(q),
                 q.at \in Before1st \/ (q.at = "fetch" /\ q.pages = 0), q.owed = {}, q.pages = 0,
                 q.below = PhoneMax + 1
          PROVE  SyncInv'
      <2>1. WorkFits(q, phone, stored \cup q.missed) BY <1>6, Idles
      <2>2. QED BY <1>4, <1>5, <1>6, <2>1, OneWorks
    <1>7. r.at \in Before1st => r.owed = {} /\ r.pages = 0 /\ r.below = PhoneMax + 1
      BY <1>1 DEF WorkFits
    <1> HIDE DEF r
    <1>8. ASSUME NEW mode \in Modes, Start(w, mode) PROVE SyncInv'
      <2>1. PICK q : /\ q = [NoWork EXCEPT !.mode = mode, !.at = "list", !.cli = client]
                     /\ work' = [work EXCEPT ![w] = q]
        BY <1>8 DEF Start, SetWork
      <2>2. q = [mode |-> mode, at |-> "list", cli |-> client, snap |-> Told, copy |-> Told,
                 page |-> {}, below |-> PhoneMax + 1, pages |-> 0, from |-> 0, owed |-> {},
                 missed |-> {}, errors |-> 0, whole |-> TRUE]
        BY <2>1 DEF NoWork
      <2>3. IsWork(q)
        <3>1. 0 \in 0..LastTime /\ PhoneMax + 1 \in 1..PhoneMax + 1 BY <1>2 DEF LastTime
        <3>2. QED BY <2>2, <3>1 DEF IsWork, WorkSteps
      <2>4. QED BY <1>6, <2>1, <2>2, <2>3 DEF Before1st
    <1>9. ASSUME ListConversations(w), ~GiveUp(w), ~FetchFails(w) PROVE SyncInv'
      <2>1. PICK q, s : q = [r EXCEPT !.at = "conv", !.snap = s] /\ work' = [work EXCEPT ![w] = q]
        BY <1>9 DEF ListConversations, SetWork, r
      <2>2. r.at = "list" BY <1>9 DEF ListConversations, r
      <2>3. IsWork(q) /\ q.at = "conv" /\ q.owed = r.owed /\ q.pages = r.pages /\ q.below = r.below
        BY <1>1, <2>1 DEF IsWork, WorkSteps
      <2>4. QED BY <1>6, <1>7, <2>1, <2>2, <2>3 DEF Before1st
    <1>10. ASSUME ReadThread(w), ~GiveUp(w) PROVE SyncInv'
      <2>1. PICK q : q = [r EXCEPT !.at = "put", !.copy = thread] /\ work' = [work EXCEPT ![w] = q]
        BY <1>10 DEF ReadThread, SetWork, r
      <2>2. r.at = "conv" BY <1>10 DEF ReadThread, r
      <2>3. IsWork(q) /\ q.at = "put" /\ q.owed = r.owed /\ q.pages = r.pages /\ q.below = r.below
        BY <1>1, <2>1 DEF IsWork, WorkSteps
      <2>4. QED BY <1>6, <1>7, <2>1, <2>2, <2>3 DEF Before1st
    <1>11. ASSUME WriteThread(w), ~FetchFails(w) PROVE SyncInv'
      <2> DEFINE next == IF Is(w, {"recent"}) THEN "bound" ELSE "fetch"
      <2>1. PICK e : work' = [work EXCEPT ![w] = [r EXCEPT !.at = next, !.errors = e]]
        <3>1. [r EXCEPT !.at = next] = [r EXCEPT !.at = next, !.errors = r.errors]
          BY <1>1 DEF IsWork
        <3>2. QED BY <1>11, <3>1 DEF WriteThread, SetWork, r
      <2>2. r.at = "put" BY <1>11 DEF WriteThread, r
      <2>3. next \in {"bound", "fetch"} OBVIOUS
      <2>4. PICK at \in {"bound", "fetch"} : at = next BY <2>3
      <2>5. PICK q : q = [r EXCEPT !.at = at, !.errors = e] OBVIOUS
      <2>6. work' = [work EXCEPT ![w] = q] BY <2>1, <2>4, <2>5, Zenon
      <2>7. IsWork(q) /\ q.at = at /\ q.owed = r.owed /\ q.pages = r.pages /\ q.below = r.below
        BY <1>1, <2>5 DEF IsWork, WorkSteps
      <2>8. QED BY <1>6, <1>7, <2>2, <2>4, <2>6, <2>7 DEF Before1st
    <1>12. ASSUME Bound(w) PROVE SyncInv'
      <2> DEFINE rows == {0} \cup {2 * m : m \in stored} \cup {h[2] : h \in holders}
      <2>1. PICK f, q : /\ f = Latest(rows) \/ f = r.from
                        /\ q = [r EXCEPT !.at = "fetch", !.from = f]
                        /\ work' = [work EXCEPT ![w] = q]
        <3>1. [r EXCEPT !.at = "fetch"] = [r EXCEPT !.at = "fetch", !.from = r.from]
          BY <1>1 DEF IsWork
        <3>2. QED BY <1>12, <3>1 DEF Bound, SetWork, r
      <2>2. r.at = "bound" BY <1>12 DEF Bound, r
      <2>3. rows \in SUBSET (0..LastTime) /\ rows # {} /\ LastTime \in Nat
        <3>1. \A m \in stored : 2 * m \in 0..LastTime BY <1>1, <1>2 DEF StoreOK, LastTime, Numbers
        <3>2. \A h \in holders : h[2] \in 0..LastTime BY <1>1 DEF StoreOK
        <3>3. LastTime \in Nat BY <1>2 DEF LastTime
        <3>4. QED BY <3>1, <3>2, <3>3
      <2>4. f \in 0..LastTime
        <3>1. Latest(rows) \in 0..LastTime BY <2>3, LatestFacts
        <3>2. QED BY <1>1, <2>1, <3>1 DEF IsWork
      <2> HIDE DEF rows
      <2>5. IsWork(q) /\ q.at = "fetch" /\ q.owed = r.owed /\ q.pages = r.pages /\ q.below = r.below
        BY <1>1, <2>1, <2>4 DEF IsWork, WorkSteps
      <2>6. QED BY <1>6, <1>7, <2>1, <2>2, <2>5 DEF Before1st
    <1>13. QED BY <1>3, <1>8, <1>9, <1>10, <1>11, <1>12

\* A page, and what the run now owes.
LEMMA Fetches1 == ASSUME SyncInv, NEW w \in Workers, Fetch(w) PROVE SyncInv'
    <1> DEFINE r == work[w]
               have == stored \cup r.missed
    <1>1. /\ WorkFits(r, phone, have) /\ IsWork(r) /\ StoreOK
      BY DEF SyncInv, WorkOK, WorkFits
    <1>2. PhoneMax \in Nat BY SyncAssumption DEF SyncAssumption
    <1>3. CASE GiveUp(w) \/ FetchFails(w) BY <1>3, EndsEarly
    <1>4. CASE ~GiveUp(w) /\ ~FetchFails(w)
      <2> DEFINE owed == IF r.pages = 0 THEN Undertaken(w) ELSE r.owed
                 next == IF Page(w) = {} THEN "done" ELSE "store"
      <2>1. /\ r.at = "fetch"
            /\ work' = [work EXCEPT ![w] = [r EXCEPT !.at = next, !.page = Page(w),
                                                     !.pages = r.pages + 1, !.owed = owed]]
            /\ UNCHANGED <<phone, stored, holders>>
        BY <1>4 DEF Fetch, SetWork, WorkOnly, storeVars, wireVars
      <2>2. StoreOK' BY <1>1, <2>1 DEF StoreOK
      <2>3. /\ Page(w) \subseteq 1..phone
            /\ \A x \in 1..phone : x < r.below => x \in Page(w) \/ \A y \in Page(w) : x < y
            /\ \A y \in Page(w) : y < r.below
            /\ Page(w) = {} => phone = 0 \/ r.below = 1
        BY <1>1, PageFacts
      <2>4. PICK page, n, o, q :
              /\ page = Page(w) /\ n = next /\ o = owed
              /\ q = [r EXCEPT !.at = n, !.page = page, !.pages = r.pages + 1, !.owed = o]
        OBVIOUS
      <2>5. r.at = "fetch" /\ r.pages # 0 =>
              /\ r.mode # "shallow" /\ (r.mode = "recent" => r.from # 0)
              /\ r.mode = "recent" => \A x \in r.owed : 2 * x > r.from
        BY <1>1 DEF WorkFits
      <2>6. /\ r.owed \subseteq 1..phone
            /\ \A x \in r.owed : x \in have \/ x < r.below
            /\ r.pages = 0 => r.below = PhoneMax + 1
        BY <1>1, <2>1 DEF WorkFits
      <2>7. phone \in 0..PhoneMax BY <1>1 DEF StoreOK
      <2>8. r.pages = 0 =>
              /\ o \subseteq 1..phone
              /\ r.mode = "shallow" \/ (r.mode = "recent" /\ r.from = 0) => o = page
              /\ r.mode = "recent" /\ r.from # 0 => \A x \in o : 2 * x > r.from
        BY <2>3, <2>4 DEF Undertaken, Is
      <2>9. o \subseteq 1..phone /\ (r.pages # 0 => o = r.owed) BY <2>4, <2>6, <2>8
      <2>10. \A x \in o : x \in have \/ x < r.below
        BY <1>2, <2>6, <2>7, <2>8, <2>9
      <2>11. /\ q.mode = r.mode /\ q.at = n /\ q.page = page /\ q.below = r.below
             /\ q.pages = r.pages + 1 /\ q.from = r.from /\ q.owed = o
             /\ q.missed = r.missed /\ q.whole = r.whole
             /\ q = [mode |-> q.mode, at |-> q.at, cli |-> q.cli, snap |-> q.snap, copy |-> q.copy,
                     page |-> q.page, below |-> q.below, pages |-> q.pages, from |-> q.from,
                     owed |-> q.owed, missed |-> q.missed, errors |-> q.errors, whole |-> q.whole]
        BY <1>1, <2>4 DEF IsWork
      <2>12. n \in {"done", "store"} /\ (n = "store" <=> page # {}) BY <2>4
      <2>13. 1..phone \subseteq Numbers BY <1>2, <2>7 DEF Numbers
      <2>14. r.pages + 1 \in Nat /\ r.pages + 1 # 0 BY <1>1 DEF IsWork
      <2>15. IsWork(q)
        <3>1. q.mode \in Modes /\ q.at \in WorkSteps BY <1>1, <2>11, <2>12 DEF IsWork, WorkSteps
        <3>2. q.page \subseteq Numbers /\ q.owed \subseteq Numbers
          BY <2>3, <2>4, <2>9, <2>11, <2>13
        <3>3. q.below \in 1..PhoneMax + 1 /\ q.from \in 0..LastTime /\ q.whole \in BOOLEAN
          BY <1>1, <2>11 DEF IsWork
        <3>4. q.pages \in Nat BY <2>11, <2>14
        <3>5. QED BY <2>11, <3>1, <3>2, <3>3, <3>4 DEF IsWork
      <2>16. ASSUME n = "done" PROVE o \subseteq have
        <3>1. page = {} BY <2>12, <2>16
        <3>2. phone = 0 \/ r.below = 1 BY <2>3, <2>4, <3>1
        <3>3. CASE phone = 0 BY <2>9, <3>3
        <3>4. CASE r.below = 1 BY <2>7, <2>9, <2>10, <3>4
        <3>5. QED BY <3>2, <3>3, <3>4
      <2>17. \A x \in o : x \in have \/ x \in page \/ \A y \in page : x < y
        BY <2>3, <2>4, <2>9, <2>10
      <2>18. WorkFits(q, phone, have)
        <3>1. q.at \notin Before1st /\ q.at # "fetch" /\ q.pages # 0
          BY <2>11, <2>12, <2>14 DEF Before1st
        <3>2. q.at = "store" =>
                /\ q.page # {} /\ q.pages # 0
                /\ \A x \in q.owed : x \in have \/ x \in q.page \/ \A y \in q.page : x < y
                /\ q.mode = "shallow" \/ (q.mode = "recent" /\ q.from = 0) =>
                      q.owed \subseteq have \cup q.page
                /\ q.mode = "recent" /\ q.from # 0 => \A x \in q.owed : 2 * x > q.from
          <4>1. q.page # {} <=> q.at = "store" BY <2>11, <2>12
          <4>2. q.mode = "shallow" \/ (q.mode = "recent" /\ q.from = 0) =>
                  q.owed \subseteq have \cup q.page
            BY <2>1, <2>5, <2>8, <2>11
          <4>3. q.mode = "recent" /\ q.from # 0 => \A x \in q.owed : 2 * x > q.from
            BY <2>1, <2>5, <2>8, <2>9, <2>11
          <4>4. QED BY <2>11, <2>17, <3>1, <4>1, <4>2, <4>3
        <3>3. q.at = "done" => q.owed \subseteq have BY <2>11, <2>16
        <3>4. q.owed \subseteq 1..phone BY <2>9, <2>11
        <3>5. QED BY <2>15, <3>1, <3>2, <3>3, <3>4 DEF WorkFits
      <2>19. work' = [work EXCEPT ![w] = q] BY <2>1, <2>4
      <2>20. stored' \cup q.missed = have BY <2>1, <2>11
      <2>21. QED BY <2>1, <2>2, <2>18, <2>19, <2>20, OneWorks
    <1>5. QED BY <1>3, <1>4

\* One message of a page is stored; the page that was the last leaves nothing out.
LEMMA Keeps1 == ASSUME SyncInv, NEW w \in Workers, Keep(w) PROVE SyncInv'
    <1> DEFINE r == work[w]
               have == stored \cup r.missed
               m == Latest(r.page)
               left == r.page \ {m}
               next == IF left # {} THEN "store" ELSE IF LastPage(w, m) THEN "done" ELSE "fetch"
    <1>1. /\ WorkFits(r, phone, have) /\ IsWork(r) /\ StoreOK
      BY DEF SyncInv, WorkOK, WorkFits
    <1>2. PhoneMax \in Nat BY SyncAssumption DEF SyncAssumption
    <1>3. PICK u : /\ r.at = "store" /\ UNCHANGED <<phone, holders>>
                   /\ \/ stored' = stored \cup {m} /\ u = r.missed
                      \/ stored' = stored /\ u = r.missed \cup {m}
                   /\ work' = [work EXCEPT ![w] = [r EXCEPT !.page = left, !.below = m,
                                                            !.missed = u, !.at = next]]
      BY DEF Keep, WentThrough, RowWritten, RowFails, SetWork, WorkOnly, wireVars
    <1>4. /\ r.page # {} /\ r.pages # 0
          /\ \A x \in r.owed : x \in have \/ x \in r.page \/ \A y \in r.page : x < y
          /\ r.mode = "shallow" \/ (r.mode = "recent" /\ r.from = 0) =>
                r.owed \subseteq have \cup r.page
          /\ r.mode = "recent" /\ r.from # 0 => \A x \in r.owed : 2 * x > r.from
      BY <1>1, <1>3 DEF WorkFits
    <1>5. r.page \subseteq Numbers /\ r.owed \subseteq Numbers BY <1>1 DEF IsWork
    <1>6. m \in r.page /\ \A y \in r.page : y <= m
      <2>1. r.page \in SUBSET (0..PhoneMax) BY <1>2, <1>5 DEF Numbers
      <2>2. QED BY <1>2, <1>4, <2>1, LatestFacts
    <1>7. PICK o, page, at, q :
            /\ o = m /\ page = left /\ at = next
            /\ q = [r EXCEPT !.page = page, !.below = o, !.missed = u, !.at = at]
      OBVIOUS
    <1>8. /\ q.mode = r.mode /\ q.at = at /\ q.page = page /\ q.below = o
          /\ q.pages = r.pages /\ q.from = r.from /\ q.owed = r.owed /\ q.missed = u
          /\ q.whole = r.whole
          /\ q = [mode |-> q.mode, at |-> q.at, cli |-> q.cli, snap |-> q.snap, copy |-> q.copy,
                  page |-> q.page, below |-> q.below, pages |-> q.pages, from |-> q.from,
                  owed |-> q.owed, missed |-> q.missed, errors |-> q.errors, whole |-> q.whole]
      BY <1>1, <1>7 DEF IsWork
    <1>9. PICK now : /\ work' = [work EXCEPT ![w] = q]
                     /\ now = stored' \cup q.missed /\ now = have \cup {o}
      <2>1. work' = [work EXCEPT ![w] = q] BY <1>3, <1>7
      <2>2. stored' \cup u = have \cup {m} BY <1>3
      <2>3. QED BY <1>7, <1>8, <2>1, <2>2
    <1>10. /\ o \in r.page /\ \A y \in r.page : y <= o
           /\ page = r.page \ {o}
           /\ at \in {"store", "done", "fetch"} /\ (at = "store" <=> page # {})
           /\ at = "done" => LastPage(w, o)
           /\ at = "fetch" => ~LastPage(w, o)
      BY <1>6, <1>7
    <1> HIDE DEF m, left, next, have
    <1>11. o \in Numbers /\ page \subseteq Numbers BY <1>5, <1>10
    <1>12. IsWork(q)
      <2>1. q.mode \in Modes /\ q.from \in 0..LastTime /\ q.whole \in BOOLEAN /\ q.pages \in Nat
            /\ q.owed \subseteq Numbers
        BY <1>1, <1>8 DEF IsWork
      <2>2. q.at \in WorkSteps BY <1>8, <1>10 DEF WorkSteps
      <2>3. q.below \in 1..PhoneMax + 1 BY <1>2, <1>8, <1>11 DEF Numbers
      <2>4. QED BY <1>8, <1>11, <2>1, <2>2, <2>3 DEF IsWork
    <1>13. \A x \in r.owed : x \in now \/ x < o
      <2>1. ASSUME NEW x \in r.owed, x \in r.page PROVE x \in now \/ x < o
        <3>1. x <= o /\ x \in Nat /\ o \in Nat BY <1>5, <1>10, <1>11, <2>1 DEF Numbers
        <3>2. x = o \/ x < o BY <3>1
        <3>3. QED BY <1>9, <3>2
      <2>2. QED BY <1>4, <1>9, <1>10, <2>1
    <1>14. ASSUME NEW x \in r.owed PROVE x \in now \/ x \in page \/ \A y \in page : x < y
      BY <1>4, <1>9, <1>10
    <1>15. ASSUME at = "done" PROVE r.owed \subseteq now
      <2>1. page = {} /\ LastPage(w, o) BY <1>10, <1>15
      <2>2. CASE o = 1 BY <1>5, <1>13, <2>2, <1>2 DEF Numbers
      <2>3. CASE r.mode = "shallow" \/ (r.mode = "recent" /\ r.from = 0)
        <3>1. r.owed \subseteq have \cup r.page BY <1>4, <2>3
        <3>2. r.page \subseteq {o} BY <1>10, <2>1
        <3>3. QED BY <1>9, <3>1, <3>2
      <2>4. CASE r.mode = "recent" /\ r.from # 0 /\ 2 * o <= r.from
        <3>1. ASSUME NEW x \in r.owed PROVE ~(x < o)
          <4>1. 2 * x > r.from BY <1>4, <2>4
          <4>2. x \in Nat /\ o \in Nat /\ r.from \in Nat
            BY <1>1, <1>2, <1>5, <1>11 DEF Numbers, IsWork, LastTime
          <4>3. QED BY <2>4, <4>1, <4>2
        <3>2. QED BY <1>13, <3>1
      <2>5. QED BY <2>1, <2>2, <2>3, <2>4 DEF LastPage, Reached, Is
    <1>16. ASSUME at = "fetch" PROVE r.mode # "shallow" /\ (r.mode = "recent" => r.from # 0)
      BY <1>10, <1>16 DEF LastPage, Reached, Is
    <1>17. ASSUME r.mode = "shallow" \/ (r.mode = "recent" /\ r.from = 0)
           PROVE  r.owed \subseteq now \cup page
      BY <1>4, <1>9, <1>10, <1>17
    <1>18. WorkFits(q, phone, now)
      <2>1. q.at \notin Before1st /\ q.pages # 0 BY <1>4, <1>8, <1>10 DEF Before1st
      <2>2. q.owed \subseteq 1..phone BY <1>1, <1>8 DEF WorkFits
      <2>3. q.at = "fetch" => \A x \in q.owed : x \in now \/ x < q.below BY <1>8, <1>13
      <2>4. q.at = "store" =>
              /\ q.page # {}
              /\ \A x \in q.owed : x \in now \/ x \in q.page \/ \A y \in q.page : x < y
              /\ q.mode = "shallow" \/ (q.mode = "recent" /\ q.from = 0) =>
                    q.owed \subseteq now \cup q.page
              /\ q.mode = "recent" /\ q.from # 0 => \A x \in q.owed : 2 * x > q.from
        BY <1>4, <1>8, <1>10, <1>14, <1>17
      <2>5. q.at = "fetch" =>
              /\ q.mode # "shallow" /\ (q.mode = "recent" => q.from # 0)
              /\ q.mode = "recent" => \A x \in q.owed : 2 * x > q.from
        BY <1>4, <1>8, <1>16
      <2>6. q.at = "done" => q.owed \subseteq now BY <1>8, <1>15
      <2>7. QED BY <1>12, <2>1, <2>2, <2>3, <2>4, <2>5, <2>6 DEF WorkFits
    <1>19. StoreOK' /\ stored \subseteq stored' BY <1>1, <1>3, <1>7, <1>11 DEF StoreOK
    <1>20. QED BY <1>3, <1>9, <1>18, <1>19, OneWorks

\* The phone, the wire, the user, the live handler and the refreshes only add to the
\* store.
LEMMA OthersAdd ==
    ASSUME SyncInv,
           \/ PhoneGets \/ StatusUpdate \/ AttachmentReady \/ SwapClient \/ MarkThreadRead
           \/ \E s \in LocalSends : SendAccepted(s) \/ RecordSend(s)
           \/ TakeEvent \/ LiveFiles \/ LiveRaises \/ LiveEchoes \/ LiveCounts
           \/ \E m \in Numbers : RefreshAttempt(m)
           \/ UNCHANGED syncVars,
           liveAt.m \in Numbers \/ liveAt.at = "idle"
    PROVE  SyncInv'
    <1>1. StoreOK /\ PhoneMax \in Nat
      BY SyncAssumption DEF SyncInv, SyncAssumption
    <1>2. ASSUME work' = work, phone' \in 0..PhoneMax, phone <= phone', stored' \subseteq Numbers,
                 stored \subseteq stored', \A h \in holders' : h[2] \in 0..LastTime
          PROVE  SyncInv'
      <2>1. StoreOK' BY <1>2 DEF StoreOK
      <2>2. QED BY <1>2, <2>1, WorkRests
    <1>3. phone <= phone BY <1>1 DEF StoreOK
    <1>4. CASE PhoneGets
      BY <1>1, <1>2, <1>4 DEF PhoneGets, storeVars, StoreOK
    <1>5. CASE StatusUpdate \/ AttachmentReady \/ SwapClient \/ MarkThreadRead \/ UNCHANGED syncVars
      <2>1. UNCHANGED <<phone, stored, holders, work>>
        BY <1>5 DEF StatusUpdate, AttachmentReady, SwapClient, MarkThreadRead, syncVars, storeVars,
                    wireVars
      <2>2. QED BY <1>1, <1>2, <1>3, <2>1 DEF StoreOK
    <1>6. ASSUME NEW s \in LocalSends, SendAccepted(s) \/ RecordSend(s) PROVE SyncInv'
      <2>1. UNCHANGED <<phone, stored, work>> /\ holders' \subseteq holders \cup {<<s, 2 * phone + 1>>}
        BY <1>6 DEF SendAccepted, RecordSend, storeVars, wireVars
      <2>2. 2 * phone + 1 \in 0..LastTime BY <1>1 DEF StoreOK, LastTime
      <2>3. \A h \in holders' : h[2] \in 0..LastTime BY <1>1, <2>1, <2>2 DEF StoreOK
      <2>4. QED BY <1>1, <1>2, <1>3, <2>1, <2>3 DEF StoreOK
    <1>7. CASE TakeEvent \/ LiveRaises \/ LiveEchoes \/ LiveCounts
      <2>1. UNCHANGED <<phone, stored, work>> /\ holders' \subseteq holders
        BY <1>7 DEF TakeEvent, LiveRaises, LiveEchoes, LiveCounts, LiveOnly
      <2>2. QED BY <1>1, <1>2, <1>3, <2>1 DEF StoreOK
    <1>8. CASE LiveFiles
      <2>1. /\ UNCHANGED <<phone, work, holders>> /\ stored' \in {stored, stored \cup {liveAt.m}}
            /\ liveAt.m \in Numbers
        BY <1>8 DEF LiveFiles, LiveOnly, RowWritten, RowFails
      <2>2. QED BY <1>1, <1>2, <1>3, <2>1 DEF StoreOK
    <1>9. ASSUME NEW m \in Numbers, RefreshAttempt(m) PROVE SyncInv'
      <2>1. /\ UNCHANGED <<phone, work, holders>> /\ stored' \subseteq stored \cup {m}
            /\ stored \subseteq stored'
        BY <1>9 DEF RefreshAttempt, RowWritten, RowFails, wireVars
      <2>2. QED BY <1>1, <1>2, <1>3, <2>1 DEF StoreOK
    <1>10. QED BY <1>4, <1>5, <1>6, <1>7, <1>8, <1>9

\* What is on the wire, and at the live handler, are messages of the phone.
LiveOK == onWire \in Seq(Numbers) /\ (liveAt.m \in Numbers \/ liveAt.at = "idle")

\* Every step keeps them so.
LEMMA LiveKeeps == ASSUME SyncInv, LiveOK, [SyncNext]_syncVars PROVE LiveOK'
    <1>1. phone \in 0..PhoneMax /\ PhoneMax \in Nat
      BY SyncAssumption DEF SyncInv, StoreOK, SyncAssumption
    <1>2. CASE PhoneGets
      <2>1. phone + 1 \in Numbers BY <1>1, <1>2 DEF PhoneGets, Numbers
      <2>2. QED BY <1>2, <2>1 DEF PhoneGets, LiveOK
    <1>3. CASE StatusUpdate
      <2>1. 1..phone \subseteq Numbers BY <1>1 DEF Numbers
      <2>2. QED BY <1>3, <2>1 DEF StatusUpdate, LiveOK
    <1>4. CASE TakeEvent
      <2>1. onWire' = Tail(onWire) /\ onWire # <<>> BY <1>4 DEF TakeEvent
      <2>2. onWire' \in Seq(Numbers) /\ Head(onWire) \in Numbers BY <2>1 DEF LiveOK
      <2>3. liveAt' = liveAt \/ liveAt' = [at |-> "file", m |-> Head(onWire)] BY <1>4 DEF TakeEvent
      <2>4. QED BY <2>2, <2>3 DEF LiveOK
    <1>5. CASE LiveFiles \/ LiveRaises \/ LiveEchoes \/ LiveCounts
      <2>1. onWire' = onWire /\ liveAt.at # "idle"
        BY <1>5 DEF LiveFiles, LiveRaises, LiveEchoes, LiveCounts, LiveOnly
      <2>2. \E at : liveAt' = [liveAt EXCEPT !.at = at]
        BY <1>5 DEF LiveFiles, LiveRaises, LiveEchoes, LiveCounts, Next1
      <2>3. liveAt'.m = liveAt.m BY <2>2
      <2>4. QED BY <2>1, <2>3 DEF LiveOK
    <1>6. CASE AttachmentReady \/ SwapClient \/ MarkThreadRead \/ UNCHANGED syncVars
      BY <1>6 DEF AttachmentReady, SwapClient, MarkThreadRead, syncVars, wireVars, LiveOK
    <1>7. ASSUME NEW s \in LocalSends, SendAccepted(s) \/ RecordSend(s) PROVE LiveOK'
      BY <1>7 DEF SendAccepted, RecordSend, wireVars, LiveOK
    <1>8. ASSUME NEW m \in Numbers, RefreshAttempt(m) PROVE LiveOK'
      BY <1>8 DEF RefreshAttempt, wireVars, LiveOK
    <1>9. ASSUME NEW w \in Workers,
                 \/ \E mode \in {"deep", "shallow", "recent"} : Start(w, mode)
                 \/ ListConversations(w) \/ ReadThread(w) \/ WriteThread(w) \/ Bound(w)
                 \/ Fetch(w) \/ Keep(w)
          PROVE  LiveOK'
      <2>1. WorkOnly
        BY <1>9 DEF Start, ListConversations, ReadThread, WriteThread, Bound, Fetch, Keep, GiveUp,
                    FetchFails
      <2>2. QED BY <2>1 DEF WorkOnly, wireVars, LiveOK
    <1>10. QED
      BY <1>2, <1>3, <1>4, <1>5, <1>6, <1>7, <1>8, <1>9 DEF SyncNext

\* What each backfill and reconcile has still to store lies where it has not looked yet,
\* or its write was tried and failed, whatever arrives, is sent or is refreshed meanwhile.
THEOREM SyncHolds == SyncSpec => [](SyncInv /\ LiveOK)
    <1>1. ASSUME SyncInit PROVE SyncInv /\ LiveOK
      <2>1. /\ PhoneMax \in Nat /\ PhoneFirst \in 0..PhoneMax /\ LocalFirst \subseteq 1..PhoneFirst
        BY SyncAssumption DEF SyncAssumption
      <2>2. StoreOK BY <1>1, <2>1 DEF SyncInit, StoreOK, Numbers
      <2>3. IsWork(NoWork)
        <3>1. 0 \in 0..LastTime /\ PhoneMax + 1 \in 1..PhoneMax + 1 BY <2>1 DEF LastTime
        <3>2. QED BY <3>1 DEF NoWork, IsWork, Modes, WorkSteps
      <2>4. WorkFits(NoWork, phone, stored \cup NoWork.missed)
        <3>1. NoWork.at = "idle" /\ NoWork.owed = {} /\ NoWork.pages = 0
              /\ NoWork.below = PhoneMax + 1
          BY DEF NoWork
        <3>2. QED BY <2>3, <3>1, Idles DEF Before1st
      <2>5. work = [w \in Workers |-> NoWork] BY <1>1 DEF SyncInit
      <2>6. WorkOK BY <2>4, <2>5 DEF WorkOK
      <2>7. LiveOK BY <1>1 DEF SyncInit, LiveOK
      <2>8. QED BY <2>2, <2>6, <2>7 DEF SyncInv
    <1>2. ASSUME SyncInv /\ LiveOK, [SyncNext]_syncVars PROVE (SyncInv /\ LiveOK)'
      <2>1. LiveOK' BY <1>2, LiveKeeps
      <2>2. SyncInv'
        BY <1>2, OthersAdd, Prepares, Fetches1, Keeps1 DEF SyncNext, LiveOK, Modes
      <2>3. QED BY <2>1, <2>2
    <1>3. QED BY <1>1, <1>2, PTL DEF SyncSpec

\* A backfill or a reconcile that ends without a failed fetch, a new client or the page
\* limit stored all it set out to but the messages whose own write failed
\* (deepBackfillConversationWithToken, reconcileRecentConversationMessages, storeMessage).
THEOREM SyncComplete == SyncSpec => []SyncIsComplete
    <1>1. SyncInv => SyncIsComplete BY DEF SyncInv, WorkOK, WorkFits, SyncIsComplete
    <1>2. QED BY <1>1, SyncHolds, PTL

-----------------------------------------------------------------------------
(* A channel of Slack.                                                      *)

Polls == {"start", "poll"}
\* A writer at its page: the posts that are written, or still to be.
Busy(w) == w.at \in {"write", "save"}
Held(w) == w.page \cup w.seen

TextMaps == UNION {[S -> 1..2] : S \in SUBSET Posts}
CursorType == [oldest : 0..MaxPosts, newest : 0..MaxPosts]
WriterType == [at : {"idle", "fetch", "write", "reread", "save"}, page : SUBSET Posts, text : TextMaps,
               read : CursorType, seen : SUBSET Posts, counts : BOOLEAN]
ChannelType == [kind : [Posts -> Kinds], posts : SUBSET Posts, own : SUBSET Posts,
                edited : SUBSET Posts, deleted : SUBSET Posts]
PushType == [kind : {"post", "delete"}, post : Posts, text : 1..2]
RiverTypes ==
    /\ channel \in ChannelType /\ \E n \in 0..MaxPosts : channel.posts = 1..n
    /\ pushes \in Seq(PushType) /\ sending \in channel.posts \cup {0}
    /\ posted \in [Posts -> 0..2] /\ frames \in [Posts -> 0..2] /\ counted \in [Posts -> Nat]
    /\ cursor \in CursorType /\ task \in [Tasks -> WriterType]

\* What is in hand exists: no cursor and no page is ahead of the channel.
Exists(c) == c.oldest \in channel.posts \cup {0} /\ c.newest \in channel.posts \cup {0}
PushesFit ==
    \A i \in 1..Len(pushes) :
        /\ pushes[i].post \in channel.posts
        /\ pushes[i].kind = "delete" => pushes[i].post \in channel.deleted
WriterFits(w) ==
    /\ Exists(w.read) /\ Held(w) \subseteq channel.posts
    /\ \A p \in w.page : w.text[p] \in 1..2
    /\ w.at = "write" => w.page # {}
    /\ w.at = "fetch" => w.page = {} /\ w.seen = {}
    /\ w.at \in {"reread", "save"} => w.page = {} /\ w.seen # {}
ThreadFits(w) == w.read.oldest = 0 /\ w.read.newest = 0 /\ w.at \in {"idle", "write"}

\* An empty end of the cursor was always empty.
EndsKnown(c, w) == /\ c.oldest = 0 => w.read.oldest = 0
                   /\ c.newest = 0 => w.read.newest = 0

\* A post that nothing more is owed for.
Good(p) ==
    \/ channel.kind[p] # "peer" \/ p \in passed \cup channel.deleted
    \/ posted[p] # 0 /\ frames[p] # 0

\* Between the ends of the cursor, and of each that is in hand, the posts are good;
\* so is the lower end, and what was written of a page.
Covers(c) ==
    c.oldest # 0 => \A p \in channel.posts :
                       c.oldest <= p /\ (p <= c.newest \/ p = c.oldest) => Good(p)
SeenIsGood(w) == \A p \in w.seen : Good(p)

\* What a poll is about to save covers what lies between, but for the page.
PollCovers(w) ==
    Busy(w) =>
        \A h \in Held(w), p \in channel.posts :
            /\ p <= h /\ p \notin w.page
            /\ \/ w.read.oldest # 0 /\ w.read.oldest <= p
               \/ w.read.oldest = 0 /\ \E q \in Held(w) : q <= p
            => Good(p)
\* What an older page is about to save, with the newer end as it was read.
OlderCovers(w) ==
    Busy(w) /\ w.read.newest # 0 =>
        \A q \in Held(w), p \in channel.posts :
            q <= p /\ p <= w.read.newest /\ p \notin w.page => Good(p)
\* An older page that read no newer end takes the one that it finds: from any lower end
\* that may be saved so up to any end that a writer may save, the posts are good.
Low(c, o, b, p) ==
    \/ b = c.oldest /\ c.newest = 0
    \/ /\ o.read.newest = 0
       /\ \/ o.at = "fetch" /\ b = o.read.oldest
          \/ Busy(o) /\ b \in Held(o) /\ p \notin o.page
Ends(c, h) == h = c.oldest \/ h = c.newest
High(t, w, h, p) == \/ Ends(w.read, h)
                    \/ t \in Polls /\ Busy(w) /\ h \in Held(w) /\ p \notin w.page
CursorMeets(c, o) ==
    \A b, h, p \in channel.posts : b <= p /\ p <= h /\ Low(c, o, b, p) /\ Ends(c, h) => Good(p)
WriterMeets(c, o, t, w) ==
    \A b, h, p \in channel.posts : b <= p /\ p <= h /\ Low(c, o, b, p) /\ High(t, w, h, p) => Good(p)
OldMeets(c, o) ==
    CursorMeets(c, o) /\ \A t \in Tasks \ {"older"} : WriterMeets(c, o, t, task[t])

\* A writer, as far as it concerns nobody else.
WriterIs(c, t, w) ==
    /\ WriterFits(w) /\ EndsKnown(c, w) /\ Covers(w.read) /\ SeenIsGood(w)
    /\ t \in Polls => PollCovers(w)
    /\ t = "older" => OlderCovers(w)
    /\ t = "thread" => ThreadFits(w)
WritersAre ==
    /\ Exists(cursor) /\ Covers(cursor)
    /\ \A t \in Tasks : WriterIs(cursor, t, task[t])
    /\ OldMeets(cursor, task["older"])

\* What was counted is stored, and nothing is counted before it exists.
CountsFit ==
    \A p \in Posts : /\ counted[p] > 0 => p \in channel.posts \ channel.own
                     /\ counted[p] > 0 => posted[p] # 0 \/ p \in channel.deleted
                     /\ counted[p] > 1 => p \in channel.deleted

RiverInv == RiverTypes /\ PushesFit /\ WritersAre /\ CountsFit

\* The first and the last of some posts.
LEMMA LeastIs ==
    ASSUME NEW S \in SUBSET Nat, S # {}
    PROVE  Least(S) \in S /\ \A q \in S : Least(S) <= q
  <1>1. \E x \in S : \A q \in S : x <= q
    BY HasLeast
  <1> QED BY <1>1 DEF Least
LEMMA MostIs ==
    ASSUME NEW S \in SUBSET Posts, S # {}
    PROVE  Most(S) \in S /\ \A q \in S : q <= Most(S)
  <1> DEFINE D == {MaxPosts - p : p \in S}
  <1>1. MaxPosts \in Nat /\ S \in SUBSET (0..MaxPosts)
    BY SlackAssumption DEF Posts
  <1>2. D \in SUBSET Nat /\ D # {}
    <2>1. ASSUME NEW p \in S PROVE MaxPosts - p \in Nat
      BY <1>1
    <2>2. D \in SUBSET Nat
      BY <2>1
    <2>3. PICK p : p \in S
      OBVIOUS
    <2>4. MaxPosts - p \in D
      BY <2>3
    <2> QED BY <2>2, <2>4
  <1>3. PICK d \in D : \A e \in D : d <= e
    BY <1>2, HasLeast
  <1>4. PICK x \in S : d = MaxPosts - x
    BY <1>3
  <1>5. ASSUME NEW y \in S PROVE y <= x
    <2>1. MaxPosts - y \in D
      OBVIOUS
    <2>2. MaxPosts - x <= MaxPosts - y
      BY <1>3, <1>4, <2>1
    <2> QED BY <1>1, <2>2
  <1> HIDE DEF D
  <1> QED BY <1>4, <1>5 DEF Most

\* A page is what is latest: all that comes after a post of it is on it too.
LEMMA PageIsLatest ==
    ASSUME NEW S \in SUBSET Posts
    PROVE  /\ LatestPage(S) \subseteq S
           /\ \A p \in LatestPage(S), q \in S : p <= q => q \in LatestPage(S)
  <1>1. SUFFICES ASSUME NEW p \in LatestPage(S), NEW q \in S, p <= q PROVE q \in LatestPage(S)
    BY DEF LatestPage
  <1> DEFINE Beyond(x) == {r \in S : r > x}
  <1>2. IsFiniteSet(Posts) /\ Posts \subseteq Nat
    BY SlackAssumption, FS_Interval DEF Posts
  <1>3. p \in S /\ Cardinality(Beyond(p)) < PageLimit
    BY DEF LatestPage
  <1>4. Beyond(q) \in SUBSET Beyond(p) /\ Beyond(p) \in SUBSET Posts
    <2>1. S \subseteq Nat /\ p \in Nat /\ q \in Nat /\ p <= q
      BY <1>1, <1>2, <1>3
    <2>2. \A r \in Beyond(q) : r \in Beyond(p)
      BY <2>1
    <2> QED BY <2>2
  <1>5. IsFiniteSet(Beyond(p)) /\ IsFiniteSet(Beyond(q)) /\ Cardinality(Beyond(q)) <= Cardinality(Beyond(p))
    <2> HIDE DEF Beyond
    <2> QED BY <1>2, <1>4, FS_Subset
  <1>6. Cardinality(Beyond(p)) \in Nat /\ Cardinality(Beyond(q)) \in Nat /\ PageLimit \in Nat
    <2> HIDE DEF Beyond
    <2> QED BY <1>5, FS_CardinalityType, SlackAssumption
  <1>7. Cardinality(Beyond(q)) < PageLimit
    <2> HIDE DEF Beyond
    <2> QED BY <1>3, <1>5, <1>6
  <1> QED BY <1>7 DEF LatestPage

\* How many posts there are, and the next one.
LEMMA NextPost ==
    ASSUME RiverTypes
    PROVE  \E n \in 0..MaxPosts :
              /\ channel.posts = 1..n /\ Cardinality(channel.posts) + 1 = n + 1
              /\ channel.posts # Posts => n + 1 \in Posts
              /\ \A q \in channel.posts \cup {0} : q < n + 1
              /\ channel.posts \cup {n + 1} = 1..(n + 1)
  <1>1. PICK n \in 0..MaxPosts : channel.posts = 1..n
    BY DEF RiverTypes
  <1>2. n \in Nat /\ MaxPosts \in Nat
    BY SlackAssumption
  <1>3. Cardinality(1..n) = n
    BY <1>2, FS_Interval
  <1>4. channel.posts # Posts => n + 1 \in Posts
    BY <1>1, <1>2 DEF Posts
  <1>5. 1..n \cup {n + 1} = 1..(n + 1) /\ \A q \in 1..n \cup {0} : q < n + 1
    BY <1>2
  <1> QED BY <1>1, <1>2, <1>3, <1>4, <1>5

\* The parts of a writer, and the one that does nothing.
LEMMA WriterParts ==
    /\ \A t \in {"start", "poll", "socket", "older", "thread"} : t \in Tasks
    /\ \A c \in CursorType :
          /\ c.oldest \in 0..MaxPosts /\ c.newest \in 0..MaxPosts
          /\ c = [oldest |-> c.oldest, newest |-> c.newest]
    /\ \A w \in WriterType :
          /\ w.at \in {"idle", "fetch", "write", "reread", "save"} /\ w.page \in SUBSET Posts
          /\ w.text \in TextMaps /\ w.read \in CursorType /\ w.seen \in SUBSET Posts
          /\ w.counts \in BOOLEAN
          /\ w = [at |-> w.at, page |-> w.page, text |-> w.text, read |-> w.read, seen |-> w.seen,
                  counts |-> w.counts]
  BY DEF Tasks, CursorType, WriterType
LEMMA MakesWriter ==
    ASSUME NEW a \in {"idle", "fetch", "write", "reread", "save"}, NEW g \in SUBSET Posts,
           NEW x \in TextMaps, NEW r \in CursorType, NEW s \in SUBSET Posts, NEW b \in BOOLEAN
    PROVE  [at |-> a, page |-> g, text |-> x, read |-> r, seen |-> s, counts |-> b] \in WriterType
  BY DEF WriterType
LEMMA NothingIs ==
    /\ NoTask \in WriterType /\ NoTask.at = "idle" /\ NoTask.page = {} /\ NoTask.seen = {}
    /\ NoTask.read.oldest = 0 /\ NoTask.read.newest = 0
  <1>1. <<>> \in [{} -> 1..2]
    OBVIOUS
  <1>2. {} \in SUBSET Posts
    OBVIOUS
  <1>3. <<>> \in TextMaps
    BY <1>1, <1>2 DEF TextMaps
  <1>4. [oldest |-> 0, newest |-> 0] \in CursorType
    BY SlackAssumption DEF CursorType
  <1>5. "idle" \in {"idle", "fetch", "write", "reread", "save"} /\ FALSE \in BOOLEAN
    OBVIOUS
  <1> QED BY <1>2, <1>3, <1>4, <1>5, MakesWriter DEF NoTask

\* What every step does: posts come after those there are, and a good one stays so.
Grows ==
    /\ channel.posts \subseteq channel'.posts /\ channel'.posts \subseteq Posts
    /\ \A p \in channel'.posts, q \in channel.posts \cup {0} : p \notin channel.posts => q < p
    /\ \A p \in channel.posts : Good(p) => Good(p)'

\* What was covered stays covered: no post comes between.
LEMMA CoversStay ==
    ASSUME Grows, NEW c \in CursorType, Exists(c), Covers(c)
    PROVE  Exists(c)' /\ Covers(c)'
  <1>1. channel'.posts \subseteq Nat /\ c.oldest \in Nat /\ c.newest \in Nat
    BY WriterParts, SlackAssumption DEF Grows, Posts
  <1>2. Exists(c)'
    BY DEF Exists, Grows
  <1>3. ASSUME c.oldest # 0, NEW p \in channel'.posts, c.oldest <= p, p <= c.newest \/ p = c.oldest
        PROVE  Good(p)'
    <2>1. p \in channel.posts
      <3>1. CASE p \notin channel.posts
        <4>1. c.newest < p /\ c.oldest < p
          BY <3>1 DEF Grows, Exists
        <4> QED BY <1>1, <1>3, <4>1
      <3> QED BY <3>1
    <2> QED BY <1>3, <2>1 DEF Covers, Grows
  <1> QED BY <1>2, <1>3 DEF Covers

\* A writer's page is among the posts that were there.
LEMMA WriterStays ==
    ASSUME Grows, NEW c \in CursorType, NEW t \in Tasks, NEW w \in WriterType, WriterIs(c, t, w)
    PROVE  WriterIs(c, t, w)'
  <1>1. channel'.posts \subseteq Nat /\ Held(w) \subseteq channel.posts /\ Held(w) \subseteq Nat
    BY SlackAssumption DEF Grows, Posts, WriterIs, WriterFits
  <1>2. w.read \in CursorType /\ w.read.oldest \in Nat /\ w.read.newest \in Nat
    BY WriterParts, SlackAssumption
  <1>3. Exists(w.read)' /\ Covers(w.read)'
    <2>1. PICK r \in CursorType : r = w.read
      BY <1>2
    <2> QED BY <2>1, CoversStay DEF WriterIs, WriterFits
  <1>4. WriterFits(w)' /\ EndsKnown(c, w)' /\ (t = "thread" => ThreadFits(w)')
    BY <1>3 DEF WriterIs, WriterFits, EndsKnown, ThreadFits, Grows, Held
  <1>5. SeenIsGood(w)'
    BY <1>1 DEF WriterIs, SeenIsGood, Held, Grows
  \* A post that is at or below one of the page was there.
  <1>6. ASSUME NEW h \in channel.posts \cup {0}, NEW p \in channel'.posts, p <= h
        PROVE  p \in channel.posts
    <2>1. h \in Nat /\ p \in Nat
      BY <1>1, <1>6 DEF Grows
    <2> QED BY <1>6, <2>1 DEF Grows
  <1>7. ASSUME t \in Polls PROVE PollCovers(w)'
    BY <1>1, <1>6, <1>7 DEF WriterIs, PollCovers, Grows, Busy, Held
  <1>8. ASSUME t = "older" PROVE OlderCovers(w)'
    <2>1. w.read.newest \in channel.posts \cup {0}
      BY DEF WriterIs, WriterFits, Exists
    <2> QED BY <1>1, <1>6, <1>8, <2>1 DEF WriterIs, OlderCovers, Grows, Busy, Held
  <1> QED BY <1>3, <1>4, <1>5, <1>7, <1>8 DEF WriterIs

\* What an older page may meet.
LEMMA MeetsStays ==
    ASSUME Grows, NEW c \in CursorType, NEW o \in WriterType, NEW t \in Tasks, NEW w \in WriterType,
           Exists(c), WriterFits(o), WriterFits(w)
    PROVE  /\ CursorMeets(c, o) => CursorMeets(c, o)'
           /\ WriterMeets(c, o, t, w) => WriterMeets(c, o, t, w)'
  <1>1. channel'.posts \subseteq Nat /\ channel.posts \cup {0} \subseteq Nat
    BY SlackAssumption DEF Grows, Posts
  <1>2. ASSUME NEW h \in channel.posts \cup {0}, NEW p \in channel'.posts, p <= h
        PROVE  p \in channel.posts
    BY <1>1, <1>2 DEF Grows
  <1>3. ASSUME NEW b \in channel'.posts, NEW h \in channel'.posts, NEW p \in channel'.posts, b <= p, p <= h,
               Ends(c, h) \/ High(t, w, h, p)
        PROVE  /\ h \in channel.posts /\ p \in channel.posts /\ b \in channel.posts
    <2>1. h \in channel.posts \cup {0}
      BY <1>3 DEF Ends, High, Exists, WriterFits
    <2>2. p \in channel.posts
      BY <1>3, <2>1, <1>2
    <2>3. h \in channel.posts
      BY <2>1, <1>1, <1>2
    <2> QED BY <1>2, <1>3, <2>2, <2>3
  <1>4. CursorMeets(c, o) => CursorMeets(c, o)'
    BY <1>3 DEF CursorMeets, Grows, Low, Ends, Busy, Held
  <1>5. WriterMeets(c, o, t, w) => WriterMeets(c, o, t, w)'
    BY <1>3 DEF WriterMeets, Grows, Low, High, Ends, Busy, Held
  <1> QED BY <1>4, <1>5

\* A writer that does nothing is in nobody's way.
LEMMA RestIs ==
    ASSUME RiverTypes, NEW c \in CursorType, NEW t \in Tasks, NEW o \in WriterType
    PROVE  /\ WriterIs(c, t, NoTask) /\ WriterMeets(c, o, t, NoTask)
           /\ CursorMeets(c, o) => CursorMeets(c, NoTask)
           /\ \A u \in Tasks, v \in WriterType :
                 WriterMeets(c, o, u, v) => WriterMeets(c, NoTask, u, v)
  <1>1. PICK n \in WriterType : n = NoTask
    BY NothingIs
  <1>2. n.at = "idle" /\ n.page = {} /\ n.seen = {} /\ n.read.oldest = 0 /\ n.read.newest = 0
    BY <1>1, NothingIs
  <1>3. WriterIs(c, t, n)
    BY <1>2 DEF WriterIs, WriterFits, Exists, Held, EndsKnown, Covers, SeenIsGood, PollCovers, Busy,
                OlderCovers, ThreadFits
  <1>4. 0 \notin channel.posts
    BY DEF RiverTypes, ChannelType, Posts
  <1>5. WriterMeets(c, o, t, n)
    BY <1>2, <1>4 DEF WriterMeets, High, Ends, Busy
  <1>6. \A b, p : Low(c, n, b, p) => Low(c, o, b, p)
    BY <1>2 DEF Low, Busy
  <1>7. CursorMeets(c, o) => CursorMeets(c, n)
    BY <1>6 DEF CursorMeets
  <1>8. \A u \in Tasks, v \in WriterType : WriterMeets(c, o, u, v) => WriterMeets(c, n, u, v)
    BY <1>6 DEF WriterMeets
  <1> QED BY <1>1, <1>3, <1>5, <1>7, <1>8

\* Nobody moves the cursor, and whoever stops is nobody's concern.
LEMMA WritersKept ==
    ASSUME RiverTypes, WritersAre, Grows, UNCHANGED cursor, task' \in [Tasks -> WriterType],
           \A t \in Tasks : task'[t] = task[t] \/ task'[t] = NoTask
    PROVE  WritersAre'
  <1>1. PICK c \in CursorType, o \in WriterType, o2 \in WriterType :
          c = cursor /\ o = task["older"] /\ o2 = task'["older"]
    BY WriterParts DEF RiverTypes
  <1>2. Exists(c) /\ Covers(c) /\ OldMeets(c, o) /\ (o2 = o \/ o2 = NoTask) /\ c = cursor'
    BY <1>1, WriterParts DEF WritersAre
  <1>3. Exists(c)' /\ Covers(c)'
    BY <1>2, CoversStay
  <1>4. ASSUME NEW t \in Tasks, NEW w \in WriterType, w = task'[t] PROVE WriterIs(c, t, w) /\ WriterIs(c, t, w)'
    <2>1. WriterIs(c, t, w)
      <3>1. CASE w = task[t]
        BY <1>1, <3>1 DEF WritersAre
      <3>2. CASE w = NoTask
        BY <3>2, <1>1, RestIs
      <3> QED BY <1>4, <3>1, <3>2
    <2> QED BY <2>1, WriterStays
  <1>5. WriterFits(o2)
    BY <1>1, <1>4, WriterParts DEF WriterIs
  <1>6. CursorMeets(c, o2)'
    <2>1. CursorMeets(c, o2)
      BY <1>2, RestIs, WriterParts DEF OldMeets
    <2>2. "older" \in Tasks
      BY WriterParts
    <2> QED BY <1>2, <1>5, <2>1, <2>2, MeetsStays
  <1>7. ASSUME NEW t \in Tasks \ {"older"}, NEW w \in WriterType, w = task'[t]
        PROVE  WriterMeets(c, o2, t, w)'
    <2>1. WriterMeets(c, o, t, w)
      <3>1. CASE w = task[t]
        BY <1>2, <3>1 DEF OldMeets
      <3>2. CASE w = NoTask
        BY <3>2, RestIs
      <3> QED BY <1>7, <3>1, <3>2
    <2>2. WriterMeets(c, o2, t, w)
      BY <1>2, <2>1, RestIs
    <2>3. WriterFits(w)
      BY <1>4, <1>7 DEF WriterIs
    <2> QED BY <1>2, <1>5, <2>2, <2>3, MeetsStays
  <1>8. OldMeets(cursor, task["older"])'
    <2>1. ASSUME NEW t \in Tasks \ {"older"} PROVE WriterMeets(cursor, task["older"], t, task[t])'
      <3>1. PICK w \in WriterType : w = task'[t]
        OBVIOUS
      <3> QED BY <1>1, <1>2, <1>7, <3>1
    <2>2. CursorMeets(cursor, task["older"])'
      BY <1>1, <1>2, <1>6
    <2> QED BY <2>1, <2>2 DEF OldMeets
  <1>9. ASSUME NEW t \in Tasks PROVE WriterIs(cursor, t, task[t])'
    <2>1. PICK w \in WriterType : w = task'[t]
      OBVIOUS
    <2> QED BY <1>2, <1>4, <2>1
  <1>10. Exists(cursor)' /\ Covers(cursor)'
    BY <1>2, <1>3
  <1> QED BY <1>8, <1>9, <1>10 DEF WritersAre

\* One writer goes on, the cursor stays.
LEMMA WriterTurns ==
    ASSUME RiverTypes, WritersAre, Grows, UNCHANGED cursor, NEW t \in Tasks, NEW w \in WriterType,
           task' = [task EXCEPT ![t] = w], NEW c \in CursorType, c = cursor,
           NEW o \in WriterType, o = task["older"], WriterIs(c, t, w)',
           t # "older" => WriterMeets(c, o, t, w)',
           t = "older" =>
              /\ CursorMeets(c, w)'
              /\ \A u \in Tasks \ {"older"}, v \in WriterType : v = task[u] => WriterMeets(c, w, u, v)'
    PROVE  WritersAre'
  <1>1. task \in [Tasks -> WriterType] /\ "older" \in Tasks
    BY WriterParts DEF RiverTypes
  <1>2. Exists(c) /\ Covers(c) /\ OldMeets(c, o) /\ c = cursor'
    BY DEF WritersAre
  <1>3. Exists(c)' /\ Covers(c)'
    BY <1>2, CoversStay
  <1>4. ASSUME NEW u \in Tasks, u # t, NEW v \in WriterType, v = task[u]
        PROVE  WriterIs(c, u, v)' /\ task'[u] = v
    <2>1. WriterIs(c, u, v)
      BY <1>4 DEF WritersAre
    <2>2. task'[u] = v
      BY <1>1, <1>4
    <2> QED BY <2>1, <2>2, WriterStays
  <1>5. task'[t] = w
    BY <1>1
  <1>6. ASSUME NEW u \in Tasks PROVE WriterIs(cursor, u, task[u])'
    <2>1. CASE u = t
      BY <1>2, <1>5, <2>1
    <2>2. CASE u # t
      <3>1. PICK v \in WriterType : v = task[u]
        BY <1>1
      <3>2. WriterIs(c, u, v)' /\ task'[u] = v
        BY <1>4, <2>2, <3>1
      <3> QED BY <1>2, <3>2
    <2> QED BY <2>1, <2>2
  <1>7. OldMeets(cursor, task["older"])'
    <2>1. CASE t = "older"
      <3>1. CursorMeets(cursor, task["older"])'
        BY <1>2, <1>5, <2>1
      <3>2. ASSUME NEW u \in Tasks \ {"older"} PROVE WriterMeets(cursor, task["older"], u, task[u])'
        <4>1. PICK v \in WriterType : v = task[u]
          BY <1>1
        <4>2. task'[u] = v
          BY <1>1, <2>1, <4>1
        <4>3. WriterMeets(c, w, u, v)'
          BY <2>1, <4>1
        <4> QED BY <1>2, <1>5, <2>1, <4>2, <4>3
      <3> QED BY <3>1, <3>2 DEF OldMeets
    <2>2. CASE t # "older"
      <3>1. task'["older"] = o /\ WriterIs(c, "older", o) /\ WriterFits(o)
        BY <1>1, <2>2 DEF WritersAre, WriterIs
      <3>2. CursorMeets(c, o)'
        BY <1>1, <1>2, <3>1, MeetsStays DEF OldMeets
      <3>3. ASSUME NEW u \in Tasks \ {"older"} PROVE WriterMeets(cursor, task["older"], u, task[u])'
        <4>1. CASE u = t
          BY <1>2, <1>5, <2>2, <3>1, <4>1
        <4>2. CASE u # t
          <5>1. PICK v \in WriterType : v = task[u]
            BY <1>1
          <5>2. task'[u] = v /\ WriterMeets(c, o, u, v) /\ WriterFits(v)
            BY <1>1, <1>2, <4>2, <5>1 DEF OldMeets, WritersAre, WriterIs
          <5>3. WriterMeets(c, o, u, v)'
            BY <1>2, <3>1, <5>1, <5>2, MeetsStays
          <5> QED BY <1>2, <3>1, <5>2, <5>3
        <4> QED BY <4>1, <4>2
      <3> QED BY <1>2, <3>1, <3>2, <3>3 DEF OldMeets
    <2> QED BY <2>1, <2>2
  <1>8. Exists(cursor)' /\ Covers(cursor)'
    BY <1>2, <1>3
  <1> QED BY <1>6, <1>7, <1>8 DEF WritersAre

\* A writer reads the cursor.
LEMMA ReadsCursor ==
    ASSUME RiverTypes, WritersAre, Grows, UNCHANGED cursor, NEW t \in Tasks \ {"thread"}, NEW w \in WriterType,
           task' = [task EXCEPT ![t] = w], NEW c \in CursorType, c = cursor, w.read = c,
           \/ w.at = "fetch" /\ w.page = {} /\ w.seen = {}
           \/ t = "socket" /\ w.at = "save" /\ w.page = {} /\ w.seen = task[t].seen /\ w.seen # {}
    PROVE  WritersAre'
  <1>1. PICK o \in WriterType : o = task["older"]
    BY WriterParts DEF RiverTypes
  <1>2. Exists(c) /\ Covers(c) /\ OldMeets(c, o) /\ \A u \in Tasks : WriterIs(c, u, task[u])
    BY <1>1 DEF WritersAre
  <1>3. WriterIs(c, t, w)
    <2>1. w.seen \subseteq channel.posts /\ \A p \in w.seen : Good(p)
      BY <1>2 DEF WriterIs, WriterFits, SeenIsGood, Held
    <2>2. t = "socket" => t \notin Polls
      BY DEF Polls
    <2> QED BY <1>2, <2>1, <2>2
        DEF WriterIs, WriterFits, Held, EndsKnown, SeenIsGood, PollCovers, Busy, OlderCovers, ThreadFits
  <1>4. WriterIs(c, t, w)' /\ WriterFits(w) /\ WriterFits(o)
    BY <1>1, <1>2, <1>3, WriterStays, WriterParts DEF WriterIs
  <1>5. ASSUME t # "older" PROVE WriterMeets(c, o, t, w)'
    <2>1. \A h, p : High(t, w, h, p) => Ends(c, h)
      BY DEF High, Busy, Polls
    <2>2. WriterMeets(c, o, t, w)
      BY <1>2, <2>1 DEF OldMeets, CursorMeets, WriterMeets
    <2> QED BY <1>2, <1>4, <2>2, MeetsStays
  <1>6. ASSUME t = "older"
        PROVE  /\ CursorMeets(c, w)'
               /\ \A u \in Tasks \ {"older"}, v \in WriterType : v = task[u] => WriterMeets(c, w, u, v)'
    <2>1. \A b, p : Low(c, w, b, p) => Low(c, o, b, p)
      BY <1>6 DEF Low, Busy
    <2>2. CursorMeets(c, w)
      BY <1>2, <2>1 DEF OldMeets, CursorMeets
    <2>3. ASSUME NEW u \in Tasks \ {"older"}, NEW v \in WriterType, v = task[u] PROVE WriterMeets(c, w, u, v)'
      <3>1. WriterMeets(c, o, u, v) /\ WriterFits(v)
        BY <1>2, <2>3 DEF OldMeets, WriterIs
      <3>2. WriterMeets(c, w, u, v)
        BY <2>1, <3>1 DEF WriterMeets
      <3> QED BY <1>2, <1>4, <3>1, <3>2, MeetsStays
    <2> QED BY <1>2, <1>4, <1>6, <2>2, <2>3, MeetsStays
  <1> QED BY <1>1, <1>4, <1>5, <1>6, WriterTurns

\* The posts stay, and what was good stays good.
LEMMA GrowsStill ==
    ASSUME RiverTypes, UNCHANGED channel, passed \subseteq passed',
           \A p \in channel.posts : posted[p] # 0 /\ frames[p] # 0 =>
              (posted'[p] # 0 /\ frames'[p] # 0) \/ p \in channel.deleted
    PROVE  Grows
  BY DEF RiverTypes, ChannelType, Grows, Good

\* A reader has what it keeps of its page.
Takes(t, v, taken, w) ==
    /\ t \in Tasks /\ v \in WriterType /\ v = task[t] /\ v.at = "fetch" /\ w \in WriterType
    /\ task' = [task EXCEPT ![t] = w] /\ w.page = Written(taken) /\ w.seen = {} /\ w.read = v.read
    /\ w.at = "idle" \/ (w.at = "write" /\ w.page # {})
    /\ \A p \in w.page : w.text[p] \in 1..2

\* A poll has its page: what it leaves out it leaves out for good, or it lies below all
\* that anyone has.
LEMMA PollFetches ==
    ASSUME RiverTypes, WritersAre, UNCHANGED <<channel, cursor, posted, frames>>,
           NEW t \in Polls, NEW v, NEW new, NEW taken, NEW w, Takes(t, v, taken, w),
           new = InRange(v.read.newest, 0), taken = LatestPage(new),
           passed' = passed \cup LeftOut(t, new \ taken)
    PROVE  WritersAre'
  <1> /\ v \in WriterType /\ v = task[t] /\ v.at = "fetch" /\ w \in WriterType
      /\ task' = [task EXCEPT ![t] = w] /\ w.page = Written(taken) /\ w.seen = {} /\ w.read = v.read
      /\ w.at = "idle" \/ (w.at = "write" /\ w.page # {})
      /\ \A p \in w.page : w.text[p] \in 1..2
    BY DEF Takes
  <1>1. PICK c \in CursorType, o \in WriterType : c = cursor /\ o = task["older"]
    BY WriterParts DEF RiverTypes
  <1>2. t \in Tasks /\ t # "older" /\ t # "thread" /\ "older" \in Tasks
    BY WriterParts DEF Polls
  <1>3. /\ Exists(c) /\ Covers(c) /\ CursorMeets(c, o) /\ WriterMeets(c, o, t, v)
        /\ WriterIs(c, t, v) /\ WriterIs(c, "older", o)
    BY <1>1, <1>2 DEF WritersAre, OldMeets
  <1>4. Grows
    BY GrowsStill
  <1>5. /\ channel.posts \subseteq Posts /\ Posts \subseteq Nat \ {0} /\ new \subseteq channel.posts
        /\ taken \subseteq new /\ (\A p \in taken, q \in new : p <= q => q \in taken)
        /\ \A p \in new : p > v.read.newest
    <2>1. channel.posts \subseteq Posts /\ Posts \subseteq Nat \ {0}
      BY SlackAssumption DEF RiverTypes, ChannelType, Posts
    <2>2. new \subseteq channel.posts /\ \A p \in new : p > v.read.newest
      BY DEF InRange
    <2> QED BY <2>1, <2>2, PageIsLatest
  <1>6. /\ v.read.newest \in Nat /\ v.read.oldest \in Nat /\ c.oldest \in Nat /\ c.newest \in Nat
        /\ o.read.oldest \in Nat /\ Held(o) \subseteq Nat \ {0}
    <2>1. Held(o) \subseteq Posts
      BY WriterParts DEF Held
    <2> QED BY <1>5, <2>1, WriterParts, SlackAssumption
  <1>7. w.page \subseteq taken
    BY DEF Written
  <1>8. ASSUME NEW p \in channel.posts, p > v.read.newest, p \notin w.page
        PROVE  \/ Good(p)'
               \/ /\ p \in new \ taken /\ v.read.newest = 0
                  /\ \A q \in {v.read.oldest, c.oldest} \cup Held(o) : ~(0 < q /\ q < p)
    <2>1. CASE p \notin new
      <3>1. p \in channel.deleted \/ channel.kind[p] = "reply"
        BY <1>8, <2>1 DEF InRange
      <3> QED BY <3>1 DEF Good
    <2>2. CASE p \in taken
      <3>1. channel.kind[p] = "blank"
        BY <1>8, <2>2 DEF Written
      <3> QED BY <3>1 DEF Good
    <2>3. CASE p \in new \ taken
      <3>1. CASE p \in passed'
        BY <3>1 DEF Good
      <3>2. CASE p \notin passed'
        BY <1>1, <2>3, <3>2 DEF LeftOut, PageBelow, Held
      <3> QED BY <3>1, <3>2
    <2> QED BY <2>1, <2>2, <2>3
  <1>9. \A p \in channel.posts : Good(p) => Good(p)'
    BY <1>4 DEF Grows
  <1>10. PollCovers(w)'
    <2>1. ASSUME NEW h \in w.page, NEW p \in channel.posts, p <= h, p \notin w.page,
                 \/ w.read.oldest # 0 /\ w.read.oldest <= p
                 \/ w.read.oldest = 0 /\ \E q \in w.page : q <= p
          PROVE  Good(p)'
      <3>1. p \in Nat \ {0}
        BY <1>5
      <3>2. CASE p <= v.read.newest
        <4>1. ~ \E q \in w.page : q <= p
          BY <1>5, <1>6, <1>7, <3>1, <3>2
        <4>2. Good(p)
          BY <1>3, <2>1, <3>2, <4>1 DEF WriterIs, Covers
        <4> QED BY <1>9, <4>2
      <3>3. CASE p > v.read.newest /\ ~Good(p)'
        <4>1. /\ p \in new \ taken /\ v.read.newest = 0
              /\ ~(0 < v.read.oldest /\ v.read.oldest < p)
          BY <1>8, <2>1, <3>3
        <4>2. ~ \E q \in w.page : q <= p
          BY <1>5, <1>7, <4>1
        <4>3. v.read.oldest = p
          BY <1>6, <2>1, <3>1, <4>1, <4>2
        <4>4. Good(p)
          BY <1>3, <3>1, <4>3 DEF WriterIs, Covers
        <4> QED BY <1>9, <4>4
      <3> QED BY <1>6, <3>1, <3>2, <3>3
    <2>2. Held(w) = w.page
      BY DEF Held
    <2> QED BY <2>1, <2>2 DEF PollCovers, Held
  <1>11. WriterIs(c, t, w)'
    <2>1. Covers(w.read)' /\ Exists(w.read)'
      <3>1. PICK r \in CursorType : r = v.read
        BY WriterParts
      <3> QED BY <1>3, <1>4, <3>1, CoversStay DEF WriterIs, WriterFits
    <2>2. WriterFits(w)'
      BY <1>5, <1>7, <2>1 DEF WriterFits, Held
    <2>3. EndsKnown(c, w)' /\ SeenIsGood(w)'
      BY <1>3 DEF WriterIs, EndsKnown, SeenIsGood
    <2> QED BY <1>2, <1>10, <2>1, <2>2, <2>3 DEF WriterIs
  <1>12. WriterMeets(c, o, t, w)'
    <2>1. SUFFICES ASSUME NEW b \in channel.posts, NEW h \in channel.posts, NEW p \in channel.posts,
                          b <= p, p <= h, Low(c, o, b, p), High(t, w, h, p)
                   PROVE  Good(p)'
      BY DEF WriterMeets, Low, High, Ends, Busy, Held
    <2>2. p \in Nat \ {0} /\ b \in Nat \ {0} /\ h \in Nat \ {0}
      BY <1>5
    <2>3. CASE Ends(v.read, h)
      <3>1. High(t, v, h, p)
        BY <2>3 DEF High
      <3> QED BY <1>3, <1>9, <2>1, <3>1 DEF WriterMeets
    <2>4. CASE p <= v.read.newest
      <3>1. v.read.newest \in channel.posts
        BY <1>3, <1>6, <2>2, <2>4 DEF WriterIs, WriterFits, Exists
      <3>2. High(t, v, v.read.newest, p)
        BY DEF High, Ends
      <3> QED BY <1>3, <1>9, <2>1, <2>4, <3>1, <3>2 DEF WriterMeets
    <2>5. CASE p > v.read.newest /\ ~Ends(v.read, h) /\ ~Good(p)'
      <3>1. p \notin w.page
        BY <2>1, <2>5 DEF High
      <3>2. \A q \in {v.read.oldest, c.oldest} \cup Held(o) : ~(0 < q /\ q < p)
        BY <1>8, <2>5, <3>1
      <3>3. CASE b = c.oldest
        <4>1. b = p
          BY <2>1, <2>2, <3>2, <3>3
        <4> QED BY <1>3, <1>9, <2>2, <3>3, <4>1 DEF Covers
      <3>4. CASE o.at = "fetch" /\ b = o.read.oldest /\ b # c.oldest
        <4>1. c.oldest # 0
          BY <1>3, <2>2, <3>4 DEF WriterIs, EndsKnown
        <4>2. p <= c.oldest /\ c.oldest \in channel.posts
          BY <1>3, <1>6, <2>2, <3>2, <4>1 DEF Exists
        <4> QED BY <1>3, <1>9, <2>1, <4>2 DEF CursorMeets, Ends
      <3>5. CASE b \in Held(o) /\ p \notin o.page
        <4>1. b = p
          BY <2>1, <2>2, <3>2, <3>5
        <4>2. p \in o.seen
          BY <3>5, <4>1 DEF Held
        <4> QED BY <1>3, <1>9, <4>2 DEF WriterIs, SeenIsGood
      <3> QED BY <2>1, <3>3, <3>4, <3>5 DEF Low
    <2> QED BY <1>6, <2>2, <2>3, <2>4, <2>5
  <1> QED BY <1>1, <1>2, <1>4, <1>11, <1>12, WriterTurns

\* An older page reaches down from the lower end that was read, without a gap.
LEMMA OlderFetches ==
    ASSUME RiverTypes, WritersAre, UNCHANGED <<channel, cursor, posted, frames, passed>>,
           NEW v, NEW new, NEW taken, NEW w, Takes("older", v, taken, w),
           new = InRange(0, v.read.oldest), taken = LatestPage(new)
    PROVE  WritersAre'
  <1> /\ v \in WriterType /\ v = task["older"] /\ v.at = "fetch" /\ w \in WriterType
      /\ task' = [task EXCEPT !["older"] = w] /\ w.page = Written(taken) /\ w.seen = {} /\ w.read = v.read
      /\ w.at = "idle" \/ (w.at = "write" /\ w.page # {})
      /\ \A p \in w.page : w.text[p] \in 1..2
    BY DEF Takes
  <1>1. PICK c \in CursorType : c = cursor
    BY DEF RiverTypes
  <1>2. "older" \in Tasks /\ "older" \notin Polls
    BY WriterParts DEF Polls
  <1>3. Exists(c) /\ Covers(c) /\ OldMeets(c, v) /\ \A u \in Tasks : WriterIs(c, u, task[u])
    BY <1>1 DEF WritersAre
  <1>4. Grows
    BY GrowsStill
  <1>5. /\ channel.posts \subseteq Posts /\ Posts \subseteq Nat \ {0} /\ new \subseteq channel.posts
        /\ taken \subseteq new /\ \A p \in taken, q \in new : p <= q => q \in taken
    <2>1. channel.posts \subseteq Posts /\ Posts \subseteq Nat \ {0}
      BY SlackAssumption DEF RiverTypes, ChannelType, Posts
    <2>2. new \subseteq channel.posts
      BY DEF InRange
    <2> QED BY <2>1, <2>2, PageIsLatest
  <1>6. v.read.newest \in Nat /\ v.read.oldest \in Nat
    BY WriterParts, SlackAssumption
  <1>7. w.page \subseteq taken /\ Held(w) = w.page
    BY DEF Written, Held
  <1>8. WriterIs(c, "older", v)
    BY <1>2, <1>3
  <1>9. \A p \in channel.posts : Good(p) => Good(p)'
    BY <1>4 DEF Grows
  <1>10. ASSUME NEW b \in w.page, NEW p \in channel.posts, b <= p, p \notin w.page
         PROVE  Good(p)' \/ (v.read.oldest # 0 /\ v.read.oldest <= p)
    <2>1. CASE p \notin new
      <3>1. p \in channel.deleted \/ channel.kind[p] = "reply" \/ (v.read.oldest # 0 /\ ~(p < v.read.oldest))
        BY <1>5, <2>1 DEF InRange
      <3>2. p \in Nat
        BY <1>5
      <3> QED BY <1>6, <3>1, <3>2 DEF Good
    <2>2. CASE p \in new
      <3>1. p \in taken
        BY <1>5, <1>7, <1>10, <2>2
      <3>2. channel.kind[p] = "blank"
        BY <1>10, <3>1 DEF Written
      <3> QED BY <3>2 DEF Good
    <2> QED BY <2>1, <2>2
  <1>11. OlderCovers(w)'
    <2>1. ASSUME NEW q \in w.page, NEW p \in channel.posts, q <= p, p <= v.read.newest, p \notin w.page
          PROVE  Good(p)'
      <3>1. CASE v.read.oldest # 0 /\ v.read.oldest <= p
        BY <1>8, <1>9, <2>1, <3>1 DEF WriterIs, Covers
      <3> QED BY <1>10, <2>1, <3>1
    <2> QED BY <1>7, <2>1 DEF OlderCovers, Held
  <1>12. WriterIs(c, "older", w)'
    <2>1. Covers(w.read)' /\ Exists(w.read)'
      <3>1. PICK r \in CursorType : r = v.read
        BY WriterParts
      <3> QED BY <1>4, <1>8, <3>1, CoversStay DEF WriterIs, WriterFits
    <2>2. WriterFits(w)'
      BY <1>5, <1>7, <2>1 DEF WriterFits, Held
    <2>3. EndsKnown(c, w)' /\ SeenIsGood(w)'
      BY <1>8 DEF WriterIs, EndsKnown, SeenIsGood
    <2> QED BY <1>2, <1>11, <2>1, <2>2, <2>3 DEF WriterIs
  \* A lower end that is new has the one that was read above it.
  <1>13. ASSUME NEW b \in channel.posts, NEW p \in channel.posts, b <= p, Low(c, w, b, p)
         PROVE  Good(p)' \/ \E d \in channel.posts : d <= p /\ Low(c, v, d, p)
    <2>1. CASE b = c.oldest /\ c.newest = 0
      BY <1>13, <2>1 DEF Low
    <2>2. CASE v.read.newest = 0 /\ b \in w.page /\ p \notin w.page
      <3>1. CASE v.read.oldest # 0 /\ v.read.oldest <= p
        <4>1. v.read.oldest \in channel.posts
          BY <1>8, <3>1 DEF WriterIs, WriterFits, Exists
        <4>2. Low(c, v, v.read.oldest, p)
          BY <2>2 DEF Low
        <4> QED BY <3>1, <4>1, <4>2
      <3> QED BY <1>10, <1>13, <2>2, <3>1
    <2> QED BY <1>7, <1>13, <2>1, <2>2 DEF Low
  <1>14. CursorMeets(c, w)'
    <2>1. SUFFICES ASSUME NEW b \in channel.posts, NEW h \in channel.posts, NEW p \in channel.posts,
                          b <= p, p <= h, Low(c, w, b, p), Ends(c, h)
                   PROVE  Good(p)'
      BY DEF CursorMeets, Low, Ends, Busy, Held
    <2> QED BY <1>3, <1>9, <1>13, <2>1 DEF OldMeets, CursorMeets
  <1>15. ASSUME NEW u \in Tasks \ {"older"}, NEW x \in WriterType, x = task[u] PROVE WriterMeets(c, w, u, x)'
    <2>1. SUFFICES ASSUME NEW b \in channel.posts, NEW h \in channel.posts, NEW p \in channel.posts,
                          b <= p, p <= h, Low(c, w, b, p), High(u, x, h, p)
                   PROVE  Good(p)'
      BY DEF WriterMeets, Low, High, Ends, Busy, Held
    <2>2. WriterMeets(c, v, u, x)
      BY <1>3, <1>15 DEF OldMeets
    <2> QED BY <1>9, <1>13, <2>1, <2>2 DEF WriterMeets
  <1> QED BY <1>1, <1>2, <1>4, <1>12, <1>14, <1>15, WriterTurns

\* A post of the page is written, or given up for good.
LEMMA PageShrinks ==
    ASSUME RiverTypes, WritersAre, Grows, UNCHANGED <<channel, cursor>>, NEW t \in Tasks, NEW v \in WriterType,
           v = task[t], v.at = "write", NEW p \in v.page, Good(p)', NEW w \in WriterType,
           task' = [task EXCEPT ![t] = w], w.page = v.page \ {p}, w.seen = v.seen \cup {p}, w.read = v.read,
           \/ w.at = "write" /\ w.page # {}
           \/ /\ w.page = {}
              /\ (t = "socket" /\ w.at = "reread") \/ (t \notin {"socket", "thread"} /\ w.at = "save"),
           \A q \in w.page : w.text[q] \in 1..2
    PROVE  WritersAre'
  <1>1. PICK c \in CursorType, o \in WriterType : c = cursor /\ o = task["older"]
    BY WriterParts DEF RiverTypes
  <1>2. "older" \in Tasks /\ "socket" \notin Polls /\ "older" # "socket"
    BY WriterParts DEF Polls
  <1>3. Exists(c) /\ Covers(c) /\ OldMeets(c, o) /\ WriterIs(c, t, v)
    BY <1>1 DEF WritersAre
  <1>4. Held(w) = Held(v) /\ Busy(v)
    BY DEF Held, Busy
  <1>5. \A q \in channel.posts : Good(q) => Good(q)'
    BY DEF Grows
  <1>6. v.seen \subseteq channel.posts /\ v.page \subseteq channel.posts
    BY <1>3 DEF WriterIs, WriterFits, Held
  <1>7. WriterIs(c, t, w)'
    <2>1. Covers(w.read)' /\ Exists(w.read)'
      <3>1. PICK r \in CursorType : r = v.read
        BY WriterParts
      <3> QED BY <1>3, <3>1, CoversStay DEF WriterIs, WriterFits
    <2>2. WriterFits(w)'
      BY <1>3, <1>4, <2>1 DEF WriterIs, WriterFits
    <2>3. EndsKnown(c, w)' /\ SeenIsGood(w)' /\ (t = "thread" => ThreadFits(w)')
      BY <1>3, <1>5, <1>6 DEF WriterIs, EndsKnown, SeenIsGood, ThreadFits
    <2>4. ASSUME t \in Polls PROVE PollCovers(w)'
      BY <1>3, <1>4, <1>5, <2>4 DEF WriterIs, PollCovers
    <2>5. ASSUME t = "older" PROVE OlderCovers(w)'
      BY <1>3, <1>4, <1>5, <2>5 DEF WriterIs, OlderCovers
    <2> QED BY <2>1, <2>2, <2>3, <2>4, <2>5 DEF WriterIs
  <1>8. ASSUME t # "older" PROVE WriterMeets(c, o, t, w)'
    <2>1. SUFFICES ASSUME NEW b \in channel.posts, NEW h \in channel.posts, NEW q \in channel.posts,
                          b <= q, q <= h, Low(c, o, b, q), High(t, w, h, q)
                   PROVE  Good(q)'
      BY DEF WriterMeets, Low, High, Ends, Busy, Held
    <2>2. q = p \/ High(t, v, h, q)
      BY <1>4, <2>1 DEF High
    <2> QED BY <1>3, <1>5, <1>8, <2>1, <2>2 DEF OldMeets, WriterMeets
  <1>9. ASSUME t = "older"
        PROVE  /\ CursorMeets(c, w)'
               /\ \A u \in Tasks \ {"older"}, x \in WriterType : x = task[u] => WriterMeets(c, w, u, x)'
    <2>1. ASSUME NEW b, NEW q, Low(c, w, b, q) PROVE q = p \/ Low(c, o, b, q)
      BY <1>1, <1>4, <1>9, <2>1 DEF Low
    <2>2. CursorMeets(c, w)'
      <3>1. SUFFICES ASSUME NEW b \in channel.posts, NEW h \in channel.posts, NEW q \in channel.posts,
                            b <= q, q <= h, Low(c, w, b, q), Ends(c, h)
                     PROVE  Good(q)'
        BY DEF CursorMeets, Low, Ends, Busy, Held
      <3> QED BY <1>3, <1>5, <2>1, <3>1 DEF OldMeets, CursorMeets
    <2>3. ASSUME NEW u \in Tasks \ {"older"}, NEW x \in WriterType, x = task[u] PROVE WriterMeets(c, w, u, x)'
      <3>1. SUFFICES ASSUME NEW b \in channel.posts, NEW h \in channel.posts, NEW q \in channel.posts,
                            b <= q, q <= h, Low(c, w, b, q), High(u, x, h, q)
                     PROVE  Good(q)'
        BY DEF WriterMeets, Low, High, Ends, Busy, Held
      <3>2. WriterMeets(c, o, u, x)
        BY <1>3, <2>3 DEF OldMeets
      <3> QED BY <1>5, <2>1, <3>1, <3>2 DEF WriterMeets
    <2> QED BY <2>2, <2>3
  <1> QED BY <1>1, <1>7, <1>8, <1>9, WriterTurns

\* A writer saves the cursor, and is done.
LEMMA CursorTurns ==
    ASSUME RiverTypes, WritersAre, Grows, UNCHANGED channel, NEW t \in Tasks,
           task' = [task EXCEPT ![t] = NoTask], NEW c \in CursorType, c = cursor,
           NEW c2 \in CursorType, cursor' = c2, Exists(c2), Covers(c2)',
           c2.oldest = 0 => c.oldest = 0, c2.newest = 0 => c.newest = 0,
           NEW o \in WriterType, o = IF t = "older" THEN NoTask ELSE task["older"], CursorMeets(c2, o)',
           \A u \in Tasks \ {"older"}, x \in WriterType : x = task[u] => WriterMeets(c2, o, u, x)'
    PROVE  WritersAre'
  <1>1. task \in [Tasks -> WriterType] /\ "older" \in Tasks
    BY WriterParts DEF RiverTypes
  <1>2. task'[t] = NoTask /\ \A u \in Tasks : u # t => task'[u] = task[u]
    BY <1>1
  <1>3. task'["older"] = o
    BY <1>1, <1>2
  <1>4. PICK n \in WriterType : n = NoTask
    BY NothingIs
  <1>5. WriterIs(c2, t, n) /\ WriterIs(c2, "older", n) /\ WriterMeets(c2, o, t, n)
    BY <1>1, <1>4, RestIs
  <1>6. ASSUME NEW u \in Tasks, u # t, NEW x \in WriterType, x = task[u] PROVE WriterIs(c2, u, x)
    BY <1>6 DEF WritersAre, WriterIs, EndsKnown
  <1>7. WriterFits(o)
    BY <1>1, <1>4, <1>5, <1>6 DEF WriterIs
  <1>8. ASSUME NEW u \in Tasks PROVE WriterIs(cursor, u, task[u])'
    <2>1. CASE u = t
      <3>1. WriterIs(c2, u, n)'
        BY <1>5, <2>1, WriterStays
      <3> QED BY <1>2, <1>4, <2>1, <3>1
    <2>2. CASE u # t
      <3>1. PICK x \in WriterType : x = task[u]
        BY <1>1
      <3>2. WriterIs(c2, u, x)'
        BY <1>6, <2>2, <3>1, WriterStays
      <3> QED BY <1>2, <2>2, <3>1, <3>2
    <2> QED BY <2>1, <2>2
  <1>9. ASSUME NEW u \in Tasks \ {"older"} PROVE WriterMeets(cursor, task["older"], u, task[u])'
    <2>1. CASE u = t
      <3>1. WriterFits(n)
        BY <1>5 DEF WriterIs
      <3>2. WriterMeets(c2, o, u, n)'
        BY <1>5, <1>7, <2>1, <3>1, MeetsStays
      <3> QED BY <1>2, <1>3, <1>4, <2>1, <3>2
    <2>2. CASE u # t
      <3>1. PICK x \in WriterType : x = task[u]
        BY <1>1
      <3>2. WriterMeets(c2, o, u, x)'
        BY <3>1
      <3> QED BY <1>2, <1>3, <2>2, <3>1, <3>2
    <2> QED BY <2>1, <2>2
  <1>10. OldMeets(cursor, task["older"])'
    BY <1>3, <1>9 DEF OldMeets
  <1>11. Exists(cursor)' /\ Covers(cursor)'
    BY DEF Exists
  <1> QED BY <1>8, <1>10, <1>11 DEF WritersAre

\* A poll saves both ends.
LEMMA PollSaves ==
    ASSUME RiverTypes, WritersAre, Grows, UNCHANGED channel, NEW t \in Polls, NEW v \in WriterType,
           v = task[t], v.at = "save", task' = [task EXCEPT ![t] = NoTask], NEW c2 \in CursorType, cursor' = c2,
           c2.newest = Most(v.seen), c2.oldest = IF v.read.oldest = 0 THEN Least(v.seen) ELSE v.read.oldest
    PROVE  WritersAre'
  <1>1. PICK c \in CursorType, o \in WriterType : c = cursor /\ o = task["older"]
    BY WriterParts DEF RiverTypes
  <1>2. t \in Tasks /\ t # "older" /\ t # "thread" /\ "older" \in Tasks
    BY WriterParts DEF Polls
  <1>3. Exists(c) /\ Covers(c) /\ OldMeets(c, o) /\ WriterMeets(c, o, t, v) /\ WriterIs(c, t, v)
    BY <1>1, <1>2 DEF WritersAre, OldMeets
  <1>4. v.page = {} /\ v.seen # {} /\ Held(v) = v.seen /\ Busy(v) /\ v.seen \subseteq channel.posts
        /\ \A p \in v.seen : Good(p)
    BY <1>3 DEF WriterIs, WriterFits, Held, Busy, SeenIsGood
  <1>5. v.seen \in SUBSET Posts /\ v.seen \in SUBSET Nat /\ channel.posts \subseteq Nat \ {0}
        /\ v.read.oldest \in Nat
    <2>1. Posts \subseteq Nat \ {0} /\ channel.posts \subseteq Posts
      BY SlackAssumption DEF RiverTypes, ChannelType, Posts
    <2>2. v.seen \in SUBSET Posts /\ v.read.oldest \in Nat
      BY WriterParts, SlackAssumption
    <2> QED BY <2>1, <2>2
  <1>6. c2.newest \in v.seen /\ (v.read.oldest = 0 => c2.oldest \in v.seen /\ \A q \in v.seen : c2.oldest <= q)
    BY <1>4, <1>5, LeastIs, MostIs
  <1>7. Exists(c2) /\ c2.oldest # 0 /\ c2.newest # 0 /\ c2.oldest \in channel.posts
    BY <1>3, <1>4, <1>5, <1>6 DEF WriterIs, WriterFits, Exists
  <1>8. \A p \in channel.posts : Good(p) => Good(p)'
    BY DEF Grows
  <1>9. Covers(c2)'
    <2>1. ASSUME NEW p \in channel.posts, c2.oldest <= p, p <= c2.newest PROVE Good(p)
      BY <1>3, <1>4, <1>6, <2>1 DEF WriterIs, PollCovers
    <2>2. Good(c2.oldest)
      <3>1. CASE v.read.oldest = 0
        BY <1>4, <1>6, <3>1
      <3>2. CASE v.read.oldest # 0
        BY <1>3, <1>5, <1>7, <3>2 DEF WriterIs, Covers
      <3> QED BY <3>1, <3>2
    <2> QED BY <1>7, <1>8, <2>1, <2>2 DEF Covers
  <1>10. \A b, p : Low(c2, o, b, p) => Low(c, o, b, p)
    BY <1>7 DEF Low
  <1>11. CursorMeets(c2, o)'
    <2>1. SUFFICES ASSUME NEW b \in channel.posts, NEW h \in channel.posts, NEW p \in channel.posts,
                          b <= p, p <= h, Low(c2, o, b, p), Ends(c2, h)
                   PROVE  Good(p)'
      BY DEF CursorMeets, Low, Ends, Busy, Held
    <2>2. High(t, v, h, p)
      BY <1>4, <1>6, <2>1 DEF High, Ends
    <2> QED BY <1>3, <1>8, <1>10, <2>1, <2>2 DEF WriterMeets
  <1>12. ASSUME NEW u \in Tasks \ {"older"}, NEW x \in WriterType, x = task[u] PROVE WriterMeets(c2, o, u, x)'
    <2>1. SUFFICES ASSUME NEW b \in channel.posts, NEW h \in channel.posts, NEW p \in channel.posts,
                          b <= p, p <= h, Low(c2, o, b, p), High(u, x, h, p)
                   PROVE  Good(p)'
      BY DEF WriterMeets, Low, High, Ends, Busy, Held
    <2>2. WriterMeets(c, o, u, x)
      BY <1>3, <1>12 DEF OldMeets
    <2> QED BY <1>8, <1>10, <2>1, <2>2 DEF WriterMeets
  <1> QED BY <1>1, <1>2, <1>7, <1>9, <1>11, <1>12, CursorTurns

\* The socket saves its post as the newer end, whatever it skips: what it ran ahead of
\* is left out for good.
LEMMA SocketSaves ==
    ASSUME RiverTypes, WritersAre, UNCHANGED <<channel, posted, frames>>, NEW v \in WriterType,
           v = task["socket"], v.at = "save", task' = [task EXCEPT !["socket"] = NoTask],
           NEW c \in CursorType, c = cursor, NEW c2 \in CursorType, cursor' = c2,
           c2.newest = Most(v.seen), c2.oldest = IF v.read.oldest = 0 THEN c.oldest ELSE v.read.oldest,
           NEW m, m = Least({v.read.newest, c.newest}),
           passed' = passed \cup LeftOut("socket",
                        {p \in InRange(m, Most(v.seen)) : posted[p] = 0 \/ frames[p] = 0})
    PROVE  WritersAre'
  <1>1. PICK o \in WriterType : o = task["older"]
    BY WriterParts DEF RiverTypes
  <1>2. "socket" \in Tasks /\ "older" \in Tasks /\ "older" # "socket"
    BY WriterParts
  <1>3. /\ Exists(c) /\ Covers(c) /\ OldMeets(c, o) /\ CursorMeets(c, o) /\ WriterMeets(c, o, "socket", v)
        /\ WriterIs(c, "socket", v) /\ WriterIs(c, "older", o)
    BY <1>1, <1>2 DEF WritersAre, OldMeets
  <1>4. v.seen # {} /\ v.seen \subseteq channel.posts /\ \A p \in v.seen : Good(p)
    BY <1>3 DEF WriterIs, WriterFits, Held, SeenIsGood
  <1>5. /\ v.seen \in SUBSET Posts /\ channel.posts \subseteq Nat \ {0} /\ v.read.oldest \in Nat
        /\ v.read.newest \in Nat /\ c.oldest \in Nat /\ c.newest \in Nat /\ Held(o) \subseteq Nat \ {0}
        /\ o.read.oldest \in Nat
    <2>1. Posts \subseteq Nat \ {0} /\ channel.posts \subseteq Posts
      BY SlackAssumption DEF RiverTypes, ChannelType, Posts
    <2>2. v.seen \in SUBSET Posts /\ o.page \in SUBSET Posts /\ o.seen \in SUBSET Posts
      BY WriterParts
    <2>3. /\ v.read.oldest \in Nat /\ v.read.newest \in Nat /\ c.oldest \in Nat /\ c.newest \in Nat
          /\ o.read.oldest \in Nat
      BY WriterParts, SlackAssumption
    <2> QED BY <2>1, <2>2, <2>3 DEF Held
  <1>6. c2.newest \in v.seen /\ c2.newest \in channel.posts
    BY <1>4, <1>5, MostIs
  <1>7. m \in Nat /\ m <= v.read.newest /\ m <= c.newest
    <2>1. {v.read.newest, c.newest} \in SUBSET Nat
      BY <1>5
    <2> QED BY <2>1, LeastIs
  <1>8. Grows
    BY GrowsStill
  <1>9. \A p \in channel.posts : Good(p) => Good(p)'
    BY <1>8 DEF Grows
  \* What the socket ran ahead of.
  <1>10. ASSUME NEW p \in channel.posts, m < p, p <= c2.newest,
                NEW q \in {v.read.oldest, c.oldest} \cup Held(o), 0 < q, q < p
         PROVE  Good(p)'
    <2>1. PageBelow("socket", p)
      BY <1>1, <1>10 DEF PageBelow, Held
    <2>2. CASE p = c2.newest
      BY <1>4, <1>6, <1>9, <2>2
    <2>3. CASE p \notin InRange(m, Most(v.seen)) /\ p # c2.newest
      <3>1. p < Most(v.seen)
        BY <1>5, <1>6, <1>10, <2>3
      <3>2. p \in channel.deleted \/ channel.kind[p] = "reply"
        BY <1>10, <2>3, <3>1 DEF InRange
      <3> QED BY <3>2 DEF Good
    <2>4. CASE p \in InRange(m, Most(v.seen))
      <3>1. CASE posted[p] # 0 /\ frames[p] # 0
        BY <3>1 DEF Good
      <3>2. CASE posted[p] = 0 \/ frames[p] = 0
        <4>1. p \in passed'
          BY <2>1, <2>4, <3>2 DEF LeftOut
        <4> QED BY <4>1 DEF Good
      <3> QED BY <3>1, <3>2
    <2> QED BY <2>2, <2>3, <2>4
  <1>11. Exists(c2) /\ c2.newest # 0 /\ (c2.oldest = 0 => c.oldest = 0)
    BY <1>3, <1>5, <1>6 DEF WriterIs, WriterFits, Exists
  <1>12. Covers(c2)'
    <2>1. SUFFICES ASSUME c2.oldest # 0, NEW p \in channel.posts, c2.oldest <= p,
                          p <= c2.newest \/ p = c2.oldest
                   PROVE  Good(p)'
      BY DEF Covers
    <2>2. c2.oldest \in {v.read.oldest, c.oldest} /\ c2.oldest \in Nat /\ 0 < c2.oldest /\ p \in Nat
      BY <1>5, <2>1
    <2>3. CASE p = c2.oldest
      BY <1>3, <1>5, <1>9, <2>1, <2>2, <2>3 DEF WriterIs, Covers
    <2>4. CASE p <= m
      BY <1>3, <1>5, <1>7, <1>9, <2>1, <2>2, <2>4 DEF WriterIs, Covers
    <2>5. CASE p # c2.oldest /\ m < p
      BY <1>10, <2>1, <2>2, <2>5
    <2> QED BY <1>7, <2>2, <2>3, <2>4, <2>5
  <1>13. \A b, p : Low(c2, o, b, p) => /\ Low(c, o, b, p)
                                       /\ \/ o.at = "fetch" /\ b = o.read.oldest
                                          \/ b \in Held(o) /\ p \notin o.page
    BY <1>11 DEF Low
  <1>14. CursorMeets(c2, o)'
    <2>1. SUFFICES ASSUME NEW b \in channel.posts, NEW h \in channel.posts, NEW p \in channel.posts,
                          b <= p, p <= h, Low(c2, o, b, p), Ends(c2, h)
                   PROVE  Good(p)'
      BY DEF CursorMeets, Low, Ends, Busy, Held
    <2>2. Low(c, o, b, p) /\ p \in Nat /\ b \in Nat /\ 0 < b
      BY <1>5, <1>13, <2>1
    <2>3. CASE h = v.read.oldest
      <3>1. High("socket", v, h, p)
        BY <2>3 DEF High, Ends
      <3> QED BY <1>3, <1>9, <2>1, <2>2, <3>1 DEF WriterMeets
    <2>4. CASE p <= c.oldest \/ p <= m
      <3>1. (c.oldest # 0 /\ p <= c.oldest) \/ (c.newest # 0 /\ p <= c.newest)
        BY <1>5, <1>7, <2>2, <2>4
      <3>2. PICK e \in channel.posts : Ends(c, e) /\ p <= e
        BY <1>3, <3>1 DEF Exists, Ends
      <3> QED BY <1>3, <1>9, <2>1, <2>2, <3>2 DEF CursorMeets
    <2>5. CASE ~(p <= c.oldest) /\ m < p /\ h # v.read.oldest
      <3>1. h = c2.newest
        BY <1>5, <2>1, <2>5 DEF Ends
      <3>2. CASE o.at = "fetch" /\ b = o.read.oldest
        <4>1. c.oldest # 0
          BY <1>3, <2>2, <3>2 DEF WriterIs, EndsKnown
        <4>2. 0 < c.oldest /\ c.oldest < p
          BY <1>5, <2>2, <2>5, <4>1
        <4> QED BY <1>10, <2>1, <2>5, <3>1, <4>2
      <3>3. CASE b \in Held(o) /\ p \notin o.page /\ b = p
        <4>1. p \in o.seen
          BY <3>3 DEF Held
        <4> QED BY <1>3, <1>9, <4>1 DEF WriterIs, SeenIsGood
      <3>4. CASE b \in Held(o) /\ p \notin o.page /\ b # p
        <4>1. b < p
          BY <2>1, <2>2, <3>4
        <4> QED BY <1>10, <2>1, <2>2, <2>5, <3>1, <3>4, <4>1
      <3> QED BY <1>13, <2>1, <3>2, <3>3, <3>4
    <2> QED BY <1>7, <2>2, <2>3, <2>4, <2>5
  <1>15. ASSUME NEW u \in Tasks \ {"older"}, NEW x \in WriterType, x = task[u] PROVE WriterMeets(c2, o, u, x)'
    <2>1. SUFFICES ASSUME NEW b \in channel.posts, NEW h \in channel.posts, NEW p \in channel.posts,
                          b <= p, p <= h, Low(c2, o, b, p), High(u, x, h, p)
                   PROVE  Good(p)'
      BY DEF WriterMeets, Low, High, Ends, Busy, Held
    <2>2. WriterMeets(c, o, u, x)
      BY <1>3, <1>15 DEF OldMeets
    <2> QED BY <1>9, <1>13, <2>1, <2>2 DEF WriterMeets
  <1> QED BY <1>1, <1>2, <1>8, <1>11, <1>12, <1>14, <1>15, CursorTurns

\* An older page saves the lower end, and the newer one as it was read, or as it finds it.
LEMMA OlderSaves ==
    ASSUME RiverTypes, WritersAre, Grows, UNCHANGED channel, NEW v \in WriterType,
           v = task["older"], v.at = "save", task' = [task EXCEPT !["older"] = NoTask],
           NEW c \in CursorType, c = cursor, NEW c2 \in CursorType, cursor' = c2,
           c2.oldest = Least(v.seen), c2.newest = IF v.read.newest = 0 THEN c.newest ELSE v.read.newest
    PROVE  WritersAre'
  <1>1. "older" \in Tasks
    BY WriterParts
  <1>2. Exists(c) /\ Covers(c) /\ OldMeets(c, v) /\ CursorMeets(c, v) /\ WriterIs(c, "older", v)
    BY <1>1 DEF WritersAre, OldMeets
  <1>3. v.page = {} /\ v.seen # {} /\ Held(v) = v.seen /\ Busy(v) /\ v.seen \subseteq channel.posts
        /\ \A p \in v.seen : Good(p)
    BY <1>2 DEF WriterIs, WriterFits, Held, Busy, SeenIsGood
  <1>4. v.seen \in SUBSET Nat /\ channel.posts \subseteq Nat \ {0} /\ c.newest \in Nat /\ v.read.newest \in Nat
    <2>1. Posts \subseteq Nat \ {0} /\ channel.posts \subseteq Posts
      BY SlackAssumption DEF RiverTypes, ChannelType, Posts
    <2>2. v.seen \in SUBSET Posts /\ v.read.newest \in Nat /\ c.newest \in Nat
      BY WriterParts, SlackAssumption
    <2> QED BY <2>1, <2>2
  <1>5. c2.oldest \in v.seen /\ c2.oldest \in channel.posts /\ c2.oldest # 0
    BY <1>3, <1>4, LeastIs
  <1>6. Exists(c2) /\ (c2.newest = 0 => c.newest = 0)
    BY <1>2, <1>5 DEF WriterIs, WriterFits, Exists
  <1>7. \A p \in channel.posts : Good(p) => Good(p)'
    BY DEF Grows
  <1>8. Covers(c2)'
    <2>1. SUFFICES ASSUME NEW p \in channel.posts, c2.oldest <= p, p <= c2.newest \/ p = c2.oldest
                   PROVE  Good(p)
      BY <1>7 DEF Covers
    <2>2. CASE p = c2.oldest
      BY <1>3, <1>5, <2>2
    <2>3. CASE p <= c2.newest /\ v.read.newest # 0
      BY <1>2, <1>3, <1>5, <2>1, <2>3 DEF WriterIs, OlderCovers
    <2>4. CASE p <= c2.newest /\ v.read.newest = 0
      <3>1. Low(c, v, c2.oldest, p)
        BY <1>3, <1>5, <2>4 DEF Low
      <3>2. c.newest \in channel.posts /\ Ends(c, c.newest)
        BY <1>2, <1>4, <2>4 DEF Exists, Ends
      <3> QED BY <1>2, <1>5, <2>1, <2>4, <3>1, <3>2 DEF CursorMeets
    <2> QED BY <2>1, <2>2, <2>3, <2>4
  <1>9. PICK n \in WriterType : n = NoTask
    BY NothingIs
  <1>10. ASSUME NEW b, NEW p, Low(c2, n, b, p)
         PROVE  b = c2.oldest /\ c2.newest = 0 /\ Low(c, v, b, p)
    <2>1. b = c2.oldest /\ c2.newest = 0
      BY <1>9, <1>10, NothingIs DEF Low, Busy
    <2>2. v.read.newest = 0
      BY <2>1
    <2> QED BY <1>3, <1>5, <2>1, <2>2 DEF Low
  <1>11. CursorMeets(c2, n)'
    <2>1. SUFFICES ASSUME NEW b \in channel.posts, NEW h \in channel.posts, NEW p \in channel.posts,
                          b <= p, p <= h, Low(c2, n, b, p), Ends(c2, h)
                   PROVE  Good(p)'
      BY DEF CursorMeets, Low, Ends, Busy, Held
    <2>2. p = c2.oldest
      BY <1>4, <1>10, <2>1 DEF Ends
    <2> QED BY <1>3, <1>5, <1>7, <2>2
  <1>12. ASSUME NEW u \in Tasks \ {"older"}, NEW x \in WriterType, x = task[u] PROVE WriterMeets(c2, n, u, x)'
    <2>1. SUFFICES ASSUME NEW b \in channel.posts, NEW h \in channel.posts, NEW p \in channel.posts,
                          b <= p, p <= h, Low(c2, n, b, p), High(u, x, h, p)
                   PROVE  Good(p)'
      BY DEF WriterMeets, Low, High, Ends, Busy, Held
    <2>2. WriterMeets(c, v, u, x)
      BY <1>2, <1>12 DEF OldMeets
    <2> QED BY <1>7, <1>10, <2>1, <2>2 DEF WriterMeets
  <1> QED BY <1>1, <1>5, <1>6, <1>8, <1>9, <1>11, <1>12, CursorTurns

\* Most steps leave the channel and the stores alone.
LEMMA StoresStay ==
    ASSUME RiverInv, UNCHANGED <<channel, pushes, sending, posted, frames, counted>>,
           cursor' \in CursorType, task' \in [Tasks -> WriterType], WritersAre'
    PROVE  RiverInv'
  <1>1. RiverTypes'
    BY DEF RiverInv, RiverTypes
  <1>2. PushesFit'
    BY DEF RiverInv, PushesFit
  <1>3. CountsFit'
    BY DEF RiverInv, CountsFit
  <1> QED BY <1>1, <1>2, <1>3 DEF RiverInv

\* What the socket will deliver, with one more.
LEMMA PushesGrow ==
    ASSUME RiverTypes, PushesFit, NEW e \in PushType, pushes' = pushes \/ pushes' = Append(pushes, e),
           channel.posts \subseteq channel'.posts, channel.deleted \subseteq channel'.deleted,
           e.post \in channel'.posts, e.kind = "delete" => e.post \in channel'.deleted
    PROVE  PushesFit' /\ pushes' \in Seq(PushType)
  <1>1. pushes \in Seq(PushType) /\ Len(pushes) \in Nat
    BY DEF RiverTypes
  <1>2. CASE pushes' = pushes
    BY <1>1, <1>2 DEF PushesFit
  <1>3. CASE pushes' = Append(pushes, e)
    <2>1. /\ pushes' \in Seq(PushType) /\ Len(pushes') = Len(pushes) + 1
          /\ pushes'[Len(pushes) + 1] = e /\ \A i \in 1..Len(pushes) : pushes'[i] = pushes[i]
      BY <1>1, <1>3
    <2>2. \A i \in 1..Len(pushes') : i \in 1..Len(pushes) \/ i = Len(pushes) + 1
      BY <1>1, <2>1
    <2> QED BY <2>1, <2>2 DEF PushesFit
  <1> QED BY <1>2, <1>3

\* Somebody posts, or the user does.
LEMMA PostsCome ==
    ASSUME RiverInv, SomebodyPosts \/ SendPost
    PROVE  RiverInv'
  <1>1. PICK n \in 0..MaxPosts :
           /\ channel.posts = 1..n /\ Cardinality(channel.posts) + 1 = n + 1
           /\ channel.posts # Posts => n + 1 \in Posts
           /\ \A q \in channel.posts \cup {0} : q < n + 1
           /\ channel.posts \cup {n + 1} = 1..(n + 1)
    BY NextPost DEF RiverInv
  <1>2. PICK p \in Posts : p = n + 1 /\ p \notin channel.posts /\ \A q \in channel.posts \cup {0} : q < p
    <2>1. n + 1 \in Posts
      BY <1>1 DEF SomebodyPosts, SendPost
    <2>2. n + 1 \notin channel.posts
      BY <1>1
    <2> QED BY <1>1, <2>1, <2>2
  <1>3. PICK e \in PushType : e = [kind |-> "post", post |-> p, text |-> 1]
    <2>1. [kind |-> "post", post |-> p, text |-> 1] \in PushType
      BY DEF PushType
    <2> QED BY <2>1
  <1>4. /\ channel' = [channel EXCEPT !.posts = @ \cup {p}]
           \/ channel' = [channel EXCEPT !.posts = @ \cup {p}, !.own = @ \cup {p}]
        /\ pushes' = Pushed(e) /\ sending' \in {sending, p}
        /\ UNCHANGED <<posted, frames, counted, cursor, passed, task>>
    BY <1>1, <1>2, <1>3 DEF SomebodyPosts, SendPost, stores, account
  <1>5. channel = [kind |-> channel.kind, posts |-> channel.posts, own |-> channel.own,
                   edited |-> channel.edited, deleted |-> channel.deleted]
        /\ channel.kind \in [Posts -> Kinds] /\ channel.posts \in SUBSET Posts /\ channel.own \in SUBSET Posts
        /\ channel.edited \in SUBSET Posts /\ channel.deleted \in SUBSET Posts
    BY DEF RiverInv, RiverTypes, ChannelType
  <1>6. PICK g \in SUBSET Posts, own \in SUBSET Posts :
          /\ g = channel.posts \cup {p} /\ own \in {channel.own, channel.own \cup {p}}
          /\ channel' = [kind |-> channel.kind, posts |-> g, own |-> own,
                         edited |-> channel.edited, deleted |-> channel.deleted]
    <2>1. CASE channel' = [channel EXCEPT !.posts = @ \cup {p}]
      <3>1. PICK g \in SUBSET Posts : g = channel.posts \cup {p}
        BY <1>5
      <3>2. channel' = [kind |-> channel.kind, posts |-> g, own |-> channel.own,
                        edited |-> channel.edited, deleted |-> channel.deleted]
        BY <1>5, <2>1, <3>1
      <3> QED BY <1>5, <3>1, <3>2
    <2>2. CASE channel' = [channel EXCEPT !.posts = @ \cup {p}, !.own = @ \cup {p}]
      <3>1. PICK g \in SUBSET Posts, own \in SUBSET Posts :
              g = channel.posts \cup {p} /\ own = channel.own \cup {p}
        BY <1>5
      <3>2. channel' = [kind |-> channel.kind, posts |-> g, own |-> own,
                        edited |-> channel.edited, deleted |-> channel.deleted]
        BY <1>5, <2>2, <3>1
      <3> QED BY <3>1, <3>2
    <2> QED BY <1>4, <2>1, <2>2
  <1>7. /\ channel'.kind = channel.kind /\ channel'.posts = channel.posts \cup {p}
        /\ channel'.own \subseteq channel.own \cup {p} /\ channel'.deleted = channel.deleted
        /\ channel' \in ChannelType
    BY <1>5, <1>6 DEF ChannelType
  <1>8. Grows
    BY <1>2, <1>4, <1>7 DEF Grows, Good, ChannelType
  <1>9. WritersAre'
    <2>1. task \in [Tasks -> WriterType]
      BY DEF RiverInv, RiverTypes
    <2> QED BY <1>4, <1>8, <2>1, WritersKept DEF RiverInv
  <1>10. PushesFit' /\ pushes' \in Seq(PushType)
    <2>1. pushes' = pushes \/ pushes' = Append(pushes, e)
      BY <1>4 DEF Pushed
    <2>2. e.post = p /\ e.kind = "post"
      BY <1>3
    <2> QED BY <1>7, <2>1, <2>2, PushesGrow DEF RiverInv
  <1>11. RiverTypes'
    <2>1. n + 1 \in 0..MaxPosts /\ channel'.posts = 1..(n + 1)
      BY <1>1, <1>2, <1>7, SlackAssumption DEF Posts
    <2>2. sending' \in channel'.posts \cup {0}
      BY <1>4, <1>7 DEF RiverInv, RiverTypes
    <2> QED BY <1>4, <1>7, <1>10, <2>1, <2>2 DEF RiverInv, RiverTypes
  <1>12. CountsFit'
    BY <1>2, <1>4, <1>7 DEF RiverInv, CountsFit
  <1> QED BY <1>9, <1>10, <1>11, <1>12 DEF RiverInv

\* A post is edited, or deleted.
LEMMA PostsChange ==
    ASSUME RiverInv, TouchPost
    PROVE  RiverInv'
  <1>1. PICK p \in channel.posts :
          /\ \/ /\ channel' = [channel EXCEPT !.edited = @ \cup {p}]
                /\ pushes' = Pushed([kind |-> "post", post |-> p, text |-> 2])
             \/ /\ channel' = [channel EXCEPT !.deleted = @ \cup {p}]
                /\ pushes' = Pushed(Change("delete", p))
          /\ UNCHANGED <<posted, frames, counted, cursor, passed, task, sending>>
    BY DEF TouchPost, stores
  <1>2. channel = [kind |-> channel.kind, posts |-> channel.posts, own |-> channel.own,
                   edited |-> channel.edited, deleted |-> channel.deleted]
        /\ channel.kind \in [Posts -> Kinds] /\ channel.posts \in SUBSET Posts /\ channel.own \in SUBSET Posts
        /\ channel.edited \in SUBSET Posts /\ channel.deleted \in SUBSET Posts /\ p \in Posts
    BY DEF RiverInv, RiverTypes, ChannelType
  <1>3. PICK edited \in SUBSET Posts, deleted \in SUBSET Posts, e \in PushType :
          /\ channel' = [kind |-> channel.kind, posts |-> channel.posts, own |-> channel.own,
                         edited |-> edited, deleted |-> deleted]
          /\ channel.deleted \subseteq deleted /\ pushes' = Pushed(e) /\ e.post = p
          /\ e.kind = "delete" => p \in deleted
    <2>1. CASE /\ channel' = [channel EXCEPT !.edited = @ \cup {p}]
               /\ pushes' = Pushed([kind |-> "post", post |-> p, text |-> 2])
      <3>1. PICK edited \in SUBSET Posts : edited = channel.edited \cup {p}
        BY <1>2
      <3>2. channel' = [kind |-> channel.kind, posts |-> channel.posts, own |-> channel.own,
                        edited |-> edited, deleted |-> channel.deleted]
        BY <1>2, <2>1, <3>1
      <3>3. PICK e \in PushType : e = [kind |-> "post", post |-> p, text |-> 2]
        <4>1. [kind |-> "post", post |-> p, text |-> 2] \in PushType
          BY <1>2 DEF PushType
        <4> QED BY <4>1
      <3>4. e.post = p /\ e.kind # "delete" /\ pushes' = Pushed(e)
        BY <2>1, <3>3
      <3> QED BY <1>2, <3>2, <3>4
    <2>2. CASE /\ channel' = [channel EXCEPT !.deleted = @ \cup {p}]
               /\ pushes' = Pushed(Change("delete", p))
      <3>1. PICK deleted \in SUBSET Posts : deleted = channel.deleted \cup {p}
        BY <1>2
      <3>2. channel' = [kind |-> channel.kind, posts |-> channel.posts, own |-> channel.own,
                        edited |-> channel.edited, deleted |-> deleted]
        BY <1>2, <2>2, <3>1
      <3>3. PICK e \in PushType : e = Change("delete", p)
        <4>1. TextNow(p) \in 1..2
          BY DEF TextNow
        <4>2. Change("delete", p) \in PushType
          BY <1>2, <4>1 DEF PushType, Change
        <4> QED BY <4>2
      <3>4. e.post = p /\ pushes' = Pushed(e)
        BY <2>2, <3>3 DEF Change
      <3> QED BY <1>2, <3>1, <3>2, <3>4
    <2> QED BY <1>1, <2>1, <2>2
  <1>4. /\ channel'.kind = channel.kind /\ channel'.posts = channel.posts /\ channel'.own = channel.own
        /\ channel.deleted \subseteq channel'.deleted /\ (e.kind = "delete" => p \in channel'.deleted)
        /\ channel' \in ChannelType
    BY <1>2, <1>3 DEF ChannelType
  <1>5. Grows
    BY <1>1, <1>4 DEF Grows, Good, ChannelType
  <1>6. WritersAre'
    <2>1. task \in [Tasks -> WriterType]
      BY DEF RiverInv, RiverTypes
    <2> QED BY <1>1, <1>5, <2>1, WritersKept DEF RiverInv
  <1>7. PushesFit' /\ pushes' \in Seq(PushType)
    <2>1. pushes' = pushes \/ pushes' = Append(pushes, e)
      BY <1>3 DEF Pushed
    <2> QED BY <1>3, <1>4, <2>1, PushesGrow DEF RiverInv
  <1>8. RiverTypes'
    BY <1>1, <1>4, <1>7 DEF RiverInv, RiverTypes
  <1>9. CountsFit'
    BY <1>1, <1>4 DEF RiverInv, CountsFit
  <1> QED BY <1>6, <1>7, <1>8, <1>9 DEF RiverInv

\* The socket connects, or is lost; a frame of the user's own post; the end.
LEMMA RiverTurns ==
    ASSUME RiverInv, SocketConnects \/ SocketDrops \/ EmitSent \/ EndRiver
    PROVE  RiverInv'
  <1>1. /\ UNCHANGED <<channel, posted, counted, cursor, passed>> /\ frames' \in [Posts -> 0..2]
        /\ \A p \in channel.posts : frames[p] # 0 => frames'[p] # 0
        /\ pushes' \in {pushes, <<>>} /\ sending' \in {sending, 0}
        /\ task' = task \/ task' = [t \in Tasks |-> NoTask]
    <2>1. CASE EmitSent
      <3>1. PICK s \in Posts : s = sending
        BY <2>1 DEF EmitSent, RiverInv, RiverTypes, ChannelType
      <3>2. frames' = [frames EXCEPT ![s] = IF @ = 0 THEN 1 ELSE @] /\ frames \in [Posts -> 0..2]
        BY <2>1, <3>1 DEF EmitSent, Framed, RiverInv, RiverTypes
      <3>3. frames' \in [Posts -> 0..2] /\ \A p \in Posts : frames[p] # 0 => frames'[p] # 0
        BY <3>2
      <3> QED BY <2>1, <3>3 DEF EmitSent, account, RiverInv, RiverTypes, ChannelType
    <2>2. CASE SocketConnects \/ SocketDrops \/ EndRiver
      BY <2>2 DEF SocketConnects, SocketDrops, EndRiver, outside, stores, account, RiverInv, RiverTypes
    <2> QED BY <2>1, <2>2
  <1>2. task \in [Tasks -> WriterType] /\ task' \in [Tasks -> WriterType]
        /\ \A t \in Tasks : task'[t] = task[t] \/ task'[t] = NoTask
    BY <1>1, NothingIs DEF RiverInv, RiverTypes
  <1>3. Grows
    BY <1>1, GrowsStill DEF RiverInv
  <1>4. WritersAre'
    BY <1>1, <1>2, <1>3, WritersKept DEF RiverInv
  <1>5. <<>> \in Seq(PushType) /\ Len(<<>>) = 0
    OBVIOUS
  <1>6. PushesFit'
    BY <1>1, <1>5 DEF RiverInv, PushesFit
  <1>7. RiverTypes'
    BY <1>1, <1>2, <1>5 DEF RiverInv, RiverTypes
  <1>8. CountsFit'
    BY <1>1 DEF RiverInv, CountsFit
  <1> QED BY <1>4, <1>6, <1>7, <1>8 DEF RiverInv

\* A writer that is let loose reads the cursor, or has its page at once.
LEMMA WritersBegin ==
    ASSUME RiverInv, StartRiver \/ PollTick \/ AskOlder
    PROVE  RiverInv'
  <1>1. /\ UNCHANGED <<channel, pushes, sending, posted, counted, frames, cursor, passed>>
        /\ cursor \in CursorType /\ task \in [Tasks -> WriterType]
    BY DEF StartRiver, PollTick, AskOlder, outside, stores, account, RiverInv, RiverTypes
  <1>2. PICK c \in CursorType : c = cursor
    BY <1>1
  <1>3. PICK t \in Tasks \ {"thread"}, k \in BOOLEAN :
           task' = [task EXCEPT ![t] = [NoTask EXCEPT !.at = "fetch", !.read = c, !.counts = k]]
    <2>1. CASE StartRiver
      <3>1. "start" \in Tasks \ {"thread"} /\ (cursor.newest # 0) \in BOOLEAN
        BY DEF Tasks
      <3> QED BY <1>2, <2>1, <3>1 DEF StartRiver
    <2>2. CASE PollTick
      <3>1. "poll" \in Tasks \ {"thread"} /\ (cursor.newest # 0) \in BOOLEAN
        BY DEF Tasks
      <3> QED BY <1>2, <2>2, <3>1 DEF PollTick
    <2>3. CASE AskOlder
      <3>1. "older" \in Tasks \ {"thread"} /\ FALSE \in BOOLEAN
        BY DEF Tasks
      <3>2. [NoTask EXCEPT !.at = "fetch", !.read = c]
              = [NoTask EXCEPT !.at = "fetch", !.read = c, !.counts = FALSE]
        <4>1. PICK x, y : /\ x = [NoTask EXCEPT !.at = "fetch", !.read = c]
                          /\ y = [NoTask EXCEPT !.at = "fetch", !.read = c, !.counts = FALSE]
          OBVIOUS
        <4>2. x = [at |-> "fetch", page |-> {}, text |-> <<>>, read |-> c, seen |-> {}, counts |-> FALSE]
          BY <4>1 DEF NoTask
        <4>3. y = [at |-> "fetch", page |-> {}, text |-> <<>>, read |-> c, seen |-> {}, counts |-> FALSE]
          BY <4>1 DEF NoTask
        <4> QED BY <4>1, <4>2, <4>3
      <3> QED BY <1>2, <2>3, <3>1, <3>2 DEF AskOlder
    <2> QED BY <2>1, <2>2, <2>3
  <1>4. PICK w : w = [NoTask EXCEPT !.at = "fetch", !.read = c, !.counts = k]
    OBVIOUS
  <1>5. w = [at |-> "fetch", page |-> {}, text |-> <<>>, read |-> c, seen |-> {}, counts |-> k]
    BY <1>4 DEF NoTask
  <1>6. <<>> \in TextMaps /\ {} \in SUBSET Posts
    BY NothingIs, WriterParts DEF NoTask
  <1>7. w \in WriterType
    BY <1>5, <1>6, MakesWriter
  <1>8. w.at = "fetch" /\ w.page = {} /\ w.seen = {} /\ w.read = c
    BY <1>5
  <1>9. task' = [task EXCEPT ![t] = w] /\ task' \in [Tasks -> WriterType]
    BY <1>1, <1>3, <1>4, <1>7
  <1>10. Grows
    BY <1>1, GrowsStill DEF RiverInv
  <1>11. WritersAre'
    BY <1>1, <1>2, <1>7, <1>8, <1>9, <1>10, ReadsCursor DEF RiverInv
  <1> QED BY <1>1, <1>9, <1>11, StoresStay
LEMMA Rereads ==
    ASSUME RiverInv, Reread
    PROVE  RiverInv'
  <1>1. /\ UNCHANGED <<channel, pushes, sending, posted, counted, frames, cursor, passed>>
        /\ cursor \in CursorType /\ task \in [Tasks -> WriterType] /\ "socket" \in Tasks
    BY WriterParts DEF Reread, Quietly, stores, account, RiverInv, RiverTypes
  <1>2. PICK c \in CursorType, v \in WriterType : c = cursor /\ v = task["socket"]
    BY <1>1
  <1>3. task' = [task EXCEPT !["socket"].read = c, !["socket"].at = "save"]
    BY <1>2 DEF Reread
  <1>4. PICK w : w = [v EXCEPT !.read = c, !.at = "save"]
    OBVIOUS
  <1>5. v = [at |-> v.at, page |-> v.page, text |-> v.text, read |-> v.read, seen |-> v.seen,
             counts |-> v.counts]
    BY WriterParts
  <1>6. w = [at |-> "save", page |-> v.page, text |-> v.text, read |-> c, seen |-> v.seen,
             counts |-> v.counts]
    BY <1>4, <1>5
  <1>7. w \in WriterType
    BY <1>6, MakesWriter, WriterParts
  <1>8. task' = [task EXCEPT !["socket"] = w] /\ task' \in [Tasks -> WriterType]
    BY <1>1, <1>2, <1>3, <1>4, <1>7
  <1>9. v.at = "reread" /\ WriterFits(v)
    BY <1>1, <1>2 DEF Reread, RiverInv, WritersAre, WriterIs
  <1>10. w.at = "save" /\ w.page = {} /\ w.seen = v.seen /\ w.seen # {} /\ w.read = c
    BY <1>6, <1>9 DEF WriterFits
  <1>11. Grows
    BY <1>1, GrowsStill DEF RiverInv
  <1>12. "socket" \in Tasks \ {"thread"}
    BY <1>1
  <1>13. WritersAre'
    BY <1>1, <1>2, <1>7, <1>8, <1>10, <1>11, <1>12, ReadsCursor DEF RiverInv
  <1> QED BY <1>1, <1>8, <1>13, StoresStay

\* The texts of a page.
LEMMA TextsAre ==
    ASSUME NEW S \in SUBSET Posts
    PROVE  TextsOf(S) \in TextMaps /\ \A p \in S : TextsOf(S)[p] \in 1..2
  <1>1. \A p \in S : TextNow(p) \in 1..2
    BY DEF TextNow
  <1>2. TextsOf(S) \in [S -> 1..2]
    BY <1>1 DEF TextsOf
  <1>3. \A p \in S : TextsOf(S)[p] \in 1..2
    BY <1>1 DEF TextsOf
  <1> QED BY <1>2, <1>3 DEF TextMaps

\* A writer that has its page.
LEMMA BegunIs ==
    ASSUME NEW t \in Tasks, NEW v \in WriterType, v = task[t], NEW S \in SUBSET Posts
    PROVE  \E w \in WriterType :
              /\ w = Begun(t, S) /\ w.page = Written(S) /\ w.seen = v.seen /\ w.read = v.read
              /\ w.at = "idle" \/ (w.at = "write" /\ w.page # {})
              /\ \A p \in w.page : w.text[p] \in 1..2
  <1>1. PICK g \in SUBSET Posts : g = Written(S)
    BY DEF Written
  <1>2. PICK x \in TextMaps : x = TextsOf(g) /\ \A p \in g : x[p] \in 1..2
    BY TextsAre
  <1>3. PICK a \in {"idle", "write"} : a = IF g = {} THEN "idle" ELSE "write"
    OBVIOUS
  <1>4. PICK w : w = [v EXCEPT !.page = g, !.text = x, !.at = a]
    OBVIOUS
  <1>5. v = [at |-> v.at, page |-> v.page, text |-> v.text, read |-> v.read, seen |-> v.seen,
             counts |-> v.counts]
    BY WriterParts
  <1>6. w = [at |-> a, page |-> g, text |-> x, read |-> v.read, seen |-> v.seen, counts |-> v.counts]
    BY <1>4, <1>5
  <1>7. w \in WriterType
    BY <1>6, MakesWriter, WriterParts
  <1>8. w = Begun(t, S)
    BY <1>1, <1>2, <1>3, <1>4 DEF Begun
  <1>9. w.page = g /\ w.seen = v.seen /\ w.read = v.read /\ w.at = a /\ w.text = x
    BY <1>6
  <1> QED BY <1>1, <1>2, <1>3, <1>7, <1>8, <1>9

\* A thread and a push have their page at once, and read no cursor.
LEMMA BeginsPage ==
    ASSUME RiverTypes, WritersAre, Grows, UNCHANGED <<channel, cursor>>, NEW t \in {"thread", "socket"},
           NEW w \in WriterType, task' = [task EXCEPT ![t] = w], w.read.oldest = 0, w.read.newest = 0,
           w.at = "write", w.page # {}, w.page \subseteq channel.posts, w.seen = {},
           \A p \in w.page : w.text[p] \in 1..2
    PROVE  WritersAre'
  <1>1. PICK c \in CursorType, o \in WriterType : c = cursor /\ o = task["older"]
    BY WriterParts DEF RiverTypes
  <1>2. t \in Tasks /\ t # "older" /\ t \notin Polls
    BY WriterParts DEF Polls
  <1>3. WriterIs(c, t, w)
    BY <1>2 DEF WriterIs, WriterFits, Exists, Held, EndsKnown, Covers, SeenIsGood, ThreadFits
  <1>4. 0 \notin channel.posts
    BY DEF RiverTypes, ChannelType, Posts
  <1>5. WriterMeets(c, o, t, w)
    BY <1>2, <1>4 DEF WriterMeets, High, Ends
  <1>6. Exists(c) /\ WriterFits(o) /\ WriterFits(w)
    BY <1>1, <1>3, WriterParts DEF WritersAre, WriterIs
  <1>7. WriterIs(c, t, w)' /\ WriterMeets(c, o, t, w)'
    BY <1>2, <1>3, <1>5, <1>6, WriterStays, MeetsStays
  <1> QED BY <1>1, <1>2, <1>7, WriterTurns

\* A writer that gives up, or has no more to do.
LEMMA StopsAt ==
    ASSUME RiverTypes, WritersAre, Grows, UNCHANGED cursor, NEW t \in Tasks,
           task' = [task EXCEPT ![t] = NoTask]
    PROVE  WritersAre' /\ task' \in [Tasks -> WriterType]
  <1>1. task \in [Tasks -> WriterType]
    BY DEF RiverTypes
  <1>2. task' \in [Tasks -> WriterType] /\ \A u \in Tasks : task'[u] = task[u] \/ task'[u] = NoTask
    BY <1>1, NothingIs
  <1> QED BY <1>2, WritersKept

\* A reader has its page, or fails.
LEMMA FetchesPage ==
    ASSUME RiverInv, NEW t \in Tasks, FetchPage(t)
    PROVE  RiverInv'
  <1>1. /\ UNCHANGED <<channel, pushes, sending, posted, counted, frames, cursor>>
        /\ cursor \in CursorType /\ task \in [Tasks -> WriterType] /\ passed \subseteq passed'
    BY DEF FetchPage, Quietly, stores, RiverInv, RiverTypes
  <1>2. PICK v \in WriterType : v = task[t]
    BY <1>1
  <1>3. v.at = "fetch" /\ v.page = {} /\ v.seen = {}
    BY <1>2 DEF FetchPage, RiverInv, WritersAre, WriterIs, WriterFits
  <1>4. Grows
    BY <1>1, GrowsStill DEF RiverInv
  <1>5. \A a, b : InRange(a, b) \in SUBSET Posts /\ LatestPage(InRange(a, b)) \in SUBSET Posts
    BY DEF InRange, LatestPage, RiverInv, RiverTypes, ChannelType
  <1>6. CASE task' = [task EXCEPT ![t] = NoTask]
    <2>1. WritersAre' /\ task' \in [Tasks -> WriterType]
      BY <1>1, <1>4, <1>6, StopsAt DEF RiverInv
    <2> QED BY <1>1, <2>1, StoresStay
  <1>7. CASE /\ t \in Polls
             /\ LET new == InRange(task[t].read.newest, 0)
                IN /\ task' = [task EXCEPT ![t] = Begun(t, LatestPage(new))]
                   /\ passed' = passed \cup LeftOut(t, new \ LatestPage(new))
    <2>1. PICK new, taken : new = InRange(v.read.newest, 0) /\ taken = LatestPage(new) /\ taken \in SUBSET Posts
      BY <1>5
    <2>2. PICK w \in WriterType :
             /\ w = Begun(t, taken) /\ w.page = Written(taken) /\ w.seen = v.seen /\ w.read = v.read
             /\ w.at = "idle" \/ (w.at = "write" /\ w.page # {})
             /\ \A p \in w.page : w.text[p] \in 1..2
      BY <1>2, <2>1, BegunIs
    <2>3. /\ task' = [task EXCEPT ![t] = w] /\ passed' = passed \cup LeftOut(t, new \ taken)
          /\ task' \in [Tasks -> WriterType] /\ t \in Polls /\ w.seen = {}
      BY <1>1, <1>2, <1>3, <1>7, <2>1, <2>2
    <2>4. Takes(t, v, taken, w)
      BY <1>2, <1>3, <2>2, <2>3 DEF Takes
    <2>5. WritersAre'
      BY <1>1, <2>1, <2>3, <2>4, PollFetches DEF RiverInv
    <2> QED BY <1>1, <2>3, <2>5, StoresStay
  <1>8. CASE /\ t = "older" /\ UNCHANGED passed
             /\ task' = [task EXCEPT ![t] = Begun(t, LatestPage(InRange(0, task[t].read.oldest)))]
    <2>1. PICK new, taken : new = InRange(0, v.read.oldest) /\ taken = LatestPage(new) /\ taken \in SUBSET Posts
      BY <1>5
    <2>2. PICK w \in WriterType :
             /\ w = Begun(t, taken) /\ w.page = Written(taken) /\ w.seen = v.seen /\ w.read = v.read
             /\ w.at = "idle" \/ (w.at = "write" /\ w.page # {})
             /\ \A p \in w.page : w.text[p] \in 1..2
      BY <1>2, <2>1, BegunIs
    <2>3. /\ task' = [task EXCEPT !["older"] = w] /\ v = task["older"]
          /\ task' \in [Tasks -> WriterType] /\ w.seen = {}
      BY <1>1, <1>2, <1>3, <1>8, <2>1, <2>2
    <2>4. Takes("older", v, taken, w)
      BY <1>3, <2>2, <2>3, WriterParts DEF Takes
    <2>5. WritersAre'
      BY <1>1, <1>8, <2>1, <2>4, OlderFetches DEF RiverInv
    <2> QED BY <1>1, <2>3, <2>5, StoresStay
  <1> QED BY <1>6, <1>7, <1>8 DEF FetchPage, Polls

\* A post is counted when it is stored for the first time.
LEMMA StoresGrow ==
    ASSUME RiverInv, UNCHANGED <<channel, pushes, sending, cursor>>, NEW p \in channel.posts,
           posted' \in [Posts -> 0..2], frames' \in [Posts -> 0..2],
           \A q \in Posts : posted[q] # 0 => posted'[q] # 0,
           \/ counted' = counted
           \/ /\ counted' = [counted EXCEPT ![p] = @ + 1] /\ posted[p] = 0 /\ posted'[p] # 0
              /\ p \notin channel.own,
           task' \in [Tasks -> WriterType], WritersAre'
    PROVE  RiverInv'
  <1>1. p \in Posts /\ counted \in [Posts -> Nat]
    BY DEF RiverInv, RiverTypes, ChannelType
  <1>2. counted' \in [Posts -> Nat]
    BY <1>1
  <1>3. RiverTypes'
    BY <1>2 DEF RiverInv, RiverTypes
  <1>4. PushesFit'
    BY DEF RiverInv, PushesFit
  <1>5. CountsFit'
    <2>1. CASE counted' = counted
      BY <2>1 DEF RiverInv, CountsFit
    <2>2. CASE /\ counted' = [counted EXCEPT ![p] = @ + 1] /\ posted[p] = 0 /\ posted'[p] # 0
               /\ p \notin channel.own
      <3>1. /\ counted'[p] = counted[p] + 1 /\ counted[p] \in Nat
            /\ \A q \in Posts : q # p => counted'[q] = counted[q]
        BY <1>1, <2>2
      <3>2. counted'[p] > 1 => counted[p] > 0
        BY <3>1
      <3>3. counted'[p] > 1 => p \in channel.deleted
        BY <1>1, <2>2, <3>2 DEF RiverInv, CountsFit
      <3>4. ASSUME NEW q \in Posts, q # p
            PROVE  /\ counted'[q] > 0 => q \in channel.posts \ channel.own
                   /\ counted'[q] > 0 => posted'[q] # 0 \/ q \in channel.deleted
                   /\ counted'[q] > 1 => q \in channel.deleted
        BY <3>1, <3>4 DEF RiverInv, CountsFit
      <3>5. /\ counted'[p] > 0 => p \in channel.posts \ channel.own
            /\ counted'[p] > 0 => posted'[p] # 0 \/ p \in channel.deleted
        BY <2>2
      <3> QED BY <3>3, <3>4, <3>5 DEF CountsFit
    <2> QED BY <2>1, <2>2
  <1> QED BY <1>3, <1>4, <1>5 DEF RiverInv

\* The page without its first post.
LEMMA OnwardIs ==
    ASSUME NEW t \in Tasks, NEW v \in WriterType, v = task[t], v.at = "write", NEW p \in v.page,
           \A q \in v.page : v.text[q] \in 1..2
    PROVE  \/ Onward(t, p) = NoTask
           \/ \E w \in WriterType :
                 /\ w = Onward(t, p) /\ w.page = v.page \ {p} /\ w.seen = v.seen \cup {p} /\ w.read = v.read
                 /\ \/ w.at = "write" /\ w.page # {}
                    \/ /\ w.page = {}
                       /\ (t = "socket" /\ w.at = "reread") \/ (t \notin {"socket", "thread"} /\ w.at = "save")
                 /\ \A q \in w.page : w.text[q] \in 1..2
  <1>1. PICK rest \in SUBSET Posts, seen \in SUBSET Posts : rest = v.page \ {p} /\ seen = v.seen \cup {p}
    <2>1. v.page \in SUBSET Posts /\ v.seen \in SUBSET Posts
      BY WriterParts
    <2> QED BY <2>1
  <1>2. PICK x \in TextMaps : x = [q \in rest |-> v.text[q]] /\ \A q \in rest : x[q] \in 1..2
    <2>1. [q \in rest |-> v.text[q]] \in [rest -> 1..2]
      BY <1>1
    <2>2. [q \in rest |-> v.text[q]] \in TextMaps
      BY <1>1, <2>1 DEF TextMaps
    <2>3. \A q \in rest : [r \in rest |-> v.text[r]][q] \in 1..2
      BY <1>1
    <2> QED BY <2>2, <2>3
  <1>3. PICK done : done = [v EXCEPT !.page = rest, !.seen = seen, !.text = x]
    OBVIOUS
  <1>4. v = [at |-> "write", page |-> v.page, text |-> v.text, read |-> v.read, seen |-> v.seen,
             counts |-> v.counts]
    BY WriterParts
  <1>5. done = [at |-> "write", page |-> rest, text |-> x, read |-> v.read, seen |-> seen,
                counts |-> v.counts]
    BY <1>3, <1>4
  <1>6. done \in WriterType
    BY <1>5, MakesWriter, WriterParts
  <1>7. done = [task[t] EXCEPT !.page = rest, !.seen = @ \cup {p}, !.text = [q \in rest |-> task[t].text[q]]]
    BY <1>1, <1>2, <1>3, WriterParts
  <1>8. Onward(t, p) = IF rest # {} THEN done
                       ELSE IF t = "thread" THEN NoTask
                       ELSE [done EXCEPT !.at = IF t = "socket" THEN "reread" ELSE "save"]
    BY <1>1, <1>7 DEF Onward
  <1>9. CASE rest # {}
    <2>1. /\ done.page = rest /\ done.seen = seen /\ done.read = v.read /\ done.at = "write" /\ done.text = x
          /\ done = Onward(t, p)
      BY <1>5, <1>8, <1>9
    <2> QED BY <1>1, <1>2, <1>6, <1>9, <2>1
  <1>10. CASE rest = {} /\ t = "thread"
    BY <1>8, <1>10
  <1>11. CASE rest = {} /\ t # "thread"
    <2>1. PICK a \in {"reread", "save"} : a = IF t = "socket" THEN "reread" ELSE "save"
      OBVIOUS
    <2>2. PICK w : w = [done EXCEPT !.at = a]
      OBVIOUS
    <2>3. w = [at |-> a, page |-> rest, text |-> x, read |-> v.read, seen |-> seen, counts |-> v.counts]
      BY <1>5, <2>2
    <2>4. w \in WriterType
      BY <2>3, MakesWriter, WriterParts
    <2>5. w.at = a /\ w.page = rest /\ w.text = x /\ w.read = v.read /\ w.seen = seen /\ w = Onward(t, p)
      BY <1>8, <1>11, <2>1, <2>2, <2>3
    <2>6. (t = "socket" /\ w.at = "reread") \/ (t \notin {"socket", "thread"} /\ w.at = "save")
      BY <1>11, <2>1, <2>5
    <2> QED BY <1>1, <1>2, <1>11, <2>4, <2>5, <2>6
  <1> QED BY <1>9, <1>10, <1>11

\* One post of a page is written, refused by the v2 store, or not written.
LEMMA IngestsPost ==
    ASSUME RiverInv, NEW t \in Tasks, IngestPost(t)
    PROVE  RiverInv'
  <1>1. /\ UNCHANGED <<channel, pushes, sending, cursor>>
        /\ cursor \in CursorType /\ task \in [Tasks -> WriterType] /\ channel.posts \subseteq Posts
        /\ posted \in [Posts -> 0..2] /\ frames \in [Posts -> 0..2] /\ counted \in [Posts -> Nat]
    BY DEF IngestPost, Quietly, RiverInv, RiverTypes, ChannelType
  <1>2. PICK v \in WriterType : v = task[t]
    BY <1>1
  <1>3. /\ v.at = "write" /\ v.page # {} /\ v.page \subseteq channel.posts
        /\ \A q \in v.page : v.text[q] \in 1..2
    BY <1>2 DEF IngestPost, RiverInv, WritersAre, WriterIs, WriterFits, Held
  <1>4. PICK p \in v.page : p = Least(task[t].page)
    <2>1. v.page \in SUBSET Nat
      BY <1>1, <1>3 DEF Posts
    <2> QED BY <1>2, <1>3, <2>1, LeastIs
  <1>5. PICK x \in 1..2 : x = v.text[p]
    BY <1>3
  <1>6. PICK row \in [Posts -> 0..2] :
          row = [posted EXCEPT ![p] = x] /\ row[p] # 0 /\ \A q \in Posts : posted[q] # 0 => row[q] # 0
    <2>1. [posted EXCEPT ![p] = x] \in [Posts -> 0..2]
      BY <1>1, <1>3
    <2>2. PICK row \in [Posts -> 0..2] : row = [posted EXCEPT ![p] = x]
      BY <2>1
    <2> QED BY <1>1, <1>3, <2>2
  <1>7. PICK framed \in [Posts -> 0..2] :
          framed = Framed(p, x) /\ framed[p] # 0 /\ \A q \in Posts : frames[q] # 0 => framed[q] # 0
    <2>1. Framed(p, x) \in [Posts -> 0..2]
      BY <1>1, <1>3 DEF Framed
    <2>2. PICK framed \in [Posts -> 0..2] : framed = Framed(p, x)
      BY <2>1
    <2> QED BY <1>1, <1>3, <2>2 DEF Framed
  <1>8. /\ CountedAs(t, p) = counted
           \/ /\ CountedAs(t, p) = [counted EXCEPT ![p] = @ + 1] /\ posted[p] = 0 /\ p \notin channel.own
    BY DEF CountedAs, IsNew
  <1>9. \/ /\ posted' = row /\ counted' = CountedAs(t, p) /\ frames' = framed
           /\ task' = [task EXCEPT ![t] = Onward(t, p)] /\ UNCHANGED passed
        \/ /\ posted' = row /\ counted' = CountedAs(t, p) /\ passed' = passed \cup {p}
           /\ task' = [task EXCEPT ![t] = Onward(t, p)] /\ UNCHANGED frames
        \/ /\ posted' \in {posted, row} /\ task' = [task EXCEPT ![t] = NoTask]
           /\ passed \subseteq passed' /\ UNCHANGED <<counted, frames>>
    BY <1>2, <1>4, <1>5, <1>6, <1>7 DEF IngestPost
  <1>10. /\ posted' \in [Posts -> 0..2] /\ frames' \in [Posts -> 0..2] /\ passed \subseteq passed'
         /\ \A q \in Posts : posted[q] # 0 => posted'[q] # 0
         /\ \A q \in Posts : frames[q] # 0 => frames'[q] # 0
    BY <1>1, <1>6, <1>7, <1>9
  <1>11. Grows
    BY <1>1, <1>10, GrowsStill DEF RiverInv
  <1>12. WritersAre' /\ task' \in [Tasks -> WriterType]
    <2>1. CASE task' = [task EXCEPT ![t] = NoTask]
      BY <1>1, <1>11, <2>1, StopsAt DEF RiverInv
    <2>2. CASE task' = [task EXCEPT ![t] = Onward(t, p)] /\ Onward(t, p) # NoTask
      <3>1. Good(p)'
        BY <1>6, <1>7, <1>9, <2>1, <2>2 DEF Good
      <3>2. PICK w \in WriterType :
              /\ w = Onward(t, p) /\ w.page = v.page \ {p} /\ w.seen = v.seen \cup {p} /\ w.read = v.read
              /\ \/ w.at = "write" /\ w.page # {}
                 \/ /\ w.page = {}
                    /\ (t = "socket" /\ w.at = "reread") \/ (t \notin {"socket", "thread"} /\ w.at = "save")
              /\ \A q \in w.page : w.text[q] \in 1..2
        BY <1>2, <1>3, <2>2, OnwardIs
      <3>3. task' = [task EXCEPT ![t] = w] /\ task' \in [Tasks -> WriterType]
        BY <1>1, <2>2, <3>2
      <3>4. WritersAre'
        BY <1>1, <1>2, <1>3, <1>11, <3>1, <3>2, <3>3, PageShrinks DEF RiverInv
      <3> QED BY <3>3, <3>4
    <2> QED BY <1>9, <2>1, <2>2
  <1>13. \/ counted' = counted
         \/ /\ counted' = [counted EXCEPT ![p] = @ + 1] /\ posted[p] = 0 /\ posted'[p] # 0
            /\ p \notin channel.own
    BY <1>6, <1>8, <1>9
  <1> QED BY <1>1, <1>3, <1>10, <1>12, <1>13, StoresGrow

\* An event of the socket: a deletion is done, a post is its page.
LEMMA TakesPush ==
    ASSUME RiverInv, TakePush
    PROVE  RiverInv'
  <1>1. PICK e \in PushType :
          /\ e = Head(pushes) /\ e.post \in channel.posts /\ (e.kind = "delete" => e.post \in channel.deleted)
          /\ pushes' \in Seq(PushType) /\ Len(pushes') \in Nat
          /\ \A i \in 1..Len(pushes') : \E j \in 1..Len(pushes) : pushes'[i] = pushes[j]
    <2>1. pushes \in Seq(PushType) /\ pushes # <<>> /\ pushes' = Tail(pushes)
      BY DEF TakePush, RiverInv, RiverTypes
    <2>2. /\ Len(pushes) \in Nat /\ Len(pushes) > 0 /\ Head(pushes) = pushes[1] /\ Head(pushes) \in PushType
          /\ Tail(pushes) \in Seq(PushType) /\ Len(Tail(pushes)) = Len(pushes) - 1
          /\ \A i \in 1..Len(Tail(pushes)) : Tail(pushes)[i] = pushes[i + 1]
      BY <2>1
    <2>3. \A i \in 1..Len(Tail(pushes)) : i + 1 \in 1..Len(pushes)
      BY <2>2
    <2>4. 1 \in 1..Len(pushes)
      BY <2>2
    <2> QED BY <2>1, <2>2, <2>3, <2>4 DEF RiverInv, PushesFit
  <1>2. /\ UNCHANGED <<channel, sending, counted, frames, cursor, passed>> /\ "socket" \in Tasks
        /\ cursor \in CursorType /\ task \in [Tasks -> WriterType] /\ posted \in [Posts -> 0..2]
    BY WriterParts DEF TakePush, Quietly, account, RiverInv, RiverTypes
  <1>3. PushesFit'
    BY <1>1, <1>2 DEF RiverInv, PushesFit
  <1>4. SUFFICES posted' \in [Posts -> 0..2] /\ task' \in [Tasks -> WriterType] /\ WritersAre' /\ CountsFit'
    BY <1>1, <1>2, <1>3 DEF RiverInv, RiverTypes
  <1>5. CASE e.kind = "delete" /\ posted' = [posted EXCEPT ![e.post] = 0] /\ UNCHANGED task
    <2>1. posted' \in [Posts -> 0..2] /\ \A q \in Posts : q # e.post => posted'[q] = posted[q]
      <3>1. PICK p \in Posts : p = e.post
        BY DEF PushType
      <3>2. posted' = [posted EXCEPT ![p] = 0] /\ 0 \in 0..2
        BY <1>5, <3>1
      <3>3. posted' \in [Posts -> 0..2]
        BY <1>2, <3>1, <3>2
      <3> QED BY <1>2, <3>1, <3>2, <3>3
    <2>2. Grows
      BY <1>1, <1>2, <1>5, <2>1, GrowsStill DEF RiverInv, RiverTypes, ChannelType
    <2>3. WritersAre'
      BY <1>2, <1>5, <2>2, WritersKept DEF RiverInv
    <2>4. CountsFit'
      BY <1>1, <1>2, <1>5, <2>1 DEF RiverInv, CountsFit
    <2> QED BY <1>2, <1>5, <2>1, <2>3, <2>4
  <1>6. CASE /\ e.kind = "post" /\ UNCHANGED posted
             /\ task' = [task EXCEPT !["socket"] =
                  IF channel.kind[e.post] = "blank" THEN NoTask
                  ELSE [NoTask EXCEPT !.page = {e.post}, !.text = [p \in {e.post} |-> e.text],
                                      !.counts = TRUE, !.at = "write"]]
    <2>1. Grows
      BY <1>2, <1>6, GrowsStill DEF RiverInv
    <2>2. CountsFit'
      BY <1>2, <1>6 DEF RiverInv, CountsFit
    <2>3. CASE channel.kind[e.post] = "blank"
      <3>1. task' = [task EXCEPT !["socket"] = NoTask]
        BY <1>6, <2>3
      <3>2. WritersAre' /\ task' \in [Tasks -> WriterType]
        BY <1>2, <2>1, <3>1, StopsAt DEF RiverInv
      <3> QED BY <1>2, <1>6, <2>2, <3>2
    <2>4. CASE channel.kind[e.post] # "blank"
      <3>1. PICK g \in SUBSET Posts : g = {e.post} /\ g # {} /\ g \subseteq channel.posts
        <4>1. e.post \in Posts
          BY DEF PushType
        <4>2. {e.post} \in SUBSET Posts
          BY <4>1
        <4> QED BY <1>1, <4>2
      <3>2. PICK x \in TextMaps : x = [p \in {e.post} |-> e.text] /\ \A q \in g : x[q] \in 1..2
        <4>1. e.text \in 1..2
          BY DEF PushType
        <4>2. PICK x : x = [p \in g |-> e.text]
          OBVIOUS
        <4>3. x \in [g -> 1..2] /\ \A q \in g : x[q] \in 1..2
          BY <4>1, <4>2
        <4>4. x \in TextMaps
          BY <4>3 DEF TextMaps
        <4> QED BY <3>1, <4>2, <4>3, <4>4
      <3>3. PICK w : w = [NoTask EXCEPT !.page = g, !.text = x, !.counts = TRUE, !.at = "write"]
        OBVIOUS
      <3>4. w = [at |-> "write", page |-> g, text |-> x, read |-> [oldest |-> 0, newest |-> 0],
                 seen |-> {}, counts |-> TRUE]
        BY <3>3 DEF NoTask
      <3>5. [oldest |-> 0, newest |-> 0] \in CursorType /\ {} \in SUBSET Posts
        BY SlackAssumption DEF CursorType
      <3>6. w \in WriterType
        BY <3>4, <3>5, MakesWriter
      <3>7. /\ w.read.oldest = 0 /\ w.read.newest = 0 /\ w.at = "write" /\ w.page = g /\ w.seen = {}
            /\ w.text = x
        BY <3>4
      <3>8. task' = [task EXCEPT !["socket"] = w] /\ task' \in [Tasks -> WriterType]
        BY <1>2, <1>6, <2>4, <3>1, <3>2, <3>3, <3>6
      <3>9. WritersAre'
        BY <1>2, <2>1, <3>1, <3>2, <3>6, <3>7, <3>8, BeginsPage DEF RiverInv
      <3> QED BY <1>2, <1>6, <2>2, <3>8, <3>9
    <2> QED BY <2>3, <2>4
  <1> QED BY <1>1, <1>5, <1>6 DEF TakePush

\* A thread is asked for.
LEMMA ThreadBegins ==
    ASSUME RiverInv, AskThread
    PROVE  RiverInv'
  <1>1. /\ UNCHANGED <<channel, pushes, sending, posted, counted, frames, cursor, passed>>
        /\ cursor \in CursorType /\ task \in [Tasks -> WriterType] /\ "thread" \in Tasks
    BY WriterParts DEF AskThread, Quietly, stores, account, RiverInv, RiverTypes
  <1>2. PICK g \in SUBSET Posts :
          /\ g \subseteq channel.posts /\ g # {}
          /\ task' = [task EXCEPT !["thread"] = [NoTask EXCEPT !.page = g, !.text = TextsOf(g), !.at = "write"]]
    BY DEF AskThread, RiverInv, RiverTypes, ChannelType
  <1>3. PICK x \in TextMaps : x = TextsOf(g) /\ \A q \in g : x[q] \in 1..2
    BY TextsAre
  <1>4. PICK w : w = [NoTask EXCEPT !.page = g, !.text = x, !.at = "write"]
    OBVIOUS
  <1>5. w = [at |-> "write", page |-> g, text |-> x, read |-> [oldest |-> 0, newest |-> 0],
             seen |-> {}, counts |-> FALSE]
    BY <1>4 DEF NoTask
  <1>6. [oldest |-> 0, newest |-> 0] \in CursorType /\ {} \in SUBSET Posts
    BY SlackAssumption DEF CursorType
  <1>7. w \in WriterType
    BY <1>5, <1>6, MakesWriter
  <1>8. /\ w.read.oldest = 0 /\ w.read.newest = 0 /\ w.at = "write" /\ w.page = g /\ w.seen = {}
        /\ w.text = x
    BY <1>5
  <1>9. task' = [task EXCEPT !["thread"] = w] /\ task' \in [Tasks -> WriterType]
    BY <1>1, <1>2, <1>3, <1>4, <1>7
  <1>10. Grows
    BY <1>1, GrowsStill DEF RiverInv
  <1>11. WritersAre'
    BY <1>1, <1>2, <1>3, <1>7, <1>8, <1>9, <1>10, BeginsPage DEF RiverInv
  <1> QED BY <1>1, <1>9, <1>11, StoresStay

\* What a writer saves: the ends that it moved, and for an empty one what it finds.
LEMMA SavedIs ==
    ASSUME NEW t \in Tasks, NEW v \in WriterType, v = task[t], v.seen # {}, cursor \in CursorType
    PROVE  \E c2 \in CursorType :
              /\ c2 = Saved(Advanced(t))
              /\ t \in Polls => /\ c2.newest = Most(v.seen)
                                /\ c2.oldest = IF v.read.oldest = 0 THEN Least(v.seen) ELSE v.read.oldest
              /\ t = "older" => /\ c2.oldest = Least(v.seen)
                                /\ c2.newest = IF v.read.newest = 0 THEN cursor.newest ELSE v.read.newest
              /\ t = "socket" => /\ c2.newest = Most(v.seen)
                                 /\ c2.oldest = IF v.read.oldest = 0 THEN cursor.oldest ELSE v.read.oldest
  <1>1. v.seen \in SUBSET Posts /\ v.seen \in SUBSET Nat /\ 0 \notin v.seen
    BY WriterParts DEF Posts
  <1>2. PICK low \in 0..MaxPosts, high \in 0..MaxPosts :
          low = Least(v.seen) /\ high = Most(v.seen) /\ low # 0 /\ high # 0
    <2>1. Least(v.seen) \in v.seen /\ Most(v.seen) \in v.seen
      BY <1>1, LeastIs, MostIs
    <2>2. \A p \in Posts : p \in 0..MaxPosts
      BY SlackAssumption DEF Posts
    <2> QED BY <1>1, <2>1, <2>2
  <1>3. PICK r \in CursorType : r = v.read /\ r = [oldest |-> r.oldest, newest |-> r.newest]
          /\ r.oldest \in 0..MaxPosts /\ r.newest \in 0..MaxPosts
    BY WriterParts
  <1>4. cursor.oldest \in 0..MaxPosts /\ cursor.newest \in 0..MaxPosts
    BY WriterParts
  <1>5. PICK lowest \in 0..MaxPosts, highest \in 0..MaxPosts :
          /\ lowest = IF t \in Polls THEN (IF r.oldest = 0 THEN low ELSE r.oldest)
                      ELSE IF t = "older" THEN low ELSE r.oldest
          /\ highest = IF t = "older" THEN r.newest ELSE high
    BY <1>2, <1>3
  <1>6. Advanced(t) = [oldest |-> lowest, newest |-> highest]
    <2>1. CASE t \in Polls
      <3>1. t # "older"
        BY <2>1 DEF Polls
      <3> QED BY <1>2, <1>3, <1>5, <2>1, <3>1 DEF Advanced, Polls
    <2>2. CASE t = "older"
      <3>1. t \notin Polls
        BY <2>2 DEF Polls
      <3>2. PICK a : a = [r EXCEPT !.oldest = low]
        OBVIOUS
      <3>3. a = [oldest |-> low, newest |-> r.newest]
        BY <1>3, <3>2
      <3>4. Advanced(t) = a
        BY <1>2, <1>3, <2>2, <3>1, <3>2 DEF Advanced, Polls
      <3> QED BY <1>5, <2>2, <3>1, <3>3, <3>4
    <2>3. CASE t \notin Polls /\ t # "older"
      <3>1. PICK a : a = [r EXCEPT !.newest = high]
        OBVIOUS
      <3>2. a = [oldest |-> r.oldest, newest |-> high]
        BY <1>3, <3>1
      <3>3. Advanced(t) = a
        BY <1>2, <1>3, <2>3, <3>1 DEF Advanced, Polls
      <3> QED BY <1>5, <2>3, <3>2, <3>3
    <2> QED BY <2>1, <2>2, <2>3
  <1>7. PICK oldest \in 0..MaxPosts, newest \in 0..MaxPosts :
          /\ oldest = IF lowest # 0 THEN lowest ELSE cursor.oldest
          /\ newest = IF highest # 0 THEN highest ELSE cursor.newest
    BY <1>4, <1>5
  <1>8. PICK c2 \in CursorType : c2 = [oldest |-> oldest, newest |-> newest]
    BY DEF CursorType
  <1>9. c2 = Saved(Advanced(t))
    BY <1>6, <1>7, <1>8 DEF Saved
  <1>10. t \in Polls => /\ c2.newest = high
                        /\ c2.oldest = IF r.oldest = 0 THEN low ELSE r.oldest
    <2>1. t \in Polls => t # "older"
      BY DEF Polls
    <2> QED BY <1>2, <1>5, <1>7, <1>8, <2>1
  <1>11. t = "older" => /\ c2.oldest = low
                        /\ c2.newest = IF r.newest = 0 THEN cursor.newest ELSE r.newest
    <2>1. t = "older" => t \notin Polls
      BY DEF Polls
    <2> QED BY <1>2, <1>5, <1>7, <1>8, <2>1
  <1>12. t = "socket" => /\ c2.newest = high
                         /\ c2.oldest = IF r.oldest = 0 THEN cursor.oldest ELSE r.oldest
    <2>1. t = "socket" => t \notin Polls /\ t # "older"
      BY DEF Polls
    <2> QED BY <1>2, <1>5, <1>7, <1>8, <2>1
  <1> QED BY <1>2, <1>3, <1>9, <1>10, <1>11, <1>12

\* A writer saves its cursor, or cannot.
LEMMA SavesCursor ==
    ASSUME RiverInv, NEW t \in Tasks, SaveCursor(t)
    PROVE  RiverInv'
  <1>1. /\ UNCHANGED <<channel, pushes, sending, posted, counted, frames>>
        /\ cursor \in CursorType /\ task \in [Tasks -> WriterType] /\ passed \subseteq passed'
        /\ task' = [task EXCEPT ![t] = NoTask]
    BY DEF SaveCursor, Quietly, RiverInv, RiverTypes
  <1>2. PICK v \in WriterType, c \in CursorType : v = task[t] /\ c = cursor
    BY <1>1
  <1>3. v.at = "save" /\ v.seen # {} /\ t # "thread"
    BY <1>2 DEF SaveCursor, RiverInv, WritersAre, WriterIs, WriterFits, ThreadFits
  <1>4. Grows
    BY <1>1, GrowsStill DEF RiverInv
  <1>5. task' \in [Tasks -> WriterType]
    BY <1>1, <1>4, NothingIs
  <1>6. CASE UNCHANGED cursor
    <2>1. WritersAre'
      BY <1>1, <1>4, <1>6, StopsAt DEF RiverInv
    <2> QED BY <1>1, <1>5, <1>6, <2>1, StoresStay
  <1>7. CASE cursor' = Saved(Advanced(t))
    <2>1. PICK c2 \in CursorType :
              /\ c2 = Saved(Advanced(t))
              /\ t \in Polls => /\ c2.newest = Most(v.seen)
                                /\ c2.oldest = IF v.read.oldest = 0 THEN Least(v.seen) ELSE v.read.oldest
              /\ t = "older" => /\ c2.oldest = Least(v.seen)
                                /\ c2.newest = IF v.read.newest = 0 THEN c.newest ELSE v.read.newest
              /\ t = "socket" => /\ c2.newest = Most(v.seen)
                                 /\ c2.oldest = IF v.read.oldest = 0 THEN c.oldest ELSE v.read.oldest
      BY <1>1, <1>2, <1>3, SavedIs
    <2>2. cursor' = c2
      BY <1>7, <2>1
    <2>3. WritersAre'
      <3>1. CASE t \in Polls
        BY <1>1, <1>2, <1>3, <1>4, <2>1, <2>2, <3>1, PollSaves DEF RiverInv
      <3>2. CASE t = "older"
        BY <1>1, <1>2, <1>3, <1>4, <2>1, <2>2, <3>2, OlderSaves DEF RiverInv
      <3>3. CASE t = "socket"
        <4>1. PICK m : m = Least({v.read.newest, c.newest})
          OBVIOUS
        <4>2. passed' = passed \cup LeftOut("socket",
                          {p \in InRange(m, Most(v.seen)) : posted[p] = 0 \/ frames[p] = 0})
          BY <1>2, <3>3, <4>1 DEF SaveCursor
        <4>3. v = task["socket"] /\ task' = [task EXCEPT !["socket"] = NoTask]
          BY <1>1, <1>2, <3>3
        <4>4. RiverTypes /\ WritersAre
          BY DEF RiverInv
        <4> QED BY <1>1, <1>2, <1>3, <2>1, <2>2, <3>3, <4>1, <4>2, <4>3, <4>4, SocketSaves
      <3> QED BY <1>3, <3>1, <3>2, <3>3 DEF Tasks, Polls
    <2> QED BY <1>1, <1>5, <2>2, <2>3, StoresStay
  <1> QED BY <1>6, <1>7 DEF SaveCursor

\* Before the daemon there is a channel and nothing of it.
LEMMA RiverStart ==
    ASSUME SlackInit
    PROVE  RiverInv
  <1>1. PICK kind \in PostKinds :
          channel = [kind |-> kind, posts |-> 1..Early, own |-> {}, edited |-> {}, deleted |-> {}]
    BY DEF SlackInit
  <1>2. /\ pushes = <<>> /\ sending = 0 /\ cursor = [oldest |-> 0, newest |-> 0]
        /\ posted = [p \in Posts |-> 0] /\ frames = posted /\ counted = posted
        /\ task = [t \in Tasks |-> NoTask]
    BY DEF SlackInit
  <1>3. /\ kind \in [Posts -> Kinds] /\ Early \in 0..MaxPosts /\ 1..Early \in SUBSET Posts
        /\ 0 \in 0..MaxPosts
    BY SlackAssumption DEF Posts
  <1>4. /\ channel.kind = kind /\ channel.posts = 1..Early /\ channel.own = {} /\ channel.edited = {}
        /\ channel.deleted = {} /\ channel \in ChannelType
    BY <1>1, <1>3 DEF ChannelType
  <1>5. cursor \in CursorType /\ cursor.oldest = 0 /\ cursor.newest = 0
    BY <1>2, <1>3 DEF CursorType
  <1>6. posted \in [Posts -> 0..2] /\ frames \in [Posts -> 0..2] /\ counted \in [Posts -> Nat]
    BY <1>2
  <1>7. task \in [Tasks -> WriterType] /\ \A t \in Tasks : task[t] = NoTask
    BY <1>2, NothingIs
  <1>8. pushes \in Seq(PushType) /\ Len(pushes) = 0
    BY <1>2
  <1>9. RiverTypes
    BY <1>2, <1>3, <1>4, <1>5, <1>6, <1>7, <1>8 DEF RiverTypes
  <1>10. PushesFit
    BY <1>8 DEF PushesFit
  <1>11. CountsFit
    BY <1>2 DEF CountsFit
  <1>12. PICK c \in CursorType, o \in WriterType : c = cursor /\ o = NoTask
    BY <1>5, NothingIs
  <1>13. Exists(c) /\ Covers(c)
    BY <1>5, <1>12 DEF Exists, Covers
  <1>14. \A t \in Tasks : WriterIs(c, t, o) /\ WriterMeets(c, o, t, o)
    BY <1>9, <1>12, RestIs
  <1>15. CursorMeets(c, o)
    BY <1>4, <1>5, <1>12 DEF CursorMeets, Ends
  <1>16. "older" \in Tasks
    BY WriterParts
  <1>17. WritersAre
    BY <1>7, <1>12, <1>13, <1>14, <1>15, <1>16 DEF WritersAre, OldMeets
  <1> QED BY <1>9, <1>10, <1>11, <1>17 DEF RiverInv

\* Every step keeps it.
LEMMA RiverKept ==
    ASSUME RiverInv, [SlackNext]_slackVars
    PROVE  RiverInv'
  <1>1. CASE SomebodyPosts \/ SendPost
    BY <1>1, PostsCome
  <1>2. CASE TouchPost
    BY <1>2, PostsChange
  <1>3. CASE SocketConnects \/ SocketDrops \/ EmitSent \/ EndRiver
    BY <1>3, RiverTurns
  <1>4. CASE StartRiver \/ PollTick \/ AskOlder
    BY <1>4, WritersBegin
  <1>5. CASE Reread
    BY <1>5, Rereads
  <1>6. CASE AskThread
    BY <1>6, ThreadBegins
  <1>7. CASE TakePush
    BY <1>7, TakesPush
  <1>8. CASE \E t \in Tasks : FetchPage(t) \/ IngestPost(t) \/ SaveCursor(t)
    BY <1>8, FetchesPage, IngestsPost, SavesCursor
  <1>9. CASE UNCHANGED slackVars
    <2>1. UNCHANGED <<channel, pushes, sending, posted, counted, frames, cursor, passed, task>>
      BY <1>9 DEF slackVars, outside, stores, account
    <2>2. Grows
      BY <2>1, GrowsStill DEF RiverInv
    <2>3. task' \in [Tasks -> WriterType] /\ cursor' \in CursorType
      BY <2>1 DEF RiverInv, RiverTypes
    <2>4. WritersAre'
      BY <2>1, <2>2, <2>3, WritersKept DEF RiverInv
    <2> QED BY <2>1, <2>3, <2>4, StoresStay
  <1> QED BY <1>1, <1>2, <1>3, <1>4, <1>5, <1>6, <1>7, <1>8, <1>9 DEF SlackNext

\* The saved cursor covers what it spans, and what is counted is counted once.
LEMMA WholeFromInv ==
    ASSUME RiverInv
    PROVE  RiverIsWhole
  <1>1. CursorCovers
    <2>1. SUFFICES ASSUME NEW p \in Spanned \cap channel.posts PROVE Good(p)
      BY DEF CursorCovers, Good
    <2>2. cursor.oldest # 0 /\ cursor.oldest <= p /\ p <= cursor.newest
      BY DEF Spanned
    <2> QED BY <2>1, <2>2 DEF RiverInv, WritersAre, Covers
  <1>2. CountedOnce
    BY DEF RiverInv, CountsFit, CountedOnce
  <1> QED BY <1>1, <1>2 DEF RiverIsWhole

\* The writers of a channel keep to what they hand each other through the cursor
\* (syncChannelHistory, ingestSocketMessage, SyncOlderHistory, ingestMessages).
THEOREM RiverHolds == SlackSpec => []RiverInv
  BY RiverStart, RiverKept, PTL DEF SlackSpec

\* Between the ends of the cursor every post that can be shown is in both stores,
\* whichever of the four writers raced, failed or were cut short, but for those that the
\* socket ran ahead of, that a page was too short for, that were refused or deleted; and
\* none is counted twice
\* (UpsertSlackSyncCursor, UpsertMessageAndReportNew).
THEOREM RiverWhole == SlackSpec => []RiverIsWhole
  BY RiverHolds, WholeFromInv, PTL

=============================================================================
