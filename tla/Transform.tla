----------------------------- MODULE Transform -----------------------------
(* The offline migration of a legacy database into a v2 store: what is      *)
(* copied of a database that may still be written, which rows are carried,  *)
(* what each stage writes and the gates that pass or refuse the result; and *)
(* the carry of unsent intents from a store that was moved aside into the   *)
(* one that replaces it.                                                    *)
EXTENDS Integers, FiniteSets

CONSTANTS
    LegacyRows,    \* rows of the legacy messages table, numbered
    LateRow,       \* the one that the old daemon may still write
    Stores,        \* the legacy tables looked at: what each row is
    Timers,        \* legacy scheduled messages
    Schedules,     \* the scheduled messages looked at
    Intents,       \* outbox rows of the store that was moved aside
    Nil,
    MaxWrites,     \* steps of a daemon that was not stopped
    MaxPasses      \* passes of the carry

\* One row of the legacy messages table.
LegacyRow ==
    [named : BOOLEAN, home : BOOLEAN, platform : {"own", "other", "unknown"}, at : 0..3,
     remote : {"", "r1", "r2", "r3"}, sender : {"none", "known", "alien"}, media : BOOLEAN,
     transcript : BOOLEAN,
     reactions : SUBSET {"garbled", "blank", "zero", "me", "peer", "anon", "alien"}]
LegacyTimer ==
    [home : BOOLEAN, due : BOOLEAN, file : {"none", "full", "empty"},
     status : {"pending", "sending", "sent", "unheard"}]
OldStates == {"queued", "not_dispatched", "dispatching", "uncertain", "store_failed", "sent"}

ASSUME TransformAssumption ==
    /\ LegacyRows \subseteq Nat /\ LateRow \in LegacyRows
    /\ Stores \subseteq [LegacyRows -> LegacyRow]
    /\ Schedules \subseteq [Timers -> LegacyTimer]
    /\ MaxWrites \in Nat /\ MaxPasses \in Nat
    /\ Nil \notin {"mine", "other"}

VARIABLES
    network,     \* the platform of the one conversation
    legacy,      \* the rows that were ever in the legacy table
    timers,      \* its scheduled messages
    unread,      \* the conversation's unread count
    files,       \* the rows in the database file and in its write-ahead log
    writes,
    stage,       \* how far the migration is
    evidence,    \* the files when the migration began and when it ended
    snapshot,    \* the staged copy
    kept,        \* the rows retained
    tally,       \* what the loader counted
    fresh,       \* the staged store
    carry        \* the carry of a store that was moved aside
migrateVars == <<network, legacy, timers, unread, files, writes, stage, evidence, snapshot, kept,
                 tally, fresh>>
transformVars == <<migrateVars, carry>>

Stages == {"captureDb", "captureWal", "copyDb", "copyWal", "load", "plan", "history", "reactions",
           "scheduled", "cursors", "closeDb", "closeWal", "validate", "passed", "refused", "aborted"}
Empty == [messages |-> {}, extras |-> {}, attached |-> {}, reacted |-> {}, optimistic |-> {},
          queued |-> {}, blobs |-> {}, cursor |-> Nil]
NoTally == [media |-> 0, transcripts |-> 0, bearing |-> 0, withParent |-> 0, malformed |-> 0,
            unmappable |-> 0, seeded |-> 0, rows |-> 0]

TransformTypeOK ==
    /\ network \in {"sms", "slack"} /\ unread \in -1..2 /\ writes \in 0..MaxWrites
    /\ legacy \in Stores /\ timers \in Schedules
    /\ files \in [{"db", "wal"} -> SUBSET LegacyRows]
    /\ snapshot \in [{"db", "wal"} -> SUBSET LegacyRows]
    /\ stage \in Stages
    /\ kept \subseteq LegacyRows
    /\ fresh.messages \subseteq LegacyRows /\ fresh.queued \subseteq Timers
    /\ DOMAIN carry.rows = Intents

\* The database is at rest but for rows still in the log; the moved store has
\* a row in any state of its outbox.
Claim == [state : OldStates, resolves : BOOLEAN, payload : {"text", "file", "lost"}]
CarryInit ==
    carry \in [claims : [Intents -> Claim], rows : [Intents -> {Nil, "other"}],
               todo : {{}}, told : {{}}, passes : {0}, stage : {"idle"}]
MigrateInit ==
    /\ network \in {"sms", "slack"} /\ legacy \in Stores /\ timers \in Schedules
    /\ unread \in -1..2
    /\ files \in {[db |-> LegacyRows \ {LateRow, r}, wal |-> {r}] : r \in LegacyRows \ {LateRow}}
    /\ writes = 0 /\ stage = "captureDb"
    /\ evidence = [before |-> files, after |-> files]
    /\ snapshot = [f \in {"db", "wal"} |-> {}]
    /\ kept = {} /\ tally = NoTally /\ fresh = Empty
TransformInit == MigrateInit /\ CarryInit

Go(here, next) == stage = here /\ stage' = next
Same(fieldless) == UNCHANGED <<network, legacy, timers, unread, carry, fieldless>>

(* --- the source ---------------------------------------------------------- *)

\* A daemon that was not stopped writes the late row, and may fold its log.
OldDaemonWrites ==
    /\ writes < MaxWrites /\ writes' = writes + 1
    /\ \/ LateRow \notin files.db /\ files' = [files EXCEPT !.wal = @ \cup {LateRow}]
       \/ files' = [db |-> files.db \cup files.wal, wal |-> {}]
    /\ files' # files
    /\ Same(<<stage, evidence, snapshot, kept, tally, fresh>>)

\* captureSourceFileEvidence, one file after the other.
Capture ==
    /\ \/ /\ Go("captureDb", "captureWal")
          /\ evidence' = [evidence EXCEPT !.before.db = files.db]
       \/ /\ Go("captureWal", "copyDb")
          /\ evidence' = [evidence EXCEPT !.before.wal = files.wal]
    /\ Same(<<files, writes, snapshot, kept, tally, fresh>>)

\* stageLegacySourceSnapshot: a copy that differs from the evidence is refused.
CopyMatches(file) == files[file] = evidence.before[file]
Copy ==
    /\ \E file \in {"db", "wal"} :
        /\ stage = (IF file = "db" THEN "copyDb" ELSE "copyWal")
        /\ snapshot' = [snapshot EXCEPT ![file] = files[file]]
        /\ stage' = IF ~CopyMatches(file) THEN "aborted"
                    ELSE IF file = "db" THEN "copyWal" ELSE "load"
    /\ Same(<<files, writes, evidence, kept, tally, fresh>>)

(* --- loading and planning ------------------------------------------------ *)

Bearing(rows) == {r \in rows : legacy[r].reactions # {}}
WithMedia(rows) == {r \in rows : legacy[r].media}
Transcribed(rows) == {r \in rows : legacy[r].transcript}

\* Of the rows read, those that the relationship check retains.
Retained(read) ==
    {r \in read : /\ legacy[r].home /\ legacy[r].platform = "own"
                  /\ legacy[r].at > 0 /\ legacy[r].remote # ""}
Timer(t) == timers[t]
\* A scheduled message that stops the migration.
BadTimer(t) ==
    \/ ~Timer(t).home \/ Timer(t).status = "unheard"
    \/ Timer(t).status \in {"pending", "sending"} /\ ~Timer(t).due

\* dropMessage takes a row out of the platform and attachment counts and
\* counts its reactions; the transcripts were counted when it was scanned.
Counted(read, retained) ==
    [NoTally EXCEPT !.rows = Cardinality(retained),
                    !.media = Cardinality(WithMedia(retained)),
                    !.transcripts = Cardinality(Transcribed(read)),
                    !.bearing = Cardinality(Bearing(read)),
                    !.withParent = Cardinality(Bearing(read \ retained))]

\* loadLegacyRows and validateLegacyRelationships.
Load ==
    /\ stage = "load"
    /\ LET read == {r \in snapshot.db \cup snapshot.wal : legacy[r].named}
       IN IF \/ \E r \in read : legacy[r].platform = "unknown"
             \/ \E t \in Timers : BadTimer(t)
          THEN stage' = "aborted" /\ UNCHANGED <<kept, tally>>
          ELSE /\ stage' = "plan"
               /\ kept' = Retained(read)
               /\ tally' = Counted(read, Retained(read))
    /\ Same(<<files, writes, evidence, snapshot, fresh>>)

\* Who a row's reactions are by, once each.
Reactors(r) == legacy[r].reactions \cap {"me", "peer", "anon"}
Malformed(r) == legacy[r].reactions \cap {"garbled", "blank"} # {}
Unmappable(r) == "garbled" \notin legacy[r].reactions /\ "alien" \in legacy[r].reactions
Seeded(r) == IF "garbled" \in legacy[r].reactions THEN {} ELSE Reactors(r)

\* buildTransformState: a sender whose number has no digits stops it.
PlanRows ==
    /\ stage = "plan"
    /\ IF \E r \in kept : legacy[r].sender = "alien"
       THEN stage' = "aborted" /\ UNCHANGED tally
       ELSE /\ stage' = "history"
            /\ tally' = [tally EXCEPT
                 !.malformed = Cardinality({r \in kept : Malformed(r)}),
                 !.unmappable = Cardinality({r \in kept : Unmappable(r)}),
                 !.seeded = Cardinality({r \in kept : Seeded(r) # {}})]
    /\ Same(<<files, writes, evidence, snapshot, kept, fresh>>)

(* --- writing -------------------------------------------------------------- *)

\* Two rows of one conversation with one remote id share a v2 message; rows are
\* imported in the order of their time, and the last one stays.
SameMessage(r) == {x \in kept : legacy[x].remote = legacy[r].remote}
After(x, y) == legacy[x].at > legacy[y].at \/ (legacy[x].at = legacy[y].at /\ x > y)
Lasting == {r \in kept : \A x \in SameMessage(r) : ~After(x, r)}
Collides == \E r \in kept : SameMessage(r) # {r}

\* writeHistory; an attachment of a Slack row has no reference to pack.
WriteHistory ==
    /\ stage = "history"
    /\ IF network = "slack" /\ WithMedia(kept) # {}
       THEN stage' = "aborted" /\ UNCHANGED fresh
       ELSE /\ stage' = "reactions"
            /\ fresh' = [fresh EXCEPT
                 !.messages = Lasting,
                 !.extras = {legacy[r].remote : r \in Transcribed(kept)},
                 !.attached = {legacy[r].remote : r \in WithMedia(kept)}]
    /\ Same(<<files, writes, evidence, snapshot, kept, tally>>)

\* writeReactions: one row per message and reactor.
WriteReactions ==
    /\ Go("reactions", "scheduled")
    /\ fresh' = [fresh EXCEPT
         !.reacted = UNION {{<<legacy[r].remote, who>> : who \in Seeded(r)} : r \in kept}]
    /\ Same(<<files, writes, evidence, snapshot, kept, tally>>)

\* writeScheduled: what may already have been sent is a message and no intent.
WriteScheduled ==
    /\ stage = "scheduled"
    /\ LET live == {t \in Timers : Timer(t).status \in {"pending", "sending"}}
           unsent == {t \in live : Timer(t).status = "pending"}
       IN IF \E t \in unsent : Timer(t).file = "empty"
          THEN stage' = "aborted" /\ UNCHANGED fresh
          ELSE /\ stage' = "cursors"
               /\ fresh' = [fresh EXCEPT
                    !.optimistic = live, !.queued = unsent,
                    !.blobs = {t \in unsent : Timer(t).file = "full"}]
    /\ Same(<<files, writes, evidence, snapshot, kept, tally>>)

\* writeReadCursors: the message that has as many after it as are unread.
Later(r) == Cardinality({x \in fresh.messages : After(x, r)})
WriteCursors ==
    /\ Go("cursors", "closeDb")
    /\ LET left == IF unread < 0 THEN 0 ELSE unread
           here == {r \in fresh.messages : Later(r) = left}
       IN fresh' = [fresh EXCEPT
            !.cursor = IF here = {} THEN Nil ELSE CHOOSE r \in here : TRUE]
    /\ Same(<<files, writes, evidence, snapshot, kept, tally>>)

(* --- the gates ------------------------------------------------------------ *)

\* completeSourceFileEvidence, one file after the other.
Complete ==
    /\ \/ /\ Go("closeDb", "closeWal")
          /\ evidence' = [evidence EXCEPT !.after.db = files.db]
       \/ /\ Go("closeWal", "validate")
          /\ evidence' = [evidence EXCEPT !.after.wal = files.wal]
    /\ Same(<<files, writes, snapshot, kept, tally, fresh>>)

SourceUnchanged == evidence.after = evidence.before
OfStatus(status) == {t \in Timers : Timer(t).status = status}
CountsMatch ==
    /\ Cardinality(fresh.messages) = Cardinality(kept)
    /\ Cardinality(fresh.messages) = tally.rows
    /\ Cardinality(fresh.attached) = tally.media
    /\ Cardinality(fresh.extras) = tally.transcripts
    /\ tally.bearing = tally.seeded + tally.malformed + tally.unmappable + tally.withParent
    /\ Cardinality(fresh.queued) = Cardinality(OfStatus("pending"))
    /\ Cardinality(fresh.optimistic)
           = Cardinality(OfStatus("pending")) + Cardinality(OfStatus("sending"))
\* sampledHashChecks: each retained row is what its message in the store says
\* (of a platform with many rows, a sample of them).
SamplesMatch == kept \subseteq fresh.messages
\* validateScheduledBlobs: every file of an intent is there, and no other.
BlobsValid == fresh.blobs = {t \in fresh.queued : Timer(t).file = "full"}
\* A gate that trusts the copy, though the database was written meanwhile.
PassesUnchecked == CountsMatch /\ SamplesMatch /\ BlobsValid /\ ~Collides
Passes == CountsMatch /\ SamplesMatch /\ BlobsValid /\ SourceUnchanged /\ ~Collides
Validate ==
    /\ stage = "validate"
    /\ stage' = IF Passes THEN "passed" ELSE "refused"
    /\ Same(<<files, writes, evidence, snapshot, kept, tally, fresh>>)

(* --- carrying the intents of a store that was moved aside ----------------- *)

Carryable == {"queued", "not_dispatched"}
ForReview == {"uncertain", "dispatching", "store_failed"}
InState(states) == {i \in Intents : carry.claims[i].state \in states}

\* ListCarryReview and ListCarryable, of a store that nothing writes any more.
BeginCarry ==
    /\ carry.stage # "carrying" /\ carry.passes < MaxPasses
    /\ carry' = [carry EXCEPT !.stage = "carrying", !.passes = @ + 1,
                              !.told = InState(ForReview), !.todo = InState(Carryable)]
    /\ UNCHANGED migrateVars

\* A key that is already in the new store is taken for this intent's.
IsMineUnchecked(i) == TRUE
\* validateExistingCarry: the row that the key names is this intent's.
IsMine(i) == carry.rows[i] # "other"
CanCarry(i) ==
    carry.claims[i].resolves /\ carry.claims[i].payload # "lost" /\ IsMine(i)
CarryIntent ==
    /\ carry.stage = "carrying"
    /\ \E i \in carry.todo :
        /\ \A j \in carry.todo : i <= j
        /\ \/ /\ CanCarry(i)
              /\ carry' = [carry EXCEPT !.todo = @ \ {i}, !.rows[i] = IF @ = Nil THEN "mine" ELSE @]
           \/ /\ ~CanCarry(i)
              /\ carry' = [carry EXCEPT !.todo = @ \ {i}, !.told = @ \cup {i}]
    /\ UNCHANGED migrateVars

\* A file that cannot be copied, or a crash, ends the pass; it may be repeated.
CarryStops ==
    /\ carry.stage = "carrying"
    /\ carry' = [carry EXCEPT !.stage = IF carry.todo = {} THEN "done" ELSE "failed",
                              !.todo = {}]
    /\ UNCHANGED migrateVars

MigrateNext ==
    \/ OldDaemonWrites \/ Capture \/ Copy \/ Load \/ PlanRows \/ WriteHistory
    \/ WriteReactions \/ WriteScheduled \/ WriteCursors \/ Complete \/ Validate
CarryNext == BeginCarry \/ CarryIntent \/ CarryStops
TransformNext == MigrateNext \/ CarryNext
TransformSpec == TransformInit /\ [][TransformNext]_transformVars

(* --- properties ----------------------------------------------------------- *)

\* A migration that passed carried every row and every unsent message that the
\* legacy database held when it ended, and nothing that may have been sent is
\* an intent again: no row is torn from its log, shadowed or left behind.
PassedIsWhole ==
    stage = "passed" =>
        LET held == {r \in evidence.after.db \cup evidence.after.wal : legacy[r].named}
        IN /\ fresh.messages = Retained(held)
           /\ fresh.queued = OfStatus("pending")
           /\ fresh.blobs = {t \in fresh.queued : Timer(t).file = "full"}
           /\ \A r \in Retained(held) :
                 /\ legacy[r].transcript => legacy[r].remote \in fresh.extras
                 /\ legacy[r].media => legacy[r].remote \in fresh.attached
           /\ fresh.cursor # Nil => fresh.cursor \in fresh.messages

\* A pass of the carry that ended accounts for every intent: it is in the new
\* store, or the operator is told, or it was settled; an intent that may have
\* been sent is never in the new store (carry.go:100 and 112-120).
AllOrReported ==
    /\ \A i \in Intents :
          carry.rows[i] = "mine" => carry.claims[i].state \in Carryable
    /\ carry.stage = "done" =>
          /\ InState(ForReview) \subseteq carry.told
          /\ \A i \in InState(Carryable) : carry.rows[i] = "mine" \/ i \in carry.told

\* A row that cannot be migrated does not stop the migration of the others
\* (source.go:415-420): only the database's writer, a scheduled message, rows
\* that share a message, a row of no platform or one that is retained can.
Plain(r) == legacy[r].reactions = {} /\ legacy[r].sender # "alien" /\ ~legacy[r].media
BadRowNeverAborts ==
    stage \in {"aborted", "refused"} =>
        \/ writes > 0 \/ Collides
        \/ \E t \in Timers : BadTimer(t) \/ Timer(t).file = "empty"
        \/ \E r \in kept : ~Plain(r)
        \/ \E r \in LegacyRows : legacy[r].platform = "unknown"
=============================================================================
