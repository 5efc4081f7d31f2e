------------------------------ MODULE Projector ------------------------------
(* Legacy visibility of confirmed sends: while the interface still reads    *)
(* messages.db, the projector follows the outbox by the update times of its *)
(* confirmed rows and writes a copy of each.  The dispatcher, the ingest    *)
(* worker, the legacy receive path and restarts run beside it.              *)
EXTENDS Naturals, FiniteSets, FiniteSetsExt

CONSTANTS
    Sends,          \* outbox rows of texts and media
    Swapped,        \* those of the Google account: the copy bears the request's id and the
                    \* platform's echo replaces it; elsewhere both bear one id
    ReplayWindow,   \* projectorReplayWindow
    MaxClock, MaxRestarts, MaxProjectFaults, MaxFrames     \* bounds

ASSUME ProjectorAssumption ==
    /\ MaxClock \in Nat \ {0} /\ ReplayWindow \in Nat
    /\ MaxRestarts \in Nat /\ MaxProjectFaults \in Nat /\ MaxFrames \in Nat

VARIABLES
    clock,
    intent,       \* send -> its outbox row: state, update time, whether the platform's id is known
    taken,      \* send -> the time the dispatcher read before the transaction, 0 without
    cursor,     \* the watermark and the rows processed at or above it
    scan,       \* the scan: the rows it listed and has not handled, what it has met
    woken,      \* the change channel captured before the scan is closed
    shown,      \* legacy rows: <<send, "request">> and <<send, "platform">>
    frames,     \* send -> echoes the platform has sent
    queued,     \* sends whose echo waits for the ingest worker
    told,       \* history: rows projected ever, in this run, and twice in it
    late,       \* history: sends committed at a time that the scans had passed
    swaps,      \* history: sends whose echo has replaced the copy
    restarts, projectFaults    \* that remain

projectorVars == <<clock, intent, taken, cursor, scan, woken, shown, frames, queued, told, late,
                   swaps, restarts, projectFaults>>

Keys == (0..MaxClock) \X Sends
Waiting == [at |-> "waiting", rows |-> {}, seen |-> 0, failed |-> {}]
KeyOf(i) == <<intent[i].at, i>>

ProjectorTypeOK ==
    /\ clock \in 1..MaxClock
    /\ intent \in [Sends -> [st : {"open", "uncertain", "confirmed"}, at : 0..MaxClock, real : BOOLEAN]]
    /\ taken \in [Sends -> 0..MaxClock]
    /\ cursor \in [mark : 0..MaxClock, done : SUBSET Keys]
    /\ scan \in [at : {"start", "working", "waiting"}, rows : SUBSET Keys, seen : 0..MaxClock,
                 failed : SUBSET (0..MaxClock)]
    /\ woken \in BOOLEAN
    /\ shown \subseteq Sends \X {"request", "platform"}
    /\ frames \in [Sends -> 0..MaxFrames]
    /\ queued \subseteq Sends /\ late \subseteq Sends /\ swaps \subseteq Sends
    /\ told \in [ever : SUBSET Keys, run : SUBSET Keys, twice : SUBSET Keys]
    /\ restarts \in 0..MaxRestarts /\ projectFaults \in 0..MaxProjectFaults

ProjectorInit ==
    /\ clock = 1
    /\ intent = [i \in Sends |-> [st |-> "open", at |-> 0, real |-> FALSE]]
    /\ taken = [i \in Sends |-> 0]
    /\ cursor = [mark |-> 0, done |-> {}]
    /\ scan = [Waiting EXCEPT !.at = "start"]
    /\ woken = FALSE
    /\ shown = {} /\ frames = [i \in Sends |-> 0] /\ queued = {}
    /\ told = [ever |-> {}, run |-> {}, twice |-> {}] /\ late = {} /\ swaps = {}
    /\ restarts = MaxRestarts /\ projectFaults = MaxProjectFaults

Copy(i) == <<i, IF i \in Swapped THEN "request" ELSE "platform">>

-----------------------------------------------------------------------------
(* The outbox and the platform.                                             *)

ClockTicks ==
    /\ clock < MaxClock /\ clock' = clock + 1
    /\ UNCHANGED <<intent, taken, cursor, scan, woken, shown, frames, queued, told, late, swaps,
                   restarts, projectFaults>>

\* The latest time the scans have met.
Passed == Max({cursor.mark, scan.seen} \cup {k[1] : k \in scan.rows})

\* A row is committed as confirmed with a time, and the change is announced.
Commits(i, at, real) ==
    /\ intent' = [intent EXCEPT ![i] = [st |-> "confirmed", at |-> at, real |-> real]]
    /\ late' = IF at < Passed THEN late \cup {i} ELSE late \ {i}
    /\ woken' = TRUE

\* Confirm reads the time, then begins the transaction, which waits for other writers.
ReadsTime(i) ==
    /\ intent[i].st = "open" /\ \A j \in Sends : taken[j] = 0
    /\ taken' = [taken EXCEPT ![i] = clock]
    /\ UNCHANGED <<clock, intent, cursor, scan, woken, shown, frames, queued, told, late, swaps,
                   restarts, projectFaults>>
Confirms(i) ==
    /\ taken[i] > 0
    /\ Commits(i, taken[i], i \notin Swapped)
    /\ taken' = [taken EXCEPT ![i] = 0]
    /\ UNCHANGED <<clock, cursor, scan, shown, frames, queued, told, swaps, restarts, projectFaults>>
\* The answer of the call was lost.
InDoubt(i) ==
    /\ taken[i] > 0
    /\ taken' = [taken EXCEPT ![i] = 0]
    /\ intent' = [intent EXCEPT ![i].st = "uncertain"]
    /\ UNCHANGED <<clock, cursor, scan, woken, shown, frames, queued, told, late, swaps,
                   restarts, projectFaults>>

\* The platform reports the message: the legacy handler stores it under its own id and
\* deletes the copy that bears the request's; the frame is queued for the ingest worker.
EchoArrives(i) ==
    /\ taken[i] > 0 \/ intent[i].st # "open"
    /\ frames[i] < MaxFrames
    /\ frames' = [frames EXCEPT ![i] = @ + 1]
    /\ shown' = (shown \ {<<i, "request">>}) \cup {<<i, "platform">>}
    /\ swaps' = IF <<i, "request">> \in shown THEN swaps \cup {i} ELSE swaps
    /\ queued' = queued \cup {i}
    /\ UNCHANGED <<clock, intent, taken, cursor, scan, woken, told, late, restarts, projectFaults>>

\* ReconcileConfirm settles a row in doubt and enriches one that is confirmed with the
\* request's id; it reads the time inside its transaction.
Reconciles(i) ==
    /\ i \in queued /\ queued' = queued \ {i}
    /\ \/ /\ \/ intent[i].st = "uncertain"
             \/ intent[i].st = "confirmed" /\ ~intent[i].real
          /\ Commits(i, clock, TRUE)
       \/ /\ intent[i].st = "open" \/ (intent[i].st = "confirmed" /\ intent[i].real)
          /\ UNCHANGED <<intent, late, woken>>
    /\ UNCHANGED <<clock, taken, cursor, scan, shown, frames, told, swaps, restarts, projectFaults>>

-----------------------------------------------------------------------------
(* Run.                                                                     *)

\* Capture of the change channel, then ListConfirmedSince from one tick before the
\* watermark, in batches that are doubled until one is not full.
ListsConfirmed ==
    /\ scan.at = "start" \/ scan.at = "waiting"
    /\ woken' = FALSE
    /\ scan' = [at |-> "working", seen |-> cursor.mark, failed |-> {},
                rows |-> {KeyOf(i) : i \in {j \in Sends : intent[j].st = "confirmed"
                                                          /\ intent[j].at >= cursor.mark}}]
    /\ UNCHANGED <<clock, intent, taken, cursor, shown, frames, queued, told, late, swaps,
                   restarts, projectFaults>>

\* The rows come by update time; one that is processed is passed over.
NextListed == CHOOSE k \in scan.rows : \A l \in scan.rows : k[1] <= l[1]
ScannedNext == [scan EXCEPT !.rows = @ \ {NextListed}, !.seen = Max({@, NextListed[1]})]
AlreadyProcessed(k) == k[1] < cursor.mark \/ k \in cursor.done
PassesOver ==
    /\ scan.at = "working" /\ scan.rows # {} /\ AlreadyProcessed(NextListed)
    /\ scan' = ScannedNext
    /\ UNCHANGED <<clock, intent, taken, cursor, woken, shown, frames, queued, told, late, swaps,
                   restarts, projectFaults>>
\* RecordOutgoingMessage: an upsert of the legacy copy.
Projects ==
    /\ scan.at = "working" /\ scan.rows # {} /\ ~AlreadyProcessed(NextListed)
    /\ shown' = shown \cup {Copy(NextListed[2])}
    /\ cursor' = [cursor EXCEPT !.done = @ \cup {NextListed}]
    /\ scan' = ScannedNext
    /\ told' = [ever |-> told.ever \cup {NextListed}, run |-> told.run \cup {NextListed},
                twice |-> IF NextListed \in told.run THEN told.twice \cup {NextListed} ELSE told.twice]
    /\ UNCHANGED <<clock, intent, taken, woken, frames, queued, late, swaps, restarts, projectFaults>>
\* A busy store, or a row that cannot be projected now.
FailsToProject ==
    /\ scan.at = "working" /\ scan.rows # {} /\ ~AlreadyProcessed(NextListed)
    /\ projectFaults > 0 /\ projectFaults' = projectFaults - 1
    /\ scan' = [ScannedNext EXCEPT !.failed = @ \cup {NextListed[1]}]
    /\ UNCHANGED <<clock, intent, taken, cursor, woken, shown, frames, queued, told, late, swaps, restarts>>

\* advanceTo: the watermark stays at the oldest failure, and only keys below it go.
NewMark == IF scan.failed = {} THEN scan.seen ELSE Min(scan.failed)
\* A mutant: the watermark passes over what failed.
AdvanceToSeen ==
    [mark |-> scan.seen, done |-> {k \in cursor.done : k[1] >= scan.seen}]
AdvanceTo ==
    [mark |-> Max({cursor.mark, NewMark}), done |-> {k \in cursor.done : k[1] >= NewMark}]
EndsScan ==
    /\ scan.at = "working" /\ scan.rows = {}
    /\ cursor' = AdvanceTo
    /\ scan' = Waiting
    /\ UNCHANGED <<clock, intent, taken, woken, shown, frames, queued, told, late, swaps,
                   restarts, projectFaults>>

\* The daemon starts again: recovery leaves the interrupted call in doubt, and the
\* projector replays the last window from a watermark of its own.
Restarts ==
    /\ restarts > 0 /\ restarts' = restarts - 1
    /\ intent' = [i \in Sends |-> IF taken[i] > 0 THEN [intent[i] EXCEPT !.st = "uncertain"] ELSE intent[i]]
    /\ taken' = [i \in Sends |-> 0]
    /\ cursor' = [mark |-> IF clock > ReplayWindow THEN clock - ReplayWindow ELSE 0, done |-> {}]
    /\ scan' = [Waiting EXCEPT !.at = "start"]
    /\ woken' = FALSE
    /\ told' = [told EXCEPT !.run = {}, !.twice = {}]
    /\ late' = {i \in Sends : intent[i].st = "confirmed" /\ KeyOf(i) \notin told.ever
                              /\ intent[i].at + ReplayWindow < clock}
    /\ UNCHANGED <<clock, shown, frames, queued, swaps, projectFaults>>

ProjectorNext ==
    \/ ClockTicks \/ Restarts
    \/ \E i \in Sends : ReadsTime(i) \/ Confirms(i) \/ InDoubt(i) \/ EchoArrives(i) \/ Reconciles(i)
    \/ ListsConfirmed \/ PassesOver \/ Projects \/ FailsToProject \/ EndsScan
ProjectorSpec == ProjectorInit /\ [][ProjectorNext]_projectorVars

-----------------------------------------------------------------------------
\* The watermark and the processed set together neither lose a confirmed row nor project
\* one again: whatever failed in a scan or was confirmed during it, a row not projected
\* is still at or above the watermark, unless it was committed at a time already passed.
CursorIsExact ==
    /\ told.twice = {}
    /\ \A i \in Sends \ late :
          intent[i].st = "confirmed" /\ KeyOf(i) \notin told.ever => intent[i].at >= cursor.mark

\* The cursor is called lossless: a confirmed row that a scan has passed is projected.
LosslessCursor == \A i \in Sends : intent[i].st = "confirmed" /\ i \in late => KeyOf(i) \in told.ever

\* The delete-swap reconciliation: once an echo has replaced the copy of a send, the copy
\* does not come back beside it.
SwapIsFinal == \A i \in swaps : <<i, "request">> \notin shown
=============================================================================
